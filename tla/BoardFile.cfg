CONSTANTS
  Lines <- TestLines
  MaxLines = 4
SPECIFICATION Spec
INVARIANTS
  TypeOK
  FinishedKingsCached
  LinesOnBoard
CHECK_DEADLOCK FALSE
