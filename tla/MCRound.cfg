CONSTANTS
  AllowCastling = TRUE
  Roots <- AllRoots
  MaxLevel = 2
SPECIFICATION Spec
INVARIANTS
  TypeOK
  KingsStayCached
  LegalityExact
  SquaresDecideMoves
  CheckFlagExact
  UndoRestores
  ApplyChecksPass
  AttacksAreCaptures
  NextStatesAgree
PROPERTY
  CaptureAccounting
CHECK_DEADLOCK FALSE
