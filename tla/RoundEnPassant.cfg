CONSTANTS
  AllowCastling = TRUE
  Roots <- EnPassantRoots
  MaxLevel = 2
SPECIFICATION Spec
INVARIANT
  NextStatesComplete
CHECK_DEADLOCK FALSE
