CONSTANTS
  AllowCastling = TRUE
  Roots <- CastlingRoots
  MaxLevel = 2
SPECIFICATION Spec
INVARIANT
  CastlingOffered
CHECK_DEADLOCK FALSE
