CONSTANTS
  AllowCastling = FALSE
  BlackFirst = FALSE
  Root0 <- Switchback
  Levels = 2
  MinStoreLevel = 2
  NoPos = NoPos
  MaxPos <- MCMaxPos
  MinPos <- MCMinPos
  MaxMoves <- MCMoves
  MinMoves <- MCMoves
  MaxChecked <- MCChecked
  MinChecked <- MCChecked
  Order <- OneOrder
  Circular <- MCCircular
  Sig <- MCSig
  Follows <- OneSearch
  Sigs <- MCSigs
  MateMax <- MCMate
  MateMin <- MCMate
  RootPos <- MCRoots
SPECIFICATION Spec
INVARIANT
  NoMateMissed
CHECK_DEADLOCK FALSE
