CONSTANTS
  Game <- BackAndForth
  Levels = 5
  MinStoreLevel = 2
  NoPos = NoPos
  MaxPos <- MCMaxPos
  MinPos <- MCMinPos
  MaxMoves <- MCMaxMoves
  MinMoves <- MCMinMoves
  MaxChecked <- MCMaxChecked
  MinChecked <- MCMinChecked
  Order <- AnyOrder
  Circular <- MCCircular
  Sig <- MCSig
  Follows <- Never
  Sigs <- MCSigs
  MateMax <- MCMate
  MateMin <- MCMate
  DirectMax <- MCDirectMate
  DirectMin <- MCDirectMate
  RootPos <- MCRoots
SPECIFICATION Spec
INVARIANT
  PathPrintable
CHECK_DEADLOCK FALSE
