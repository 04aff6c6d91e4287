CONSTANTS
  Game <- TinyGames
  Levels = 3
  MinStoreLevel = 2
  NoPos = NoPos
  MaxPos <- MCMaxPos
  MinPos <- MCMinPos
  MaxMoves <- MCMaxMoves
  MinMoves <- MCMinMoves
  MaxChecked <- MCMaxChecked
  MinChecked <- MCMinChecked
  Order <- AnyOrder
  Circular <- MCCircular
  Sig <- MCSig
  Follows <- SameGame
  Sigs <- MCSigs
  MateMax <- MCMate
  MateMin <- MCMate
  DirectMax <- MCDirectMate
  DirectMin <- MCDirectMate
  RootPos <- MCRoots
SPECIFICATION FairSpec
INVARIANTS
  DirectMateFound
  EscapeBoundsSound
PROPERTY
  Termination
  ImplementsDirect
CHECK_DEADLOCK FALSE
