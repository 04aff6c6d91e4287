CONSTANTS
  Game <- TinyGames
  Levels = 3
  MinStoreLevel = 2
  NoPos = NoPos
  MaxPos <- MCMaxPos
  MinPos <- MCMinPos
  MaxMoves <- MCMaxMoves
  MinMoves <- MCMinMoves
  MaxChecked <- MCMaxChecked
  MinChecked <- MCMinChecked
  Order <- AnyOrder
  Circular <- MCCircular
  Sig <- MCSig
  Follows <- SameGame
  Sigs <- MCSigs
  MateMax <- MCMate
  MateMin <- MCMate
  DirectMax <- MCDirectMate
  DirectMin <- MCDirectMate
  RootPos <- MCRoots
SPECIFICATION Spec
INVARIANTS
  TypeOK
  MateIsReal
  MateBoundsSound
  NeverAborts
  TreesAnswerReplies
  PathHasMove
PROPERTY
  ImplementsSound
CHECK_DEADLOCK FALSE
