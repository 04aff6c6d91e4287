CONSTANTS
  Game <- CheckGames
  Levels = 3
  MaxPos <- MCMaxPos
  MinPos <- MCMinPos
  MaxMoves <- MCMaxMoves
  MinMoves <- MCMinMoves
  MaxChecked <- MCMaxChecked
  MinChecked <- MCMinChecked
  OtherChecked <- MCOtherChecked
  Listed <- MCListed
  Cornered <- MCCornered
  Doomed <- MCDoomed
  MateMax <- MCMate
  MateMin <- MCMate
  RootPos <- MCRoots
SPECIFICATION Spec
INVARIANTS
  TypeOK
  PrintsWholeTree
  WinIsForced
  LossIsReal
  MateSeen
  SolutionComplete
  PrintedMovesWin
CHECK_DEADLOCK FALSE
