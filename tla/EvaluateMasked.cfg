CONSTANTS
  Game <- CheckGames
  Levels = 2
  MaxPos <- MCMaxPos
  MinPos <- MCMinPos
  MaxMoves <- MCMaxMoves
  MinMoves <- MCMinMoves
  MaxChecked <- MCMaxChecked
  MinChecked <- MCMinChecked
  OtherChecked <- MCOtherChecked
  Listed <- MCListed
  Cornered <- MCCornered
  Doomed <- MCDoomed
  MateMax <- MCMate
  MateMin <- MCMate
  RootPos <- MCRoots
SPECIFICATION Spec
INVARIANT
  NoSolutionMeansNoMate
CHECK_DEADLOCK FALSE
