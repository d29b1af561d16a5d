SPECIFICATION MCSpec
CONSTANTS
  Lengths <- MCLengths
  TileSizes <- MCTileSizes
  OverlapSizes <- MCOverlaps
  Images <- MCPadded
  Options <- MCOptions
  Tasks <- MCMasks
  Objects <- MCObjects
  IouThreshold = 40
CHECK_DEADLOCK FALSE
INVARIANT
  TiledSourceIsPacked
