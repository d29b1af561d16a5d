SPECIFICATION MCSpec
CONSTANTS
  Lengths <- MCLengths
  TileSizes <- MCTileSizes
  OverlapSizes <- MCOverlaps
  Images <- MCImages
  Options <- MCOptions
  Tasks <- MCTasks
  Objects <- MCObjects
  IouThreshold = 40
CHECK_DEADLOCK FALSE
INVARIANTS
  EveryPixelTiled
  TilesDistinctInside
  OverlapKept
  ReturnsAxisStarts
  MaskInPlace
  DetectionsMerged
  CropsInsideData
