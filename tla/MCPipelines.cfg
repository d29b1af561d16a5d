SPECIFICATION MCSpec
CONSTANTS
  Scenes <- MCScenes
  Confidence = 3
  OverlapPercent = 45
  DefaultSize = 32
  EncoderSize = 8
  MaskSize = 2
  Embeddings = {"a", "b", "empty"}
  Values <- MCValues
INVARIANTS SameResult FoundInPlace KeptAreGreedy ReadsInsideData SchemaKept LoadedIsSaved
CHECK_DEADLOCK FALSE
