SPECIFICATION MCSpec
CONSTANTS
  Scenes <- MCPaddedScenes
  Confidence = 3
  OverlapPercent = 45
  DefaultSize = 32
  EncoderSize = 8
  MaskSize = 2
  Embeddings = {"a", "b", "empty"}
  Values <- MCValues
INVARIANT FoundInPaddedRows
CHECK_DEADLOCK FALSE
