SPECIFICATION LoopSpec
CONSTANTS
  Media <- MCMedia
  MaxBuffers = 2
  MaxPulls = 5
  MaxOpens = 2
  Limits = {0, 1}
  MaxWrites = 2
  FrameLimits = {0, 2}
  Resized = {3}
  ClientPulls = 2
CHECK_DEADLOCK FALSE
PROPERTY
  DeliveryMeansOpen
