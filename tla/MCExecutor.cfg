SPECIFICATION FairSpec
CONSTANTS
  Tasks = {a, b, c}
  NoTask = NoTask
  MaxThreads = 3
  ThreadSettings <- MCThreadSettings
  DetectedThreads <- MCDetectedThreads
CHECK_DEADLOCK FALSE
INVARIANTS
  EachTaskOnce
  NoLostWakeup
  ShutdownDrains
PROPERTIES
  EventuallyDestroyed
  ImplementsService
