SPECIFICATION FairSpec
CONSTANTS
  Calls = {a, b}
  None = None
  Empty = Empty
  Error = Error
  Settings = {s, t}
  Tiling = {t}
  MaxLoads = 2
  MaxSets = 2
CHECK_DEADLOCK FALSE
INVARIANTS
  TraceIsRight
  NoMixedResult
PROPERTY
  EveryCallAnswered
