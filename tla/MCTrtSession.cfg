SPECIFICATION SessionSpec
CONSTANTS
  Procs = {us, other}
  Specs <- MCSpecs
  Legacies <- MCLegacies
  MaxLoads = 2
  MaxReplaced = 1
  Us = us
  Calls = {c1, c2}
  CallPolicies = {"disabled"}
  None = None
CHECK_DEADLOCK FALSE
INVARIANTS
  NoStaleEngine
  PolicyKept
  ResultOfOwnInput
  NothingFreedInUse
PROPERTY
  EveryCallReturns
