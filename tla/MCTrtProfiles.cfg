SPECIFICATION SessionSpec
CONSTANTS
  Procs = {us, other}
  Specs <- MCTwoProfiles
  Legacies <- MCLegacies
  MaxLoads = 2
  MaxReplaced = 0
  Us = us
  Calls = {}
  CallPolicies = {}
  None = None
CHECK_DEADLOCK FALSE
INVARIANT
  ProfilesApply
