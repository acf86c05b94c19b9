SPECIFICATION Spec
CONSTANTS
  Requests = {r1, r2}
  RepoOf <- const_OwnRepo
  MaxAttempts = 1
  MaxPods = 1
  Keep = 1
  MaxRuns = 1
  MaxPushes = 2
CHECK_DEADLOCK FALSE
INVARIANTS
  OneBuildAtATime
