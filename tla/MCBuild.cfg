SPECIFICATION FairSpec
CONSTANTS
  r1 = r1
  r2 = r2
  Requests <- const_Requests
  RepoOf <- const_OneRepo
  Semver <- const_Semver
  Spelling <- const_Spelling
  NotSemver = NotSemver
  NoImage = NoImage
  MaxAttempts = 2
  MaxPods = 2
  Keep = 1
  MaxRuns = 1
  MaxPushes = 2
CHECK_DEADLOCK FALSE
INVARIANTS
  CompletedIsAvailable
  CompletedIsServed
PROPERTIES
  NewestIsKept
  AnswersGoForward
  RunsEnd
