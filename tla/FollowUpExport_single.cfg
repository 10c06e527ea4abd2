SPECIFICATION FairSpec
CONSTANTS
  None = None
  Workers = {w1}
  Jobs = {1, 2, 3}
  Items = {i1, i2}
  MaxAttempts = 2
  Lease = 1
  RetryDelay = 1
  Dedupe = TRUE
  LateCommits = FALSE
  Crashes = TRUE
  Overruns = TRUE
  ConnFaults = TRUE
INVARIANT ExportTypeOK
INVARIANT AttemptsBounded
PROPERTY ImplementsQueue
PROPERTY EveryJobCloses
CHECK_DEADLOCK FALSE
