SPECIFICATION FairSpec
CONSTANTS
  None = None
  Procs = {p1, p2}
  LockEnabled = TRUE
  ConnFaults = FALSE
  DbFaults = FALSE
  Crashes = TRUE
  GracefulStops = TRUE
  Booted = {p1}
  MaxRuns = 2
  RetryCounts = {1}
  RetryInterval = 1
  Timeouts = {1}
  Batch = 2
  Blockers = 1
  StaleBuffer = 1
  Lookback = 1
  FireTimes = {0}
  MaxTime = 2
  Overruns = FALSE
  LaunchFaults = TRUE
  Operators = {"toggle"}
INVARIANT ClaimedIsOwned
PROPERTY WaitingRetryTaken
CHECK_DEADLOCK FALSE
