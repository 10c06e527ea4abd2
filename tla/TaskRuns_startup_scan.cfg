SPECIFICATION Spec
CONSTANTS
  None = None
  Procs = {p1, p2}
  LockEnabled = TRUE
  ConnFaults = FALSE
  DbFaults = FALSE
  Crashes = FALSE
  GracefulStops = FALSE
  Booted = {p1}
  MaxRuns = 3
  RetryCounts = {1}
  RetryInterval = 1
  Timeouts = {1}
  Batch = 2
  Blockers = 0
  StaleBuffer = 1
  Lookback = 1
  FireTimes = {}
  MaxTime = 3
  Overruns = FALSE
  LaunchFaults = FALSE
  Operators = {"run"}
INVARIANT RetryBudget
CHECK_DEADLOCK FALSE
