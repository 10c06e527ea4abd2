SPECIFICATION Spec
CONSTANTS
  None = None
  Procs = {p1, p2}
  LockEnabled = TRUE
  ConnFaults = TRUE
  DbFaults = FALSE
  Crashes = TRUE
  GracefulStops = FALSE
  Booted = {p1, p2}
  MaxRuns = 2
  RetryCounts = {0, 1}
  RetryInterval = 1
  Timeouts = {1}
  Batch = 2
  Blockers = 0
  StaleBuffer = 1
  Lookback = 1
  FireTimes = {}
  MaxTime = 3
  Overruns = TRUE
  LaunchFaults = FALSE
  Operators = {"reprint", "run"}
INVARIANT RetryAfterAttemptEnded
INVARIANT ChainShape
CHECK_DEADLOCK FALSE
SYMMETRY Symmetry
