SPECIFICATION Spec
CONSTANTS
  None = None
  Procs = {p1, p2}
  LockEnabled = TRUE
  ConnFaults = FALSE
  DbFaults = TRUE
  Crashes = TRUE
  GracefulStops = FALSE
  Booted = {p1, p2}
  MaxRuns = 3
  RetryCounts = {1}
  RetryInterval = 1
  Timeouts = {1, 2}
  Batch = 2
  Blockers = 0
  StaleBuffer = 1
  Lookback = 1
  FireTimes = {1, 2}
  MaxTime = 3
  Overruns = FALSE
  LaunchFaults = FALSE
  Operators = {"edit"}
SYMMETRY Symmetry
INVARIANT TypeOK
INVARIANT OneScheduledRun
INVARIANT ChainExclusive
INVARIANT RetriedOnce
INVARIANT OccurrenceOnce
PROPERTY VerdictOnDead
CHECK_DEADLOCK FALSE
