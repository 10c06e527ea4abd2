SPECIFICATION Spec
CONSTANTS
  None = None
  Workers = {w1, w2}
  Jobs = {1, 2, 3}
  Items = {i1, i2}
  MaxAttempts = 2
  Lease = 1
  RetryDelay = 1
  Dedupe = TRUE
  LateCommits = FALSE
  Crashes = FALSE
  Overruns = FALSE
  ConnFaults = TRUE
SYMMETRY Symmetry
INVARIANT OneExecutor
INVARIANT MarkedHasRow
CHECK_DEADLOCK FALSE
