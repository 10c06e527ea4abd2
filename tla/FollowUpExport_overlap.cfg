SPECIFICATION Spec
CONSTANTS
  None = None
  Workers = {w1, w2}
  Jobs = {1, 2}
  Items = {i1, i2}
  MaxAttempts = 2
  Lease = 1
  RetryDelay = 1
  Dedupe = FALSE
  LateCommits = TRUE
  Crashes = TRUE
  Overruns = TRUE
  ConnFaults = FALSE
SYMMETRY Symmetry
INVARIANT RowOncePerJob
INVARIANT ShippedHasRow
CHECK_DEADLOCK FALSE
