SPECIFICATION DraftSpec
CONSTANTS
  Runs = {r1, r2}
  MaxDrafts = 2
  GatewayErrors = TRUE
INVARIANT DraftOnce
CHECK_DEADLOCK FALSE
