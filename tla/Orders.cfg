SPECIFICATION MCSpec
CONSTANTS
  Orders = {o1, o2}
  Chains = {c1, c2}
  Lone = c1
  Operators = {"print", "pick", "ship", "delete", "name"}
  Faults = {"printer", "raise", "crash"}
  MaxRetries = 1
  MaxPapers = 2
  MaxPurchases = 2
  Runs = {r1, r2, r3}
  MaxDrafts = 3
  GatewayErrors = FALSE
  Free = Free
  Submitters = {s1, s2}
  Parcelled = {p1, p2}
  MaxParcels = 2
  OutOrders = {q1, q2}
  TrackingNos = {t1, t2}
  Scanners = {b1, b2}
  Batches = {d1}
INVARIANTS
  TypesOK
  PrintedOnce
  StagesEarned
  DraftOnce
  ParcelKept
  ScannedIsOut
PROPERTIES
  NoSecondParcel
SYMMETRY Symmetry
CHECK_DEADLOCK FALSE
