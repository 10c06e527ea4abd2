SPECIFICATION MCSpec
CONSTANTS
  SyncProcs = {p, q}
  Overlap = 1
  LookBehind = 1
  CatchupOverlap = 1
  OverdueAfter = 2
  MaxWindow = 4
  SyncTime = 1
  MaxClock = 6
  OrderKinds = {"fbs", "wildberries", "allegro", "fbo_none", "fbo_unshipped", "fbo_completed", "fbj", "bsi", "offline"}
  Nobody = Nobody
  Users = {u1, u2}
  DetailUsers = {u2}
  Lease = 2
  MaxLocks = 3
  MaxEdits = 2
  MaxMinutes = 4
  Origins = {scheduler}
  MaxCatalog = 4
  Printers = {p1, p2}
  Watchers = {w1, w2}
  WindowSize = 1
  MaxReprints = 1
INVARIANTS
  TypesOK
  NothingMissedUncut
  SnapshotsInOrder
  CatalogCurrent
  ReportedOnce
PROPERTIES
  WorkKept
  EditsSeen
SYMMETRY Symmetry
CHECK_DEADLOCK FALSE
