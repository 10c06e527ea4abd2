SPECIFICATION MCSpec
CONSTANTS
  None = None
  Procs = {p1, p2, p3}
  LockEnabled = TRUE
  ConnFaults = FALSE
  DbFaults = TRUE
  Crashes = TRUE
  GracefulStops = TRUE
  NoOne = NoOne
  TokenProcs = {p, q}
  Callers = {p}
  Forced = FALSE
  Window = 1
  Lifetime = 3
  MarkerLife = 2
  CallTime = 1
  MaxDeaths = 1
  TokenFaults = {"lostAnswer", "noAnswer", "noCommit"}
  Accounts = {a1, a2}
  TrafficProcs = {t1, t2}
  Served = {t2}
  AttemptLimit = 2
  MaxTraffic = 3
  MaxStops = 1
  MaxLost = 1
INVARIANTS
  TypesOK
  AtMostOneLeader
  LockHolderSchedules
  RotationKept
  AccountsApart
PROPERTIES
  SchedulingResumes
  DueIsHandled
  RunsFinish
CHECK_DEADLOCK FALSE
