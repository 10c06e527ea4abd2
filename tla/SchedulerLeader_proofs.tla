----------------------- MODULE SchedulerLeader_proofs -----------------------
(***************************************************************************)
(* Proofs about the leader election, for any set of processes.             *)
(***************************************************************************)
EXTENDS SchedulerLeader, TLAPS

(* Every step of the election keeps the types of its variables.            *)
LEMMA LeaderStepTyped ==
  ASSUME LeaderTypeOK, NEW p \in Procs, LeaderStep(p)
  PROVE  LeaderTypeOK'
<1> USE LeaderAssumption DEF LeaderTypeOK, ProcStates, JobStates, Unlocked
<1>1. CASE StartScheduler(p)    BY <1>1 DEF StartScheduler
<1>2. CASE Elect(p)             BY <1>2 DEF Elect
<1>3. CASE LoadJobs(p)          BY <1>3 DEF LoadJobs
<1>4. CASE LookForMissed(p)     BY <1>4 DEF LookForMissed
<1>5. CASE FailPromotion(p)     BY <1>5 DEF FailPromotion
<1>6. CASE ReloadJobs(p)        BY <1>6 DEF ReloadJobs
<1>7. CASE DropConnection(p)    BY <1>7 DEF DropConnection
<1>8. CASE ShutDown(p)          BY <1>8 DEF ShutDown
<1>9. CASE Unlock(p)            BY <1>9 DEF Unlock
<1>10. CASE FailUnlock(p)       BY <1>10 DEF FailUnlock
<1>11. CASE ClearFlag(p)        BY <1>11 DEF ClearFlag
<1>12. CASE ElectLate(p)        BY <1>12 DEF ElectLate
<1>13. CASE Crash(p)            BY <1>13 DEF Crash
<1> QED
  BY <1>1, <1>2, <1>3, <1>4, <1>5, <1>6, <1>7, <1>8, <1>9, <1>10, <1>11, <1>12, <1>13
  DEF LeaderStep, StopStep

(* The states in which the election starts are typed.                      *)
LEMMA LeaderInitTyped ==
  ASSUME NEW booted, LeaderInit(booted)
  PROVE  LeaderTypeOK
BY LeaderAssumption DEF LeaderInit, LeaderTypeOK, ProcStates, JobStates

(* The variables of the election keep their types, in every environment.   *)
THEOREM LeaderTypeCorrect == LeaderSpec => []LeaderTypeOK
<1>1. LeaderInit({}) => LeaderTypeOK
  BY LeaderInitTyped
<1>2. LeaderTypeOK /\ [LeaderNext]_leaderVars => LeaderTypeOK'
  <2> SUFFICES ASSUME LeaderTypeOK, [LeaderNext]_leaderVars PROVE LeaderTypeOK'
    OBVIOUS
  <2>1. CASE LeaderNext
    BY <2>1, LeaderStepTyped DEF LeaderNext
  <2>2. CASE UNCHANGED leaderVars
    BY <2>2 DEF leaderVars, LeaderTypeOK
  <2> QED BY <2>1, <2>2
<1> QED BY <1>1, <1>2, PTL DEF LeaderSpec

-----------------------------------------------------------------------------
(* What makes the flag exclusive: a process has the flag only while it is    *)
(* the holder of the lock, or after its unlock until the flag is cleared; it *)
(* loads and has jobs only as a running process with the flag.             *)
FlagHoldsLock ==
  \A p \in Procs :
    /\ leader[p] => lock = p \/ proc[p] = "released"
    /\ jobs[p] \in {"loading", "looking", "loaded"} => leader[p] /\ proc[p] = "up"
    /\ jobs[p] = "electing" => proc[p] \in {"closing", "released", "stopping"}

(* The protection rests on the lock being in use and on its connection       *)
(* living as long as the process.                                          *)
LockHypotheses == LockEnabled /\ ~ConnFaults

(* Nobody has the flag or jobs when the election starts.                   *)
LEMMA FlagHoldsLockInit ==
  ASSUME NEW booted, LeaderInit(booted)
  PROVE  FlagHoldsLock
BY DEF LeaderInit, FlagHoldsLock

(* Every step of the election keeps the flag with the lock.                *)
LEMMA FlagHoldsLockStep ==
  ASSUME LockHypotheses, LeaderTypeOK, FlagHoldsLock,
         NEW p \in Procs, LeaderStep(p)
  PROVE  FlagHoldsLock'
<1> USE LeaderAssumption
    DEF LockHypotheses, LeaderTypeOK, FlagHoldsLock, ProcStates, JobStates, Unlocked
<1>1. CASE StartScheduler(p)    BY <1>1 DEF StartScheduler
<1>2. CASE Elect(p)             BY <1>2 DEF Elect
<1>3. CASE LoadJobs(p)          BY <1>3 DEF LoadJobs
<1>4. CASE LookForMissed(p)     BY <1>4 DEF LookForMissed
<1>5. CASE FailPromotion(p)     BY <1>5 DEF FailPromotion
<1>6. CASE ReloadJobs(p)        BY <1>6 DEF ReloadJobs
<1>7. CASE DropConnection(p)    BY <1>7 DEF DropConnection
<1>8. CASE ShutDown(p)          BY <1>8 DEF ShutDown
<1>9. CASE Unlock(p)            BY <1>9 DEF Unlock
<1>10. CASE FailUnlock(p)       BY <1>10 DEF FailUnlock
<1>11. CASE ClearFlag(p)        BY <1>11 DEF ClearFlag
<1>12. CASE ElectLate(p)        BY <1>12 DEF ElectLate
<1>13. CASE Crash(p)            BY <1>13 DEF Crash
<1> QED
  BY <1>1, <1>2, <1>3, <1>4, <1>5, <1>6, <1>7, <1>8, <1>9, <1>10, <1>11, <1>12, <1>13
  DEF LeaderStep, StopStep

(* A lock with one holder makes leadership exclusive.                      *)
LEMMA FlagIsExclusive ==
  ASSUME FlagHoldsLock
  PROVE  AtMostOneLeader
BY DEF FlagHoldsLock, AtMostOneLeader, Leads

(* With the lock in use and its connection never lost, two processes never   *)
(* both take themselves for the leader while either can still schedule: not  *)
(* between the unlock of one and the end of its stop, not when an attempt of *)
(* the election outlives a stop, and not when a promotion or a stop fails.  *)
THEOREM LeaderExclusive ==
  ASSUME LockHypotheses
  PROVE  LeaderSpec => []AtMostOneLeader
<1>1. LeaderInit({}) => FlagHoldsLock
  BY FlagHoldsLockInit
<1>2. LeaderTypeOK /\ FlagHoldsLock /\ [LeaderNext]_leaderVars => FlagHoldsLock'
  <2> SUFFICES ASSUME LeaderTypeOK, FlagHoldsLock, [LeaderNext]_leaderVars
               PROVE  FlagHoldsLock'
    OBVIOUS
  <2>1. CASE LeaderNext
    BY <2>1, LockHypotheses, FlagHoldsLockStep DEF LeaderNext
  <2>2. CASE UNCHANGED leaderVars
    BY <2>2 DEF leaderVars, FlagHoldsLock
  <2> QED BY <2>1, <2>2
<1>3. FlagHoldsLock => AtMostOneLeader
  BY FlagIsExclusive
<1> QED BY <1>1, <1>2, <1>3, LeaderTypeCorrect, PTL DEF LeaderSpec

-----------------------------------------------------------------------------
(* The lock is never held by a process that does not schedule, but for one    *)
(* that is about to unlock it and for the named ways to lose it: in every   *)
(* environment, also when statements of promotions and stops fail.         *)
THEOREM LockAlwaysSchedules == LeaderSpec => []LockHolderSchedules
<1>1. LeaderInit({}) => LockHolderSchedules
  BY LeaderAssumption DEF LeaderInit, LockHolderSchedules
<1>2. LeaderTypeOK /\ LockHolderSchedules /\ [LeaderNext]_leaderVars
        => LockHolderSchedules'
  <2> SUFFICES ASSUME LeaderTypeOK, LockHolderSchedules, [LeaderNext]_leaderVars
               PROVE  LockHolderSchedules'
    OBVIOUS
  <2> USE LeaderAssumption DEF LeaderTypeOK, LockHolderSchedules, Unlocked
  <2>1. CASE UNCHANGED leaderVars
    BY <2>1 DEF leaderVars
  <2>2. ASSUME NEW p \in Procs, LeaderStep(p) PROVE LockHolderSchedules'
    <3>1. CASE StartScheduler(p)    BY <3>1 DEF StartScheduler
    <3>2. CASE Elect(p)             BY <3>2 DEF Elect
    <3>3. CASE LoadJobs(p)          BY <3>3 DEF LoadJobs
    <3>4. CASE LookForMissed(p)     BY <3>4 DEF LookForMissed
    <3>5. CASE FailPromotion(p)     BY <3>5 DEF FailPromotion
    <3>6. CASE ReloadJobs(p)        BY <3>6 DEF ReloadJobs
    <3>7. CASE DropConnection(p)    BY <3>7 DEF DropConnection
    <3>8. CASE ShutDown(p)          BY <3>8 DEF ShutDown
    <3>9. CASE Unlock(p)            BY <3>9 DEF Unlock
    <3>10. CASE FailUnlock(p)       BY <3>10 DEF FailUnlock
    <3>11. CASE ClearFlag(p)        BY <3>11 DEF ClearFlag
    <3>12. CASE ElectLate(p)        BY <3>12 DEF ElectLate
    <3>13. CASE Crash(p)            BY <3>13 DEF Crash
    <3> QED
      BY <2>2, <3>1, <3>2, <3>3, <3>4, <3>5, <3>6, <3>7, <3>8, <3>9, <3>10, <3>11, <3>12, <3>13
      DEF LeaderStep, StopStep
  <2> QED BY <2>1, <2>2 DEF LeaderNext
<1> QED BY <1>1, <1>2, LeaderTypeCorrect, PTL DEF LeaderSpec
=============================================================================
