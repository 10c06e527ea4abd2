--------------------------- MODULE TaskRuns_proofs ---------------------------
(***************************************************************************)
(* Proofs about the runs of a scheduled task, for any number of processes,  *)
(* runs, retries and ticks, and for every combination of faults.           *)
(***************************************************************************)
EXTENDS TaskRuns, SchedulerLeader_proofs

(* The processes and the rows as the leaves below need them.               *)
LEMMA ScanTyped ==
  ASSUME TypeOK, NEW s \in Scans
  PROVE  /\ scan[s].due \subseteq RunIds /\ scan[s].todo \subseteq RunIds
         /\ scan[s].child \in {0} \cup RunIds /\ s[1] \in Procs
BY DEF TypeOK, Scan, Scans

(* Ids of rows are positive, so that 0 can stand for NULL.                  *)
LEMMA RunIdsAreNat == RunIds \subseteq Nat \ {0}
BY TaskAssumption DEF RunIds

(* _create_run writes a well-formed row.                                   *)
LEMMA CreateRunTyped ==
  ASSUME TypeOK, NEW p \in Procs, NEW r \in RunIds, NEW mode \in Modes,
         NEW attempt \in Nat, NEW parent \in {0} \cup RunIds,
         NEW origin \in {0} \cup RunIds, NEW slot \in Nat \cup {None},
         CreateRun(p, r, mode, attempt, parent, origin, slot)
  PROVE  /\ run' \in [RunIds -> Row]
         /\ exec' \in [RunIds -> Procs \cup {None}]
         /\ fixing' \in [RunIds -> Procs \cup {None}]
<1>1. PICK m \in RetryCounts :
        run' = [run EXCEPT ![r] =
          [status |-> "running", mode |-> mode, attempt |-> attempt,
           maxRetry |-> m, parent |-> parent, origin |-> origin,
           retryAt |-> None, startedAt |-> now, slot |-> slot,
           limit |-> timeout, cut |-> FALSE, dropped |-> FALSE]]
  BY DEF CreateRun
<1>2. m \in Nat  BY TaskAssumption
<1>3. [status |-> "running", mode |-> mode, attempt |-> attempt,
       maxRetry |-> m, parent |-> parent, origin |-> origin,
       retryAt |-> None, startedAt |-> now, slot |-> slot,
       limit |-> timeout, cut |-> FALSE, dropped |-> FALSE] \in Row
  BY <1>2, TaskAssumption DEF TypeOK, Row, Statuses
<1>4. run' \in [RunIds -> Row]  BY <1>1, <1>3 DEF TypeOK
<1> QED BY <1>4 DEF CreateRun, TypeOK

(* What a row keeps when it is written after its creation.                 *)
SameRun(new, row) ==
  /\ new \in Row
  /\ new.mode = row.mode /\ new.attempt = row.attempt /\ new.maxRetry = row.maxRetry
  /\ new.parent = row.parent /\ new.origin = row.origin
  /\ new.startedAt = row.startedAt /\ new.slot = row.slot /\ new.limit = row.limit
  /\ row.cut => new.cut
  /\ row.dropped => new.dropped

(* The updates of a row keep it, and give it the status they are meant to.   *)
LEMMA RowClaimed ==
  ASSUME NEW row \in Row
  PROVE  SameRun(Claimed(row), row) /\ Claimed(row).status = "retrying"
<1>1. Claimed(row) = [[row EXCEPT !.status = "retrying"] EXCEPT !.retryAt = None]
  BY DEF Claimed
<1>2. [row EXCEPT !.status = "retrying"] \in Row  BY DEF Row, Statuses
<1> QED BY <1>1, <1>2 DEF Row, SameRun

LEMMA RowResumed ==
  ASSUME NEW row \in Row
  PROVE  SameRun(Resumed(row), row) /\ Resumed(row).status = "success"
<1>1. Resumed(row) = [[row EXCEPT !.status = "success"] EXCEPT !.retryAt = None]
  BY DEF Resumed
<1>2. [row EXCEPT !.status = "success"] \in Row  BY DEF Row, Statuses
<1> QED BY <1>1, <1>2 DEF Row, SameRun

LEMMA RowFailed ==
  ASSUME NEW row \in Row, now \in Nat
  PROVE  /\ SameRun(AfterFailure(row), row)
         /\ \/ AfterFailure(row).status = "failed"
            \/ AfterFailure(row).status = "waiting_retry" /\ row.attempt < row.maxRetry
<1>1. CASE row.attempt < row.maxRetry
  <2>1. AfterFailure(row) = [[row EXCEPT !.status = "waiting_retry"]
                               EXCEPT !.retryAt = now + RetryInterval]
    BY <1>1 DEF AfterFailure
  <2>2. [row EXCEPT !.status = "waiting_retry"] \in Row  BY DEF Row, Statuses
  <2>3. now + RetryInterval \in Nat  BY TaskAssumption
  <2> QED BY <1>1, <2>1, <2>2, <2>3 DEF Row, SameRun
<1>2. CASE ~(row.attempt < row.maxRetry)
  BY <1>2 DEF AfterFailure, Row, Statuses, SameRun
<1> QED BY <1>1, <1>2

LEMMA RowWritten ==
  ASSUME NEW row \in Row, NEW st \in {"success", "failed"}
  PROVE  SameRun([row EXCEPT !.status = st], row) /\ [row EXCEPT !.status = st].status = st
BY DEF Row, Statuses, SameRun

(* Marking a row changes nothing else.                                     *)
LEMMA RowMarked ==
  ASSUME NEW row \in Row
  PROVE  /\ SameRun([row EXCEPT !.dropped = TRUE], row)
         /\ SameRun([row EXCEPT !.cut = TRUE], row)
         /\ [row EXCEPT !.dropped = TRUE].status = row.status
         /\ [row EXCEPT !.cut = TRUE].status = row.status
         /\ [row EXCEPT !.dropped = TRUE].dropped
         /\ [row EXCEPT !.cut = TRUE].cut
BY DEF Row, SameRun

(* The first state is typed.                                               *)
LEMMA TaskInitTyped == Init => TypeOK
<1> SUFFICES ASSUME Init PROVE TypeOK  OBVIOUS
<1>1. LeaderTypeOK  BY LeaderInitTyped DEF Init
<1>2. Absent \in Row  BY DEF Absent, Row, Statuses, Modes
<1>3. \A pc \in {"ready", "over"} : NoScan(pc) \in Scan  BY DEF NoScan, Scan
<1> QED BY <1>1, <1>2, <1>3 DEF Init, TypeOK

(* Every step keeps the types of the variables.                            *)
LEMMA TaskStepTyped ==
  ASSUME TypeOK, [Next]_vars
  PROVE  TypeOK'
<1> USE RunIdsAreNat DEF taskVars, jobVars
<1>1. ASSUME NEW p \in Procs, FireCron(p) PROVE TypeOK'
  <2>1. CASE enabled /\ ~CronBusy(p)
    <3>1. PICK r \in RunIds : CreateRun(p, r, "scheduler", 0, 0, 0, cron[p])
      BY <1>1, <2>1 DEF FireCron
    <3>2. cron[p] \in Nat \cup {None}  BY DEF TypeOK
    <3> QED BY <1>1, <3>1, <3>2, CreateRunTyped DEF FireCron, TypeOK, LeaderTypeOK, leaderVars, Modes
  <2>2. CASE ~(enabled /\ ~CronBusy(p))
    BY <1>1, <2>2 DEF FireCron, TypeOK, LeaderTypeOK, leaderVars, runVars
  <2> QED BY <2>1, <2>2
<1>2. ASSUME NEW p \in Procs, FireCatchup(p) PROVE TypeOK'
  <2>1. PICK f \in catchup[p] :
          /\ catchup' = [catchup EXCEPT ![p] = @ \ {f}]
          /\ IF enabled
             THEN \E r \in RunIds : CreateRun(p, r, "catchup", 0, 0, 0, f)
             ELSE UNCHANGED runVars
    BY <1>2 DEF FireCatchup
  <2>2. f \in Nat  BY DEF TypeOK
  <2>3. catchup' \in [Procs -> SUBSET Nat]  BY <2>1 DEF TypeOK
  <2>4. CASE enabled
    <3>1. PICK r \in RunIds : CreateRun(p, r, "catchup", 0, 0, 0, f)
      BY <2>1, <2>4
    <3> QED BY <1>2, <2>2, <2>3, <3>1, CreateRunTyped DEF FireCatchup, TypeOK, LeaderTypeOK, leaderVars, Modes
  <2>5. CASE ~enabled
    BY <1>2, <2>1, <2>3, <2>5 DEF FireCatchup, TypeOK, LeaderTypeOK, leaderVars, runVars
  <2> QED BY <2>4, <2>5
<1>3. ASSUME NEW p \in Procs, RunManually(p) PROVE TypeOK'
  <2>1. PICK r \in RunIds : CreateRun(p, r, "manual", 0, 0, 0, None)
    BY <1>3 DEF RunManually
  <2> QED BY <1>3, <2>1, CreateRunTyped DEF RunManually, TypeOK, LeaderTypeOK, leaderVars, Modes
<1>4. ASSUME NEW p \in Procs, StaleRead(p) PROVE TypeOK'
  BY <1>4 DEF StaleRead, StaleRuns, TypeOK, LeaderTypeOK, leaderVars, runVars
<1>5. ASSUME NEW p \in Procs, StaleCommit(p) PROVE TypeOK'
  <2>1. \A r \in RunIds : [run[r] EXCEPT !.status = "failed"] \in Row
    BY RowWritten DEF TypeOK, SameRun
  <2>2. run' \in [RunIds -> Row]  BY <1>5, <2>1 DEF StaleCommit, TypeOK
  <2> QED BY <1>5, <2>2 DEF StaleCommit, TypeOK, LeaderTypeOK, leaderVars
<1>6. ASSUME NEW p \in Procs, ElectLeader(p) PROVE TypeOK'
  <2>1. LeaderStep(p)  BY <1>6 DEF ElectLeader, ElectionStep, LeaderStep
  <2>2. LeaderTypeOK'  BY <2>1, LeaderStepTyped DEF TypeOK
  <2> QED BY <1>6, <2>2 DEF ElectLeader, TypeOK, runVars
<1>7. ASSUME NEW p \in Procs, CatchUp(p) PROVE TypeOK'
  <2>1. LeaderTypeOK'  BY <1>7, LeaderStepTyped DEF CatchUp, LeaderStep, TypeOK
  <2>2. MissedFires \subseteq Nat  BY TaskAssumption DEF MissedFires
  <2>3. PICK found \in SUBSET MissedFires :
          /\ catchup' = [catchup EXCEPT ![p] = IF enabled THEN found ELSE {}]
          /\ torn' = torn \cup (catchup'[p] \cap Handed)
    BY <1>7 DEF CatchUp
  <2>4. found \subseteq Nat  BY <2>2, <2>3
  <2>5. catchup' \in [Procs -> SUBSET Nat]  BY <2>3, <2>4 DEF TypeOK
  <2>6. torn' \subseteq Nat  BY <2>3, <2>5 DEF TypeOK
  <2> QED BY <1>7, <2>1, <2>5, <2>6 DEF CatchUp, TypeOK, runVars
<1>8. ASSUME NEW p \in Procs, Stop(p) PROVE TypeOK'
  <2>1. LeaderTypeOK'  BY <1>8, LeaderStepTyped DEF Stop, LeaderStep, TypeOK
  <2> QED BY <1>8, <2>1 DEF Stop, TypeOK, runVars
<1>9. ASSUME NEW p \in Procs, Kill(p) PROVE TypeOK'
  <2>1. LeaderTypeOK'  BY <1>9, LeaderStepTyped DEF Kill, LeaderStep, TypeOK
  <2>2. NoScan("over") \in Scan  BY DEF NoScan, Scan
  <2>3. /\ exec' \in [RunIds -> Procs \cup {None}]
        /\ fixing' \in [RunIds -> Procs \cup {None}]
        /\ scan' \in [Scans -> Scan]
    BY <1>9, <2>2 DEF Kill, TypeOK
  <2>4. /\ stale' \in [Procs -> SUBSET RunIds]
        /\ cron' \in [Procs -> Nat \cup {None}]
        /\ catchup' \in [Procs -> SUBSET Nat]
    BY <1>9 DEF Kill, TypeOK
  <2>5. run' \in [RunIds -> Row]
    BY <1>9, RowMarked DEF Kill, TypeOK, SameRun
  <2> QED BY <1>9, <2>1, <2>3, <2>4, <2>5 DEF Kill, TypeOK
<1>10. ASSUME NEW r \in RunIds, Succeed(r) PROVE TypeOK'
  <2>1. [run[r] EXCEPT !.status = "success"] \in Row
    BY RowWritten DEF TypeOK, SameRun
  <2>2. run' \in [RunIds -> Row]  BY <1>10, <2>1 DEF Succeed, TypeOK
  <2> QED BY <1>10, <2>2 DEF Succeed, TypeOK, LeaderTypeOK, leaderVars
<1>11. ASSUME NEW r \in RunIds, Fail(r) PROVE TypeOK'
  <2>3. AfterFailure(run[r]) \in Row  BY RowFailed DEF TypeOK, SameRun
  <2>4. run' \in [RunIds -> Row]  BY <1>11, <2>3 DEF Fail, TypeOK
  <2> QED BY <1>11, <2>4 DEF Fail, TypeOK, LeaderTypeOK, leaderVars
<1>12. ASSUME NEW r \in RunIds, ResumeAfterReprint(r) PROVE TypeOK'
  <2>1. Resumed(run[r]) \in Row  BY RowResumed DEF TypeOK, SameRun
  <2>2. run' \in [RunIds -> Row]  BY <1>12, <2>1 DEF ResumeAfterReprint, TypeOK
  <2> QED BY <1>12, <2>2 DEF ResumeAfterReprint, TypeOK, LeaderTypeOK, leaderVars
<1>13. ASSUME NEW r \in RunIds, NEW p \in Procs, Reprint(p, r) PROVE TypeOK'
  BY <1>13 DEF Reprint, TypeOK, LeaderTypeOK, leaderVars
<1>14. ASSUME NEW s \in Scans, ScanRead(s) PROVE TypeOK'
  <2>1. DueRetries \subseteq RunIds  BY DEF DueRetries
  <2>2. NoScan("over") \in Scan /\ [NoScan("read") EXCEPT !.due = DueRetries] \in Scan
    BY <2>1 DEF NoScan, Scan
  <2>3. scan' \in [Scans -> Scan]  BY <1>14, <2>2 DEF ScanRead, TypeOK
  <2> QED BY <1>14, <2>3 DEF ScanRead, TypeOK, LeaderTypeOK, leaderVars, runVars
<1>15. ASSUME NEW s \in Scans, ScanClaim(s) PROVE TypeOK'
  <2> DEFINE claimed == IF enabled THEN scan[s].due ELSE {}
  <2>1. claimed \subseteq RunIds  BY ScanTyped
  <2>2. [NoScan("work") EXCEPT !.todo = claimed] \in Scan
    BY <2>1 DEF NoScan, Scan
  <2>3. \A r \in RunIds : Claimed(run[r]) \in Row
    BY RowClaimed DEF TypeOK, SameRun
  <2>4. run' \in [RunIds -> Row]  BY <1>15, <2>3 DEF ScanClaim, TypeOK
  <2>5. scan' \in [Scans -> Scan]  BY <1>15, <2>2 DEF ScanClaim, TypeOK
  <2> QED BY <1>15, <2>4, <2>5 DEF ScanClaim, TypeOK, LeaderTypeOK, leaderVars
<1>16. ASSUME NEW s \in Scans, ScanLaunch(s) PROVE TypeOK'
  <2>1. PICK r \in scan[s].todo, c \in RunIds :
          /\ CreateRun(s[1], c, "retry", run[r].attempt + 1, r, Root(r), run[r].slot)
          /\ scan' = [scan EXCEPT ![s].todo = @ \ {r}, ![s].child = c]
    BY <1>16 DEF ScanLaunch
  <2>2. r \in RunIds /\ s[1] \in Procs  BY ScanTyped
  <2>3. run[r] \in Row  BY <2>2 DEF TypeOK
  <2>4. /\ run[r].attempt + 1 \in Nat /\ run[r].slot \in Nat \cup {None}
        /\ Root(r) \in {0} \cup RunIds
    BY <2>2, <2>3 DEF Row, Root
  <2>5. [scan[s] EXCEPT !.todo = @ \ {r}, !.child = c] \in Scan
    BY DEF TypeOK, Scan
  <2>6. scan' \in [Scans -> Scan]  BY <2>1, <2>5 DEF TypeOK
  <2> QED BY <1>16, <2>1, <2>2, <2>4, <2>6, CreateRunTyped
          DEF ScanLaunch, TypeOK, LeaderTypeOK, leaderVars, Modes
<1>17. ASSUME NEW s \in Scans, ScanEnd(s) PROVE TypeOK'
  <2>1. \A pc \in {"ready", "over"} : NoScan(pc) \in Scan  BY DEF NoScan, Scan
  <2>2. scan' \in [Scans -> Scan]  BY <1>17, <2>1 DEF ScanEnd, TypeOK
  <2> QED BY <1>17, <2>2 DEF ScanEnd, TypeOK, LeaderTypeOK, leaderVars, runVars
<1>18. CASE ToggleTask
  BY <1>18 DEF ToggleTask, TypeOK, LeaderTypeOK, leaderVars, runVars
<1>19. CASE Tick
  <2>1. now' \in Nat  BY <1>19 DEF Tick, TypeOK
  <2> QED BY <1>19, <2>1 DEF Tick, TypeOK, LeaderTypeOK, leaderVars, runVars
<1>20. CASE UNCHANGED vars
  BY <1>20 DEF vars, TypeOK, LeaderTypeOK, leaderVars, runVars
<1>21. ASSUME NEW r \in RunIds, EndUnrecorded(r) PROVE TypeOK'
  BY <1>21 DEF EndUnrecorded, TypeOK, LeaderTypeOK, leaderVars
<1>22. ASSUME NEW s \in Scans, ScanSkip(s) PROVE TypeOK'
  <2>1. PICK r \in scan[s].todo :
          /\ run' = [run EXCEPT ![r].dropped = TRUE]
          /\ scan' = [scan EXCEPT ![s].todo = @ \ {r}, ![s].child = 0]
    BY <1>22 DEF ScanSkip
  <2>2. r \in RunIds  BY ScanTyped
  <2>3. [run[r] EXCEPT !.dropped = TRUE] \in Row
    BY <2>2, RowMarked DEF TypeOK, SameRun
  <2>4. run' \in [RunIds -> Row]  BY <2>1, <2>3 DEF TypeOK
  <2>5. [scan[s] EXCEPT !.todo = @ \ {r}, !.child = 0] \in Scan
    BY DEF TypeOK, Scan
  <2>6. scan' \in [Scans -> Scan]  BY <2>1, <2>5 DEF TypeOK
  <2> QED BY <1>22, <2>4, <2>6 DEF ScanSkip, TypeOK, LeaderTypeOK, leaderVars
<1>23. CASE EditTimeout
  <2>1. PICK t \in Timeouts \ {timeout} :
          /\ timeout' = t
          /\ run' = [r \in RunIds |-> IF Live(r) /\ t < run[r].limit
                                       THEN [run[r] EXCEPT !.cut = TRUE]
                                       ELSE run[r]]
    BY <1>23 DEF EditTimeout
  <2>2. run' \in [RunIds -> Row]  BY <2>1, RowMarked DEF TypeOK, SameRun
  <2> QED BY <1>23, <2>1, <2>2 DEF EditTimeout, TypeOK, LeaderTypeOK, leaderVars
<1> QED
  BY <1>1, <1>2, <1>3, <1>4, <1>5, <1>6, <1>7, <1>8, <1>9, <1>10, <1>11, <1>12,
     <1>13, <1>14, <1>15, <1>16, <1>17, <1>18, <1>19, <1>20, <1>21, <1>22, <1>23
  DEF Next, ProcessStep, RunStep, ScanStep

(* The tables, the threads and the job stores always have the shape the code *)
(* assumes: ids within bounds, known statuses, owners that are processes.   *)
THEOREM TaskTypeCorrect == Spec => []TypeOK
BY TaskInitTyped, TaskStepTyped, PTL DEF Spec

-----------------------------------------------------------------------------
(* What makes a retry safe.  Only the executing thread puts a run into      *)
(* waiting_retry, and it ends with that very commit; so every run that a    *)
(* scan has selected or claimed, and every run that has been retried, is    *)
(* over, and being over is final.                                          *)
Settled(r) == Exists(r) /\ ~Live(r) /\ run[r].status # "running"

AbsentUntouched ==
  \A r \in RunIds : ~Exists(r) =>
    /\ ~Live(r) /\ fixing[r] = None /\ run[r].parent = 0
    /\ \A p \in Procs : r \notin stale[p]
    /\ \A q \in RunIds : r < q => ~Exists(q)

WaitingSettled ==
  \A r \in RunIds : run[r].status = "waiting_retry" =>
    ~Live(r) /\ run[r].attempt < run[r].maxRetry

SelectedSettled ==
  \A s \in Scans : \A r \in scan[s].due \cup scan[s].todo :
    Settled(r) /\ run[r].attempt < run[r].maxRetry

ClaimedNotWaiting ==
  \A s \in Scans : \A r \in scan[s].todo : run[r].status # "waiting_retry"

Repeats(c, r) ==
  /\ Settled(r) /\ run[r].status # "waiting_retry"
  /\ run[c].attempt = run[r].attempt + 1
  /\ run[c].attempt <= run[r].maxRetry
  /\ Root(c) = Root(r) /\ r < c

RetriedSettled ==
  \A c, r \in RunIds : run[c].parent = r => Repeats(c, r)

RetryInv ==
  AbsentUntouched /\ WaitingSettled /\ SelectedSettled /\ ClaimedNotWaiting
    /\ RetriedSettled

(* What every step but the creation of a run does to the rows: it leaves a   *)
(* row's place in its chain alone, ends threads but starts none, and writes *)
(* waiting_retry only when it ends the thread of that run.                  *)
RowsProgress ==
  \A r \in RunIds :
    /\ SameRun(run'[r], run[r])
    /\ exec'[r] \in {exec[r], None}
    /\ \/ run'[r].status = run[r].status
       \/ Exists(r) /\ run'[r].status \in {"success", "failed", "retrying"}
       \/ /\ Live(r) /\ exec'[r] = None /\ run'[r].status = "waiting_retry"
          /\ run[r].attempt < run[r].maxRetry

(* What every step does to the lists of a scan: a run enters them while it   *)
(* waits for its retry, and is claimed by leaving that state.               *)
ScansProgress ==
  \A s \in Scans :
    /\ \A r \in scan'[s].due \cup scan'[s].todo :
         r \in scan[s].due \cup scan[s].todo \/ run[r].status = "waiting_retry"
    /\ \A r \in scan'[s].todo :
         r \in scan[s].todo \/ run'[r].status = "retrying"

(* Steps of these two kinds keep the invariant.                            *)
LEMMA ProgressKeepsRetryInv ==
  ASSUME TypeOK, TypeOK', RetryInv, RowsProgress, ScansProgress,
         \A r \in RunIds : fixing'[r] # None => Exists(r),
         \A p \in Procs : \A r \in stale'[p] : Exists(r)
  PROVE  RetryInv'
<1> USE DEF RetryInv
<1>1. \A r \in RunIds : Exists(r)' <=> Exists(r)
  BY DEF RowsProgress, AbsentUntouched, Exists
<1>2. \A r \in RunIds : Settled(r) => Settled(r)'
  BY DEF RowsProgress, Settled, Exists, Live
<1>3. AbsentUntouched'
  BY <1>1 DEF AbsentUntouched, RowsProgress, SameRun, Live, TypeOK
<1>4. WaitingSettled'
  BY DEF WaitingSettled, RowsProgress, SameRun, Live
<1>5. \A r \in RunIds : run[r].status = "waiting_retry" => Settled(r)
  BY DEF WaitingSettled, Settled, Exists
<1>6. \A s \in Scans : scan'[s].due \cup scan'[s].todo \subseteq RunIds
  BY DEF TypeOK, Scan
<1>7. SelectedSettled'
  BY <1>2, <1>5, <1>6 DEF SelectedSettled, ScansProgress, RowsProgress, SameRun, WaitingSettled
<1>8. ClaimedNotWaiting'
  BY <1>6 DEF ClaimedNotWaiting, SelectedSettled, ScansProgress, RowsProgress, SameRun, Settled, Live
<1>9. \A c \in RunIds : Root(c)' = Root(c)
  BY DEF Root, RowsProgress, SameRun
<1>10. ASSUME NEW c \in RunIds, NEW r \in RunIds, Repeats(c, r)
       PROVE  Repeats(c, r)'
  BY <1>2, <1>9, <1>10 DEF Repeats, RowsProgress, SameRun, Settled, Live
<1>11. RetriedSettled'
  BY <1>10 DEF RetriedSettled, RowsProgress, SameRun
<1> QED BY <1>3, <1>4, <1>7, <1>8, <1>11

(* Creating a run keeps the invariant if the run repeats nothing, or repeats *)
(* a settled attempt within its budget.                                    *)
LEMMA CreationKeepsRetryInv ==
  ASSUME TypeOK, TypeOK', RetryInv,
         NEW p \in Procs, NEW c \in RunIds, NEW mode \in Modes,
         NEW attempt \in Nat, NEW parent \in {0} \cup RunIds,
         NEW origin \in {0} \cup RunIds, NEW slot \in Nat \cup {None},
         CreateRun(p, c, mode, attempt, parent, origin, slot),
         parent # 0 =>
           /\ Settled(parent) /\ run[parent].status # "waiting_retry"
           /\ attempt = run[parent].attempt + 1 /\ attempt <= run[parent].maxRetry
           /\ origin = Root(parent),
         \A s \in Scans : /\ scan'[s].due \subseteq scan[s].due
                          /\ scan'[s].todo \subseteq scan[s].todo,
         UNCHANGED stale
  PROVE  RetryInv'
<1> USE RunIdsAreNat DEF RetryInv
<1>1. PICK m \in RetryCounts :
        run' = [run EXCEPT ![c] =
          [status |-> "running", mode |-> mode, attempt |-> attempt,
           maxRetry |-> m, parent |-> parent, origin |-> origin,
           retryAt |-> None, startedAt |-> now, slot |-> slot,
           limit |-> timeout, cut |-> FALSE, dropped |-> FALSE]]
  BY DEF CreateRun
<1>2. /\ ~Exists(c) /\ \A q \in RunIds : q < c => Exists(q)
      /\ exec' = [exec EXCEPT ![c] = p] /\ UNCHANGED fixing
  BY DEF CreateRun
<1>3. /\ run'[c].status = "running" /\ run'[c].parent = parent
      /\ run'[c].origin = origin /\ run'[c].attempt = attempt
  BY <1>1 DEF TypeOK
<1>4. \A q \in RunIds \ {c} : run'[q] = run[q] /\ exec'[q] = exec[q]
  BY <1>1, <1>2 DEF TypeOK
<1>5. \A q \in RunIds : Settled(q) => q # c /\ Settled(q)'
  BY <1>2, <1>4 DEF Settled, Exists, Live
<1>6. AbsentUntouched'
  BY <1>2, <1>3, <1>4 DEF AbsentUntouched, Exists, Live
<1>7. WaitingSettled'
  BY <1>3, <1>4 DEF WaitingSettled, Live
<1>8. \A s \in Scans : scan[s].due \cup scan[s].todo \subseteq RunIds
  BY DEF TypeOK, Scan
<1>9. SelectedSettled'
  BY <1>4, <1>5, <1>8 DEF SelectedSettled
<1>10. ClaimedNotWaiting'
  BY <1>4, <1>5, <1>8 DEF ClaimedNotWaiting, SelectedSettled
<1>11. RetriedSettled'
  <2> SUFFICES ASSUME NEW d \in RunIds, NEW r \in RunIds, run'[d].parent = r
               PROVE  Repeats(d, r)'
    BY DEF RetriedSettled
  <2>1. CASE d = c
    <3>1. r = parent /\ r # 0 /\ Settled(r)
      BY <1>3, <2>1
    <3>2. r # c /\ Settled(r)' /\ run'[r] = run[r]
      BY <1>4, <1>5, <3>1
    <3>3. r < c
      BY <1>2, <3>1, <3>2 DEF AbsentUntouched, Settled
    <3>4. Root(r) # 0 /\ Root(r)' = Root(r) /\ Root(c)' = Root(r)
      BY <1>3, <3>1, <3>2 DEF Root
    <3> QED BY <1>3, <2>1, <3>1, <3>2, <3>3, <3>4 DEF Repeats
  <2>2. CASE d # c
    <3>1. run'[d] = run[d] /\ Repeats(d, r)
      BY <1>4, <2>2 DEF RetriedSettled
    <3>2. Settled(r)' /\ run'[r] = run[r]
      BY <1>4, <1>5, <3>1 DEF Repeats
    <3> QED BY <3>1, <3>2 DEF Repeats, Root
  <2> QED BY <2>1, <2>2
<1> QED BY <1>6, <1>7, <1>9, <1>10, <1>11

(* Nothing has run yet.                                                    *)
LEMMA RetryInvInit == Init => RetryInv
<1> SUFFICES ASSUME Init PROVE RetryInv  OBVIOUS
<1>1. \A s \in Scans : scan[s].due = {} /\ scan[s].todo = {}
  BY DEF Init, NoScan
<1>2. \A r \in RunIds : run[r] = Absent /\ exec[r] = None /\ fixing[r] = None
  BY DEF Init
<1>3. \A r \in RunIds : ~Exists(r) /\ run[r].parent = 0 /\ run[r].status = "absent"
  BY <1>2 DEF Exists, Absent
<1> QED BY <1>1, <1>2, <1>3, RunIdsAreNat DEF Init, RetryInv, AbsentUntouched, WaitingSettled,
          SelectedSettled, ClaimedNotWaiting, RetriedSettled, Live

(* What a request or the watchdog has in hand are rows that exist.          *)
ReadersProgress ==
  /\ \A r \in RunIds : fixing'[r] # None => Exists(r)
  /\ \A p \in Procs : \A r \in stale'[p] : Exists(r)

Progress == RowsProgress /\ ScansProgress /\ ReadersProgress

(* What a process starts runs for, and what it does to the fires it has.     *)
StartedFor(p, mode, slot) ==
  \/ mode = "manual" /\ slot = None /\ UNCHANGED <<cron, catchup>>
  \/ /\ mode = "scheduler" /\ slot = cron[p] /\ cron[p] # None /\ ~CronBusy(p)
     /\ cron' = [cron EXCEPT ![p] = None] /\ UNCHANGED catchup
  \/ /\ mode = "catchup" /\ slot \in catchup[p]
     /\ catchup' = [catchup EXCEPT ![p] = @ \ {slot}] /\ UNCHANGED cron

(* A run that repeats nothing is created: by the cron job, a catch-up or an  *)
(* operator.                                                               *)
FirstAttempt ==
  \E p \in Procs, c \in RunIds, mode \in Modes \ {"retry"}, slot \in Nat \cup {None} :
    /\ CreateRun(p, c, mode, 0, 0, 0, slot)
    /\ UNCHANGED <<leaderVars, taskVars, scan, stale, torn>>
    /\ StartedFor(p, mode, slot)

(* Every step makes progress of that kind, or creates a run.                *)
LEMMA StepKinds ==
  ASSUME TypeOK, RetryInv, [Next]_vars
  PROVE  Progress \/ FirstAttempt \/ \E s \in Scans : ScanLaunch(s)
<1> USE DEF taskVars, jobVars
<1>s. \A r \in RunIds : run[r] \in Row /\ SameRun(run[r], run[r])
  BY DEF TypeOK, SameRun
<1>n. now \in Nat  BY DEF TypeOK
<1>e. /\ \A r \in RunIds : fixing[r] # None => Exists(r)
      /\ \A p \in Procs : \A r \in stale[p] : r \in RunIds /\ Exists(r)
      /\ \A r \in RunIds : Live(r) => Exists(r)
  BY DEF TypeOK, RetryInv, AbsentUntouched
<1>r. ASSUME UNCHANGED <<run, exec>> PROVE RowsProgress
  BY <1>r, <1>s DEF RowsProgress
<1>u. ASSUME UNCHANGED scan PROVE ScansProgress
  BY <1>u DEF ScansProgress
<1>i. ASSUME UNCHANGED <<runVars, scan, stale>> PROVE Progress
  BY <1>i, <1>r, <1>u, <1>e DEF Progress, ReadersProgress, runVars
<1>1. ASSUME NEW p \in Procs, FireCron(p) PROVE Progress \/ FirstAttempt
  <2>1. CASE enabled /\ ~CronBusy(p)
    <3>1. PICK r \in RunIds : CreateRun(p, r, "scheduler", 0, 0, 0, cron[p])
      BY <1>1, <2>1 DEF FireCron
    <3>2. cron[p] \in Nat \cup {None}  BY DEF TypeOK
    <3> QED BY <1>1, <2>1, <3>1, <3>2 DEF FireCron, FirstAttempt, StartedFor, Modes
  <2>2. CASE ~(enabled /\ ~CronBusy(p))
    BY <1>1, <1>i, <2>2 DEF FireCron
  <2> QED BY <2>1, <2>2
<1>2. ASSUME NEW p \in Procs, FireCatchup(p) PROVE Progress \/ FirstAttempt
  <2>1. PICK f \in catchup[p] :
          /\ catchup' = [catchup EXCEPT ![p] = @ \ {f}]
          /\ IF enabled
             THEN \E r \in RunIds : CreateRun(p, r, "catchup", 0, 0, 0, f)
             ELSE UNCHANGED runVars
    BY <1>2 DEF FireCatchup
  <2>2. f \in Nat  BY DEF TypeOK
  <2>3. CASE enabled
    BY <1>2, <2>1, <2>2, <2>3 DEF FireCatchup, FirstAttempt, StartedFor, Modes
  <2>4. CASE ~enabled
    BY <1>2, <1>i, <2>1, <2>4 DEF FireCatchup
  <2> QED BY <2>3, <2>4
<1>3. ASSUME NEW p \in Procs, RunManually(p) PROVE FirstAttempt
  BY <1>3 DEF RunManually, FirstAttempt, StartedFor, Modes
<1>4. ASSUME NEW p \in Procs, StaleRead(p) PROVE Progress
  <2>1. \A q \in Procs : \A r \in stale'[q] : Exists(r)
    BY <1>4, <1>e DEF StaleRead, StaleRuns, TypeOK, Exists
  <2> QED BY <1>4, <1>e, <1>r, <1>u, <2>1 DEF StaleRead, runVars, Progress, ReadersProgress
<1>5. ASSUME NEW p \in Procs, StaleCommit(p) PROVE Progress
  <2>1. RowsProgress
    BY <1>5, <1>s, <1>e, RowWritten DEF StaleCommit, RowsProgress
  <2>2. \A q \in Procs : stale'[q] \subseteq stale[q]
    BY <1>5 DEF StaleCommit, TypeOK
  <2> QED BY <1>5, <1>e, <1>u, <2>1, <2>2 DEF StaleCommit, Progress, ReadersProgress
<1>6. ASSUME NEW p \in Procs, Kill(p) PROVE Progress
  <2>1. RowsProgress
    BY <1>6, <1>s, RowMarked DEF Kill, RowsProgress
  <2>2. ScansProgress
    BY <1>6 DEF Kill, ScansProgress, TypeOK, NoScan
  <2>3. /\ \A r \in RunIds : fixing'[r] \in {fixing[r], None}
        /\ \A q \in Procs : stale'[q] \subseteq stale[q]
    BY <1>6 DEF Kill, TypeOK
  <2> QED BY <1>e, <2>1, <2>2, <2>3 DEF Progress, ReadersProgress
<1>7. ASSUME NEW r \in RunIds, Succeed(r) \/ Fail(r) \/ EndUnrecorded(r) PROVE Progress
  <2>1. RowsProgress
    <3>1. CASE Succeed(r)
      BY <3>1, <1>s, <1>e, RowWritten DEF Succeed, RowsProgress, TypeOK
    <3>2. CASE Fail(r)
      BY <3>2, <1>s, <1>e, <1>n, RowFailed DEF Fail, RowsProgress, TypeOK
    <3>3. CASE EndUnrecorded(r)
      BY <3>3, <1>s DEF EndUnrecorded, RowsProgress, TypeOK
    <3> QED BY <1>7, <3>1, <3>2, <3>3
  <2> QED BY <1>7, <1>e, <1>u, <2>1
          DEF Succeed, Fail, EndUnrecorded, Progress, ReadersProgress
<1>8. ASSUME NEW r \in RunIds, ResumeAfterReprint(r) PROVE Progress
  <2>1. RowsProgress
    BY <1>8, <1>s, <1>e, RowResumed DEF ResumeAfterReprint, RowsProgress, TypeOK
  <2>2. \A q \in RunIds : fixing'[q] \in {fixing[q], None}
    BY <1>8 DEF ResumeAfterReprint, TypeOK
  <2> QED BY <1>8, <1>e, <1>u, <2>1, <2>2 DEF ResumeAfterReprint, Progress, ReadersProgress
<1>9. ASSUME NEW r \in RunIds, NEW p \in Procs, Reprint(p, r) PROVE Progress
  <2>1. \A q \in RunIds : fixing'[q] # None => Exists(q)
    BY <1>9, <1>e DEF Reprint, TypeOK, Exists
  <2> QED BY <1>9, <1>e, <1>r, <1>u, <2>1 DEF Reprint, Progress, ReadersProgress
<1>10. ASSUME NEW s \in Scans, ScanRead(s) PROVE Progress
  <2>1. ScansProgress
    <3>1. \A r \in DueRetries : run[r].status = "waiting_retry"
      BY DEF DueRetries, WaitsForRetry
    <3>2. /\ scan'[s].due \subseteq DueRetries /\ scan'[s].todo = {}
          /\ \A t \in Scans \ {s} : scan'[t] = scan[t]
      BY <1>10 DEF ScanRead, NoScan, TypeOK
    <3> QED BY <3>1, <3>2 DEF ScansProgress
  <2> QED BY <1>10, <1>e, <1>r, <2>1 DEF ScanRead, runVars, Progress, ReadersProgress
<1>11. ASSUME NEW s \in Scans, ScanClaim(s) PROVE Progress
  <2> DEFINE claimed == IF enabled THEN scan[s].due ELSE {}
  <2>1. \A r \in claimed : r \in RunIds /\ Settled(r)
    BY ScanTyped DEF RetryInv, SelectedSettled
  <2>2. /\ \A r \in claimed : run'[r] = Claimed(run[r])
        /\ \A r \in RunIds \ claimed : run'[r] = run[r]
        /\ exec' = exec
        /\ scan'[s] = [NoScan("work") EXCEPT !.todo = claimed]
        /\ \A t \in Scans \ {s} : scan'[t] = scan[t]
    BY <1>11, <2>1 DEF ScanClaim, TypeOK
  <2>3. \A r \in claimed : SameRun(run'[r], run[r]) /\ run'[r].status = "retrying"
    BY <1>s, <2>1, <2>2, RowClaimed
  <2>4. RowsProgress
    BY <1>s, <2>1, <2>2, <2>3 DEF RowsProgress, Settled
  <2>5. ScansProgress
    <3>1. scan'[s].due = {} /\ scan'[s].todo = claimed /\ claimed \subseteq scan[s].due
      BY <2>2 DEF NoScan
    <3> QED BY <2>2, <2>3, <3>1 DEF ScansProgress
  <2> QED BY <1>11, <1>e, <2>4, <2>5 DEF ScanClaim, Progress, ReadersProgress
<1>12. ASSUME NEW s \in Scans, ScanEnd(s) PROVE Progress
  <2>1. ScansProgress
    BY <1>12 DEF ScanEnd, ScansProgress, NoScan, TypeOK
  <2> QED BY <1>12, <1>e, <1>r, <2>1 DEF ScanEnd, runVars, Progress, ReadersProgress
<1>13. ASSUME NEW p \in Procs, ElectLeader(p) \/ CatchUp(p) \/ Stop(p) PROVE Progress
  BY <1>13, <1>i DEF ElectLeader, CatchUp, Stop
<1>14. CASE ToggleTask \/ Tick
  BY <1>14, <1>i DEF ToggleTask, Tick
<1>15. CASE UNCHANGED vars
  BY <1>15, <1>i DEF vars
<1>16. ASSUME NEW s \in Scans, ScanSkip(s) PROVE Progress
  <2>1. PICK r \in scan[s].todo :
          /\ run' = [run EXCEPT ![r].dropped = TRUE]
          /\ scan' = [scan EXCEPT ![s].todo = @ \ {r}, ![s].child = 0]
    BY <1>16 DEF ScanSkip
  <2>2. r \in RunIds  BY ScanTyped
  <2>3. RowsProgress
    BY <1>16, <1>s, <2>1, <2>2, RowMarked DEF ScanSkip, RowsProgress, TypeOK
  <2>4. ScansProgress
    BY <2>1 DEF ScansProgress, TypeOK, Scan
  <2> QED BY <1>16, <1>e, <2>3, <2>4 DEF ScanSkip, Progress, ReadersProgress
<1>17. CASE EditTimeout
  <2>1. RowsProgress
    BY <1>17, <1>s, RowMarked DEF EditTimeout, RowsProgress
  <2> QED BY <1>17, <1>e, <1>u, <2>1 DEF EditTimeout, Progress, ReadersProgress
<1> QED
  BY <1>1, <1>2, <1>3, <1>4, <1>5, <1>6, <1>7, <1>8, <1>9, <1>10, <1>11, <1>12,
     <1>13, <1>14, <1>15, <1>16, <1>17
  DEF Next, ProcessStep, RunStep, ScanStep

(* Every step keeps the invariant.                                         *)
LEMMA RetryInvStep ==
  ASSUME TypeOK, RetryInv, [Next]_vars
  PROVE  RetryInv'
<1>t. TypeOK'  BY TaskStepTyped
<1> USE <1>t
<1>1. CASE Progress
  BY <1>1, ProgressKeepsRetryInv DEF Progress, ReadersProgress
<1>2. CASE FirstAttempt
  BY <1>2, CreationKeepsRetryInv DEF FirstAttempt
<1>3. ASSUME NEW s \in Scans, ScanLaunch(s) PROVE RetryInv'
  <2>1. PICK r \in scan[s].todo, c \in RunIds :
          /\ CreateRun(s[1], c, "retry", run[r].attempt + 1, r, Root(r), run[r].slot)
          /\ scan' = [scan EXCEPT ![s].todo = @ \ {r}, ![s].child = c]
    BY <1>3 DEF ScanLaunch
  <2>2. r \in RunIds /\ s[1] \in Procs  BY ScanTyped
  <2>3. /\ run[r].attempt + 1 \in Nat /\ run[r].slot \in Nat \cup {None}
        /\ Root(r) \in {0} \cup RunIds
    BY <2>2 DEF TypeOK, Row, Root
  <2>4. /\ Settled(r) /\ run[r].status # "waiting_retry"
        /\ run[r].attempt < run[r].maxRetry
    BY DEF RetryInv, SelectedSettled, ClaimedNotWaiting
  <2>5. run[r].attempt + 1 <= run[r].maxRetry
    BY <2>2, <2>4 DEF TypeOK, Row
  <2>6. \A t \in Scans : scan'[t].due \subseteq scan[t].due /\ scan'[t].todo \subseteq scan[t].todo
    BY <2>1 DEF TypeOK, Scan
  <2>7. UNCHANGED stale  BY <1>3 DEF ScanLaunch
  <2> QED BY <2>1, <2>2, <2>3, <2>4, <2>5, <2>6, <2>7, CreationKeepsRetryInv DEF Modes
<1> QED BY <1>1, <1>2, <1>3, StepKinds

(* A retry never starts while the attempt it repeats is still executing, in  *)
(* every environment: crashes, takeovers, lost locks, overrunning steps,    *)
(* operators that reprint, start and toggle.                               *)
THEOREM RetriesFollowAttempts == Spec => []RetryAfterAttemptEnded
<1>1. TypeOK /\ RetryInv => RetryAfterAttemptEnded
  BY DEF TypeOK, Row, RetryInv, RetriedSettled, Repeats, Settled, RetryAfterAttemptEnded
<1> QED BY <1>1, RetryInvInit, RetryInvStep, TaskTypeCorrect, PTL DEF Spec

(* Every retry extends its chain by one attempt within the budget, and the   *)
(* attempt it repeats cannot become due again.                             *)
THEOREM ChainsWellFormed == Spec => []ChainShape
<1>1. TypeOK /\ RetryInv => ChainShape
  BY DEF TypeOK, Row, RetryInv, RetriedSettled, Repeats, Settled, ChainShape
<1> QED BY <1>1, RetryInvInit, RetryInvStep, TaskTypeCorrect, PTL DEF Spec

-----------------------------------------------------------------------------
(* Only the look for missed occurrences and the clock hand out fires; every   *)
(* other step can only use them up or lose them.                           *)
FiresShrink ==
  /\ UNCHANGED <<now, torn>>
  /\ \A p \in Procs : cron'[p] \in {cron[p], None} /\ catchup'[p] \subseteq catchup[p]

LEMMA FiresKinds ==
  ASSUME TypeOK, [Next]_vars
  PROVE  FiresShrink \/ (\E p \in Procs : CatchUp(p)) \/ Tick
<1> USE DEF taskVars, jobVars, FiresShrink
<1>1. CASE UNCHANGED <<now, torn, cron, catchup>>
  BY <1>1
<1>2. ASSUME NEW p \in Procs, FireCron(p) PROVE FiresShrink
  BY <1>2 DEF FireCron, TypeOK
<1>3. ASSUME NEW p \in Procs, FireCatchup(p) PROVE FiresShrink
  BY <1>3 DEF FireCatchup, TypeOK
<1>4. ASSUME NEW p \in Procs, Kill(p) PROVE FiresShrink
  BY <1>4 DEF Kill, TypeOK
<1> QED
  BY <1>1, <1>2, <1>3, <1>4
  DEF Next, ProcessStep, RunStep, ScanStep, RunManually, StaleRead, StaleCommit, ElectLeader,
      Stop, Succeed, Fail, EndUnrecorded, ResumeAfterReprint, Reprint, ScanRead, ScanClaim,
      ScanLaunch, ScanSkip, ScanEnd, ToggleTask, EditTimeout, vars

(* Every step is a step of the election or leaves it alone.                  *)
LEMMA LeaderKinds ==
  ASSUME [Next]_vars
  PROVE  UNCHANGED leaderVars \/ \E p \in Procs : LeaderStep(p)
BY DEF Next, ProcessStep, RunStep, ScanStep, FireCron, FireCatchup, RunManually, StaleRead,
       StaleCommit, ElectLeader, ElectionStep, CatchUp, Stop, Kill, Succeed, Fail,
       EndUnrecorded, ResumeAfterReprint, Reprint, ScanRead, ScanClaim, ScanLaunch, ScanSkip,
       ScanEnd, ToggleTask, EditTimeout, Tick, vars, LeaderStep

(* So the flag stays with the lock here, too.                                *)
LEMMA TaskFlagStep ==
  ASSUME LockHypotheses, TypeOK, FlagHoldsLock, [Next]_vars
  PROVE  FlagHoldsLock'
<1>1. CASE UNCHANGED leaderVars
  BY <1>1 DEF FlagHoldsLock, leaderVars
<1>2. ASSUME NEW p \in Procs, LeaderStep(p) PROVE FlagHoldsLock'
  BY <1>2, FlagHoldsLockStep DEF TypeOK
<1> QED BY <1>1, <1>2, LeaderKinds

LEMMA TaskFlagInit == Init => FlagHoldsLock
BY FlagHoldsLockInit DEF Init

-----------------------------------------------------------------------------
(* What keeps occurrences single.  An occurrence that is still to be started  *)
(* has no run yet, and is in the hands of one job; a run that stands for an *)
(* occurrence was created no earlier than that occurrence.  An occurrence   *)
(* for which that fails has been caught up out of the hands of another job. *)
Periodic(r) == run[r].mode \in {"scheduler", "catchup"}

PendingFires(p) == catchup[p] \cup ({cron[p]} \ {None})

FiresApart ==
  \A p, q \in Procs :
    /\ cron[p] # None /\ cron[p] = cron[q] => p = q
    /\ \A f \in catchup[p] :
         f = cron[q] \/ (p # q /\ f \in catchup[q]) => f \in torn

FiresUnstarted ==
  \A p \in Procs : \A f \in PendingFires(p) :
    f <= now /\ \A r \in RunIds : Periodic(r) /\ run[r].slot = f => f \in torn

PeriodicRuns ==
  \A r \in RunIds : Periodic(r) =>
    /\ Exists(r)
    /\ run[r].slot \in Nat /\ run[r].slot <= run[r].startedAt /\ run[r].startedAt <= now

OccurrenceInv == FiresApart /\ FiresUnstarted /\ PeriodicRuns /\ OccurrenceOnce

(* No occurrence is pending and nothing has run yet.                       *)
LEMMA OccurrenceInvInit == Init => OccurrenceInv
<1> SUFFICES ASSUME Init PROVE OccurrenceInv  OBVIOUS
<1>1. ASSUME NEW p \in Procs
      PROVE  cron[p] = None /\ \A f : f \notin catchup[p] /\ f \notin PendingFires(p)
  BY DEF Init, PendingFires
<1>2. \A r \in RunIds : ~Periodic(r) /\ run[r].slot = None
  BY DEF Init, Periodic, Absent
<1> QED BY <1>1, <1>2
        DEF OccurrenceInv, FiresApart, FiresUnstarted, PeriodicRuns, OccurrenceOnce

(* Steps that create no run and hand out no fire keep it.                    *)
LEMMA QuietKeepsOccurrences ==
  ASSUME TypeOK, OccurrenceInv, RowsProgress, FiresShrink
  PROVE  OccurrenceInv'
<1> USE DEF OccurrenceInv
<1>1. /\ UNCHANGED <<now, torn>>
      /\ \A p \in Procs : cron'[p] \in {cron[p], None} /\ catchup'[p] \subseteq catchup[p]
      /\ \A p \in Procs : PendingFires(p)' \subseteq PendingFires(p)
  BY DEF FiresShrink, PendingFires
<1>2. \A r \in RunIds :
        /\ Periodic(r)' <=> Periodic(r)
        /\ run'[r].mode = run[r].mode /\ run'[r].slot = run[r].slot
        /\ run'[r].startedAt = run[r].startedAt
        /\ Exists(r) => Exists(r)'
  BY DEF Periodic, RowsProgress, SameRun, Exists
<1>3. FiresApart'
  <2> SUFFICES ASSUME NEW a \in Procs, NEW b \in Procs
               PROVE  /\ cron'[a] # None /\ cron'[a] = cron'[b] => a = b
                      /\ \A f \in catchup'[a] :
                           f = cron'[b] \/ (a # b /\ f \in catchup'[b]) => f \in torn'
    BY DEF FiresApart
  <2>1. cron'[a] # None => cron'[a] = cron[a]  BY <1>1
  <2>2. cron'[b] # None => cron'[b] = cron[b]  BY <1>1
  <2>3. \A f \in catchup'[a] : f \in catchup[a] /\ f # None
    BY <1>1, TaskAssumption DEF TypeOK
  <2>4. catchup'[b] \subseteq catchup[b]  BY <1>1
  <2> QED BY <1>1, <2>1, <2>2, <2>3, <2>4 DEF FiresApart
<1>4. FiresUnstarted'  BY <1>1, <1>2 DEF FiresUnstarted
<1>5. PeriodicRuns'  BY <1>1, <1>2 DEF PeriodicRuns
<1>6. OccurrenceOnce'  BY <1>1, <1>2 DEF OccurrenceOnce
<1> QED BY <1>3, <1>4, <1>5, <1>6

(* So does the creation of a run, if one for an occurrence takes it out of   *)
(* the only hands it was in.                                               *)
LEMMA CreationKeepsOccurrences ==
  ASSUME TypeOK, OccurrenceInv, FiresShrink,
         NEW p \in Procs, NEW c \in RunIds, NEW mode, NEW attempt, NEW parent,
         NEW origin, NEW slot,
         CreateRun(p, c, mode, attempt, parent, origin, slot),
         mode \in {"scheduler", "catchup"} =>
           /\ slot \in Nat /\ slot \in PendingFires(p)
           /\ \A q \in Procs : slot \in PendingFires(q)' => slot \in torn
  PROVE  OccurrenceInv'
<1> USE DEF OccurrenceInv
<1>1. PICK m \in RetryCounts :
        run' = [run EXCEPT ![c] =
          [status |-> "running", mode |-> mode, attempt |-> attempt,
           maxRetry |-> m, parent |-> parent, origin |-> origin,
           retryAt |-> None, startedAt |-> now, slot |-> slot,
           limit |-> timeout, cut |-> FALSE, dropped |-> FALSE]]
  BY DEF CreateRun
<1>2. /\ run'[c].status = "running" /\ run'[c].mode = mode
      /\ run'[c].slot = slot /\ run'[c].startedAt = now
      /\ \A r \in RunIds \ {c} : run'[r] = run[r]
  BY <1>1 DEF TypeOK
<1>3. /\ UNCHANGED <<now, torn>>
      /\ \A q \in Procs : cron'[q] \in {cron[q], None} /\ catchup'[q] \subseteq catchup[q]
      /\ \A q \in Procs : PendingFires(q)' \subseteq PendingFires(q)
  BY DEF FiresShrink, PendingFires
<1>4. now \in Nat  BY DEF TypeOK
<1>5. FiresApart'
  <2> SUFFICES ASSUME NEW a \in Procs, NEW b \in Procs
               PROVE  /\ cron'[a] # None /\ cron'[a] = cron'[b] => a = b
                      /\ \A f \in catchup'[a] :
                           f = cron'[b] \/ (a # b /\ f \in catchup'[b]) => f \in torn'
    BY DEF FiresApart
  <2>1. cron'[a] # None => cron'[a] = cron[a]  BY <1>3
  <2>2. cron'[b] # None => cron'[b] = cron[b]  BY <1>3
  <2>3. \A f \in catchup'[a] : f \in catchup[a] /\ f # None
    BY <1>3, TaskAssumption DEF TypeOK
  <2>4. catchup'[b] \subseteq catchup[b]  BY <1>3
  <2> QED BY <1>3, <2>1, <2>2, <2>3, <2>4 DEF FiresApart
<1>6. FiresUnstarted'
  <2> SUFFICES ASSUME NEW q \in Procs, NEW f \in PendingFires(q)'
               PROVE  f <= now /\ \A r \in RunIds : Periodic(r)' /\ run'[r].slot = f => f \in torn
    BY <1>3 DEF FiresUnstarted
  <2>1. f \in PendingFires(q)  BY <1>3
  <2> QED BY <1>2, <2>1 DEF FiresUnstarted, Periodic
<1>7. PeriodicRuns'
  <2>1. mode \in {"scheduler", "catchup"} => slot <= now
    BY DEF FiresUnstarted
  <2> QED BY <1>2, <1>3, <1>4, <2>1 DEF PeriodicRuns, Periodic, Exists
<1>8. OccurrenceOnce'
  <2>1. mode \in {"scheduler", "catchup"} =>
          \A r \in RunIds : Periodic(r) /\ run[r].slot = slot => slot \in torn
    BY DEF FiresUnstarted
  <2> QED BY <1>2, <1>3, <2>1 DEF OccurrenceOnce, Periodic
<1> QED BY <1>5, <1>6, <1>7, <1>8

(* Every step keeps it, where the lock lets one process at a time load jobs.  *)
LEMMA OccurrenceInvStep ==
  ASSUME LockHypotheses, TypeOK, FlagHoldsLock, RetryInv, OccurrenceInv, [Next]_vars
  PROVE  OccurrenceInv'
<1>1. CASE FiresShrink /\ Progress
  BY <1>1, QuietKeepsOccurrences DEF Progress
<1>2. CASE FiresShrink /\ FirstAttempt
  <2>1. PICK p \in Procs, c \in RunIds, mode \in Modes \ {"retry"}, slot \in Nat \cup {None} :
          CreateRun(p, c, mode, 0, 0, 0, slot) /\ StartedFor(p, mode, slot)
    BY <1>2 DEF FirstAttempt
  <2>2. ASSUME mode \in {"scheduler", "catchup"}
        PROVE  /\ slot \in Nat /\ slot \in PendingFires(p)
               /\ \A q \in Procs : slot \in PendingFires(q)' => slot \in torn
    <3>1. CASE mode = "scheduler"
      <4>1. /\ slot = cron[p] /\ slot # None
            /\ cron' = [cron EXCEPT ![p] = None] /\ UNCHANGED catchup
        BY <2>1, <3>1 DEF StartedFor
      <4> QED BY <4>1 DEF PendingFires, OccurrenceInv, FiresApart, TypeOK
    <3>2. CASE mode = "catchup"
      <4>1. /\ slot \in catchup[p] /\ UNCHANGED cron
            /\ catchup' = [catchup EXCEPT ![p] = @ \ {slot}]
        BY <2>1, <3>2 DEF StartedFor
      <4>2. slot \in Nat  BY <4>1 DEF TypeOK
      <4> QED BY <4>1, <4>2 DEF PendingFires, OccurrenceInv, FiresApart, TypeOK
    <3> QED BY <2>2, <3>1, <3>2
  <2> QED BY <1>2, <2>1, <2>2, CreationKeepsOccurrences
<1>3. ASSUME NEW s \in Scans, ScanLaunch(s), FiresShrink PROVE OccurrenceInv'
  <2>1. PICK r \in scan[s].todo, c \in RunIds :
          CreateRun(s[1], c, "retry", run[r].attempt + 1, r, Root(r), run[r].slot)
    BY <1>3 DEF ScanLaunch
  <2>2. s[1] \in Procs  BY ScanTyped
  <2> QED BY <1>3, <2>1, <2>2, CreationKeepsOccurrences
<1>4. ASSUME NEW p \in Procs, CatchUp(p) PROVE OccurrenceInv'
  <2>1. PICK found \in SUBSET MissedFires :
          /\ catchup' = [catchup EXCEPT ![p] = IF enabled THEN found ELSE {}]
          /\ torn' = torn \cup (catchup'[p] \cap Handed)
    BY <1>4 DEF CatchUp
  <2>2. UNCHANGED <<now, run, cron>>
    BY <1>4 DEF CatchUp, taskVars, runVars
  <2>3. /\ catchup'[p] \subseteq MissedFires
        /\ \A q \in Procs \ {p} : catchup'[q] = catchup[q]
    BY <2>1 DEF TypeOK
  <2>4. \A f \in MissedFires :
          f <= now /\ \A r \in RunIds : Periodic(r) => run[r].slot # f
    <3> SUFFICES ASSUME NEW f \in MissedFires, NEW r \in RunIds, Periodic(r)
                 PROVE  f <= now /\ run[r].slot # f
      BY DEF MissedFires
    <3>1. f \in Nat /\ f <= now /\ (Exists(r) => run[r].startedAt < f)
      BY TaskAssumption DEF MissedFires
    <3>2. /\ Exists(r) /\ run[r].slot \in Nat
          /\ run[r].slot <= run[r].startedAt /\ run[r].startedAt \in Nat
      BY DEF OccurrenceInv, PeriodicRuns, TypeOK, Row
    <3> QED BY <3>1, <3>2
  <2>5. \A q \in Procs, f \in catchup'[p] :
          f = cron[q] \/ (q # p /\ f \in catchup'[q]) => f \in torn'
    BY <2>1, <2>3 DEF Handed
  <2>6. FiresApart'
    BY <2>1, <2>2, <2>3, <2>5 DEF OccurrenceInv, FiresApart
  <2>7. FiresUnstarted'
    <3> SUFFICES ASSUME NEW q \in Procs, NEW f \in PendingFires(q)'
                 PROVE  f <= now /\ \A r \in RunIds : Periodic(r) /\ run[r].slot = f => f \in torn'
      BY <2>2 DEF FiresUnstarted, Periodic
    <3>1. f \in PendingFires(q) \/ f \in MissedFires
      BY <2>2, <2>3 DEF PendingFires
    <3> QED BY <2>1, <2>4, <3>1 DEF OccurrenceInv, FiresUnstarted
  <2>8. PeriodicRuns' /\ OccurrenceOnce'
    BY <2>1, <2>2 DEF OccurrenceInv, PeriodicRuns, OccurrenceOnce, Periodic, Exists
  <2> QED BY <2>6, <2>7, <2>8 DEF OccurrenceInv
<1>5. CASE Tick
  <2>1. /\ UNCHANGED <<run, torn>> /\ now \in Nat /\ now' = now + 1
        /\ \A p \in Procs : catchup'[p] = {}
        /\ \A p \in Procs : cron'[p] # None => cron'[p] = now' /\ Loaded(p)
    BY <1>5 DEF Tick, TypeOK, runVars
  <2>2. \A p, q \in Procs : Loaded(p) /\ Loaded(q) => p = q
    BY DEF Loaded, FlagHoldsLock
  <2>3. \A r \in RunIds : Periodic(r) =>
          run[r].slot \in Nat /\ run[r].startedAt \in Nat
            /\ run[r].slot <= run[r].startedAt /\ run[r].startedAt <= now
    BY DEF OccurrenceInv, PeriodicRuns, TypeOK, Row
  <2>4. FiresApart'  BY <2>1, <2>2 DEF FiresApart
  <2>5. \A p \in Procs : \A f \in PendingFires(p)' : f = now'
    BY <2>1 DEF PendingFires
  <2>6. FiresUnstarted'  BY <2>1, <2>3, <2>5 DEF FiresUnstarted, Periodic
  <2>7. PeriodicRuns'  BY <2>1, <2>3 DEF OccurrenceInv, PeriodicRuns, Periodic, Exists
  <2>8. OccurrenceOnce'  BY <2>1 DEF OccurrenceInv, OccurrenceOnce
  <2> QED BY <2>4, <2>6, <2>7, <2>8 DEF OccurrenceInv
<1> QED BY <1>1, <1>2, <1>3, <1>4, <1>5, FiresKinds, StepKinds

(* With the advisory lock in use and its connection never lost, no occurrence *)
(* of the cron expression is started twice, whatever stops, dies or fails,   *)
(* unless it was caught up while another job had been handed it.            *)
THEOREM OccurrencesSingle ==
  ASSUME LockHypotheses
  PROVE  Spec => []OccurrenceOnce
<1>1. TypeOK /\ FlagHoldsLock /\ [Next]_vars => FlagHoldsLock'
  BY LockHypotheses, TaskFlagStep
<1>2. TypeOK /\ FlagHoldsLock /\ RetryInv /\ OccurrenceInv /\ [Next]_vars => OccurrenceInv'
  BY LockHypotheses, OccurrenceInvStep
<1>3. OccurrenceInv => OccurrenceOnce  BY DEF OccurrenceInv
<1> QED BY <1>1, <1>2, <1>3, TaskFlagInit, OccurrenceInvInit, RetryInvInit, RetryInvStep,
           TaskTypeCorrect, PTL DEF Spec

-----------------------------------------------------------------------------
(* What keeps the periodic job single.  Fires of the cron job and scheduler   *)
(* runs live only in the process that has the flag, which is one process.   *)
Unstopped == \A p \in Procs : proc[p] \in {"new", "up", "down"}

CronAtLeader == \A p \in Procs : cron[p] # None => leader[p]

SchedulerRunsAtLeader ==
  \A r \in RunIds : Live(r) /\ run[r].mode = "scheduler" => leader[exec[r]]

SchedulerInv == Unstopped /\ CronAtLeader /\ SchedulerRunsAtLeader /\ OneScheduledRun

(* The hypotheses under which only one process starts the periodic job: the  *)
(* lock protects, and no leader drains while its successor starts.          *)
SingleLeaderHypotheses == LockHypotheses /\ ~GracefulStops

LEMMA SchedulerInvInit == Init => SchedulerInv
BY DEF Init, LeaderInit, Live, SchedulerInv, Unstopped, CronAtLeader, SchedulerRunsAtLeader,
       OneScheduledRun

(* Without stops, only its death takes the flag from a process.              *)
LEMMA LeadersStay ==
  ASSUME SingleLeaderHypotheses, TypeOK, Unstopped, [Next]_vars
  PROVE  /\ Unstopped'
         /\ \/ \E p \in Procs : Kill(p)
            \/ \A q \in Procs : leader[q] => leader'[q]
<1> USE DEF SingleLeaderHypotheses, Unstopped, TypeOK, LeaderTypeOK
<1>1. CASE UNCHANGED leaderVars
  BY <1>1 DEF leaderVars
<1>2. ASSUME NEW p \in Procs, ElectionStep(p) \/ LookForMissed(p)
      PROVE  Unstopped' /\ \A q \in Procs : leader[q] => leader'[q]
  BY <1>2 DEF ElectionStep, StopStep, StartScheduler, Elect, ElectLate, LoadJobs, LookForMissed,
     FailPromotion, ReloadJobs, DropConnection, Unlock, FailUnlock, ClearFlag
<1>3. ASSUME NEW p \in Procs, Kill(p) PROVE Unstopped'
  BY <1>3 DEF Kill, Crash
<1>4. ASSUME NEW p \in Procs, Stop(p) PROVE FALSE
  BY <1>4 DEF Stop, ShutDown
<1> QED
  BY <1>1, <1>2, <1>3, <1>4
  DEF Next, ProcessStep, RunStep, ScanStep, FireCron, FireCatchup, RunManually, StaleRead,
      StaleCommit, ElectLeader, CatchUp, Succeed, Fail, EndUnrecorded, ResumeAfterReprint,
      Reprint, ScanRead, ScanClaim, ScanLaunch, ScanSkip, ScanEnd, ToggleTask, EditTimeout,
      Tick, vars

LEMMA SchedulerInvStep ==
  ASSUME SingleLeaderHypotheses, TypeOK, FlagHoldsLock, RetryInv, SchedulerInv, [Next]_vars
  PROVE  SchedulerInv'
<1> USE DEF SchedulerInv
<1>1. Unstopped'  BY LeadersStay
<1>2. \A p, q \in Procs : leader[p] /\ leader[q] => p = q
  BY DEF FlagHoldsLock, Unstopped
<1>3. ASSUME NEW p \in Procs, Kill(p) PROVE SchedulerInv'
  <2>1. /\ \A q \in Procs \ {p} : leader'[q] = leader[q] /\ cron'[q] = cron[q]
        /\ cron'[p] = None
        /\ \A r \in RunIds : exec'[r] = IF exec[r] = p THEN None ELSE exec[r]
    BY <1>3 DEF Kill, Crash, TypeOK, LeaderTypeOK
  <2>2. \A r \in RunIds : run'[r].mode = run[r].mode
    BY <1>3, RowMarked DEF Kill, TypeOK, SameRun
  <2>3. \A r \in RunIds : Live(r)' => Live(r) /\ exec'[r] = exec[r] /\ exec[r] \in Procs \ {p}
    BY <2>1 DEF Live, TypeOK
  <2> QED BY <1>1, <2>1, <2>2, <2>3 DEF CronAtLeader, SchedulerRunsAtLeader, OneScheduledRun
<1>4. ASSUME \A q \in Procs : leader[q] => leader'[q], Progress,
             \A q \in Procs : cron'[q] # None => leader'[q]
      PROVE  SchedulerInv'
  <2>1. \A r \in RunIds : run'[r].mode = run[r].mode
    BY <1>4 DEF Progress, RowsProgress, SameRun
  <2>2. \A r \in RunIds : Live(r)' => Live(r) /\ exec'[r] = exec[r] /\ exec[r] \in Procs
    BY <1>4 DEF Progress, RowsProgress, Live, TypeOK
  <2> QED BY <1>1, <1>4, <2>1, <2>2 DEF CronAtLeader, SchedulerRunsAtLeader, OneScheduledRun
<1>5. ASSUME NEW p \in Procs, NEW c \in RunIds, NEW mode, NEW attempt, NEW parent, NEW origin,
             NEW slot, CreateRun(p, c, mode, attempt, parent, origin, slot),
             \A q \in Procs : leader[q] => leader'[q],
             \A q \in Procs : cron'[q] # None => leader'[q],
             mode = "scheduler" => leader[p] /\ ~CronBusy(p)
      PROVE  SchedulerInv'
  <2>1. /\ run'[c].mode = mode /\ exec'[c] = p
        /\ \A r \in RunIds \ {c} : run'[r] = run[r] /\ exec'[r] = exec[r]
    BY <1>5 DEF CreateRun, TypeOK
  <2>2. SchedulerRunsAtLeader'
    BY <1>5, <2>1 DEF SchedulerRunsAtLeader, Live, TypeOK
  <2>3. CASE mode = "scheduler"
    <3>1. ASSUME NEW r \in RunIds, Live(r), run[r].mode = "scheduler" PROVE FALSE
      <4>1. exec[r] \in Procs /\ leader[exec[r]]
        BY <3>1 DEF SchedulerRunsAtLeader, Live, TypeOK
      <4> QED BY <1>2, <1>5, <2>3, <3>1, <4>1 DEF CronBusy
    <3>2. OneScheduledRun'  BY <2>1, <3>1 DEF OneScheduledRun, Live
    <3> QED BY <1>1, <1>5, <2>2, <3>2 DEF CronAtLeader
  <2>4. CASE mode # "scheduler"
    BY <1>1, <1>5, <2>1, <2>2, <2>4 DEF OneScheduledRun, Live, CronAtLeader
  <2> QED BY <2>3, <2>4
<1>6. CASE \A q \in Procs : leader[q] => leader'[q]
  <2>1. \A q \in Procs : cron'[q] # None => leader'[q]
    <3>1. CASE FiresShrink  BY <1>6, <3>1 DEF FiresShrink, CronAtLeader
    <3>2. ASSUME NEW p \in Procs, CatchUp(p) PROVE UNCHANGED cron
      BY <3>2 DEF CatchUp
    <3>3. CASE Tick
      BY <1>6, <3>3 DEF Tick, Loaded, FlagHoldsLock
    <3> QED BY <1>6, <3>1, <3>2, <3>3, FiresKinds DEF CronAtLeader
  <2>2. CASE Progress  BY <1>4, <1>6, <2>1, <2>2
  <2>3. CASE FirstAttempt
    <3>1. PICK p \in Procs, c \in RunIds, mode \in Modes \ {"retry"}, slot \in Nat \cup {None} :
            CreateRun(p, c, mode, 0, 0, 0, slot) /\ StartedFor(p, mode, slot)
      BY <2>3 DEF FirstAttempt
    <3>2. mode = "scheduler" => leader[p] /\ ~CronBusy(p)
      BY <3>1 DEF StartedFor, CronAtLeader
    <3> QED BY <1>5, <1>6, <2>1, <3>1, <3>2
  <2>4. ASSUME NEW s \in Scans, ScanLaunch(s) PROVE SchedulerInv'
    <3>1. PICK r \in scan[s].todo, c \in RunIds :
            CreateRun(s[1], c, "retry", run[r].attempt + 1, r, Root(r), run[r].slot)
      BY <2>4 DEF ScanLaunch
    <3>2. s[1] \in Procs  BY ScanTyped
    <3> QED BY <1>5, <1>6, <2>1, <3>1, <3>2
  <2> QED BY <2>2, <2>3, <2>4, StepKinds
<1> QED BY <1>3, <1>6, LeadersStay

(* With the advisory lock in use, its connection never lost and no leader     *)
(* draining, two scheduler runs of the task never execute together, also    *)
(* across crashes and takeovers, and however long a run takes.             *)
THEOREM ScheduledRunsSingle ==
  ASSUME SingleLeaderHypotheses
  PROVE  Spec => []OneScheduledRun
<1>1. TypeOK /\ FlagHoldsLock /\ [Next]_vars => FlagHoldsLock'
  BY SingleLeaderHypotheses, TaskFlagStep DEF SingleLeaderHypotheses
<1>2. TypeOK /\ FlagHoldsLock /\ RetryInv /\ SchedulerInv /\ [Next]_vars => SchedulerInv'
  BY SingleLeaderHypotheses, SchedulerInvStep
<1>3. SchedulerInv => OneScheduledRun  BY DEF SchedulerInv
<1> QED BY <1>1, <1>2, <1>3, TaskFlagInit, SchedulerInvInit, RetryInvInit, RetryInvStep,
           TaskTypeCorrect, PTL DEF Spec

-----------------------------------------------------------------------------
(* What keeps the watchdog's verdict to the dead: a run that executes is      *)
(* within the time its thread was given; unless the task's timeout was made  *)
(* shorter, the watchdog uses no shorter one; and what it has read as stale  *)
(* has no thread, and nobody else writes it.                               *)
LiveInTime == \A r \in RunIds : Live(r) => now < run[r].startedAt + run[r].limit + StaleBuffer

LimitKept == \A r \in RunIds : Live(r) => run[r].limit <= timeout \/ run[r].cut

Abandoned(r) ==
  /\ ~Live(r) /\ run[r].status \in {"running", "failed"}
  /\ \A s \in Scans : r \notin scan[s].due \cup scan[s].todo

StaleKnown == \A p \in Procs : \A r \in stale[p] : run[r].cut \/ Abandoned(r)

WatchInv == LiveInTime /\ LimitKept /\ StaleKnown /\ \A r \in RunIds : fixing[r] = None

(* It takes that no step of a pipeline blocks beyond timeout and buffer, and *)
(* that no operator reprints.                                              *)
TimelyHypotheses == ~Overruns /\ "reprint" \notin Operators

VerdictOnDeadStep ==
  \A r \in RunIds :
    run[r].status # "failed" /\ run'[r].status = "failed" /\ exec'[r] = exec[r]
      => \/ run[r].status = "running" /\ ~Live(r)
         \/ run[r].cut

(* Steps that create no run and leave clock and timeout alone keep it, if     *)
(* they write failed, a run with a thread, or one on the list of a scan.     *)
LEMMA ProgressKeepsWatch ==
  ASSUME TypeOK, TypeOK', WatchInv, RowsProgress, ScansProgress, UNCHANGED <<now, timeout>>,
         \A r \in RunIds : fixing'[r] = None,
         \A p \in Procs : stale'[p] \subseteq stale[p],
         \A r \in RunIds : \/ run'[r].status \in {run[r].status, "failed"}
                           \/ ~Abandoned(r)
  PROVE  WatchInv'
<1> USE DEF WatchInv
<1>1. \A r \in RunIds :
        /\ run'[r].startedAt = run[r].startedAt /\ run'[r].limit = run[r].limit
        /\ run[r].cut => run'[r].cut
        /\ Live(r)' => Live(r)
  BY DEF RowsProgress, SameRun, Live
<1>2. LiveInTime' /\ LimitKept'
  BY <1>1 DEF LiveInTime, LimitKept
<1>3. \A r \in RunIds : Abandoned(r) => Abandoned(r)'
  BY <1>1 DEF Abandoned, ScansProgress
<1>4. \A p \in Procs : stale[p] \subseteq RunIds  BY DEF TypeOK
<1>5. StaleKnown'
  BY <1>1, <1>3, <1>4 DEF StaleKnown
<1> QED BY <1>2, <1>5

(* A run that was just created is in time.                                 *)
LEMMA CreationKeepsWatch ==
  ASSUME TypeOK, RetryInv, WatchInv,
         NEW p \in Procs, NEW c \in RunIds, NEW mode, NEW attempt, NEW parent,
         NEW origin, NEW slot,
         CreateRun(p, c, mode, attempt, parent, origin, slot),
         UNCHANGED <<now, timeout, stale>>,
         \A s \in Scans : /\ scan'[s].due \subseteq scan[s].due
                          /\ scan'[s].todo \subseteq scan[s].todo
  PROVE  WatchInv' /\ VerdictOnDeadStep
<1> USE DEF WatchInv
<1>1. PICK m \in RetryCounts :
        run' = [run EXCEPT ![c] =
          [status |-> "running", mode |-> mode, attempt |-> attempt,
           maxRetry |-> m, parent |-> parent, origin |-> origin,
           retryAt |-> None, startedAt |-> now, slot |-> slot,
           limit |-> timeout, cut |-> FALSE, dropped |-> FALSE]]
  BY DEF CreateRun
<1>2. /\ ~Exists(c) /\ UNCHANGED fixing
      /\ run'[c].status = "running" /\ run'[c].startedAt = now /\ run'[c].limit = timeout
      /\ \A q \in RunIds \ {c} : run'[q] = run[q] /\ exec'[q] = exec[q]
  BY <1>1 DEF CreateRun, TypeOK
<1>3. \A q \in Procs : stale[q] \subseteq RunIds \ {c}
  BY <1>2 DEF RetryInv, AbsentUntouched, TypeOK
<1>4. now \in Nat /\ timeout \in Nat /\ now < now + timeout + StaleBuffer
  BY TaskAssumption DEF TypeOK
<1>5. LiveInTime' /\ LimitKept'
  BY <1>2, <1>4 DEF LiveInTime, LimitKept, Live
<1>6. \A r \in RunIds \ {c} : Abandoned(r) => Abandoned(r)'
  BY <1>2 DEF Abandoned, Live
<1>7. StaleKnown'
  BY <1>2, <1>3, <1>6 DEF StaleKnown
<1>8. VerdictOnDeadStep
  BY <1>2 DEF VerdictOnDeadStep
<1> QED BY <1>2, <1>5, <1>7, <1>8

(* Every step keeps it, and decides about the dead only.                     *)
LEMMA WatchStep ==
  ASSUME TimelyHypotheses, TypeOK, RetryInv, WatchInv, [Next]_vars
  PROVE  WatchInv' /\ VerdictOnDeadStep
<1> USE DEF taskVars, jobVars
<1> DEFINE Goal == WatchInv' /\ VerdictOnDeadStep
<1>t. TypeOK'  BY TaskStepTyped
<1>n. \A r \in RunIds : fixing[r] = None  BY DEF WatchInv
<1>l. \A s \in Scans : \A r \in scan[s].due \cup scan[s].todo : ~Abandoned(r)
  BY DEF Abandoned
<1>c. ASSUME NEW p \in Procs, NEW c \in RunIds, NEW mode, NEW attempt, NEW parent,
             NEW origin, NEW slot,
             CreateRun(p, c, mode, attempt, parent, origin, slot),
             UNCHANGED <<now, timeout, stale>>,
             \A s \in Scans : /\ scan'[s].due \subseteq scan[s].due
                              /\ scan'[s].todo \subseteq scan[s].todo
      PROVE  Goal
  BY <1>c, CreationKeepsWatch
<1>i. ASSUME UNCHANGED <<runVars, now, timeout, stale>>, ScansProgress PROVE Goal
  <2>1. RowsProgress
    BY <1>i DEF RowsProgress, SameRun, TypeOK, runVars
  <2>2. WatchInv'
    BY <1>i, <1>t, <1>n, <2>1, ProgressKeepsWatch DEF runVars
  <2> QED BY <1>i, <2>2 DEF VerdictOnDeadStep, runVars
<1>1. CASE FirstAttempt
  BY <1>1, <1>c DEF FirstAttempt
<1>2. ASSUME NEW s \in Scans, ScanLaunch(s) PROVE Goal
  <2>1. PICK r \in scan[s].todo, c \in RunIds :
          /\ CreateRun(s[1], c, "retry", run[r].attempt + 1, r, Root(r), run[r].slot)
          /\ scan' = [scan EXCEPT ![s].todo = @ \ {r}, ![s].child = c]
    BY <1>2 DEF ScanLaunch
  <2>2. s[1] \in Procs  BY ScanTyped
  <2>3. \A u \in Scans : scan'[u].due \subseteq scan[u].due /\ scan'[u].todo \subseteq scan[u].todo
    BY <2>1 DEF TypeOK, Scan
  <2>4. UNCHANGED <<now, timeout, stale>>  BY <1>2 DEF ScanLaunch
  <2> QED BY <1>c, <2>1, <2>2, <2>3, <2>4
<1>3. CASE Progress
  <2> USE <1>3 DEF Progress
  <2>1. ASSUME NEW p \in Procs, StaleRead(p) PROVE Goal
    <3>1. /\ stale'[p] = StaleRuns /\ \A q \in Procs \ {p} : stale'[q] = stale[q]
          /\ UNCHANGED <<run, exec, fixing, scan, now, timeout>>
      BY <2>1 DEF StaleRead, TypeOK, runVars
    <3>2. ASSUME NEW r \in StaleRuns PROVE run[r].cut \/ Abandoned(r)
      <4>1. r \in RunIds /\ run[r].status = "running"
            /\ run[r].startedAt + timeout + StaleBuffer <= now
        BY <3>2 DEF StaleRuns, Overdue
      <4>2. /\ run[r].startedAt \in Nat /\ run[r].limit \in Nat /\ timeout \in Nat
            /\ now \in Nat /\ StaleBuffer \in Nat
        BY <4>1, TaskAssumption DEF TypeOK, Row
      <4>3. \A s \in Scans : r \notin scan[s].due \cup scan[s].todo
        BY <4>1 DEF RetryInv, SelectedSettled, Settled
      <4>4. Live(r) => timeout < run[r].limit
        BY <4>1, <4>2 DEF WatchInv, LiveInTime
      <4>5. Live(r) => run[r].cut
        BY <4>1, <4>2, <4>4 DEF WatchInv, LimitKept
      <4> QED BY <4>1, <4>3, <4>5 DEF Abandoned
    <3>3. StaleKnown'
      BY <3>1, <3>2 DEF WatchInv, StaleKnown, Abandoned, Live
    <3> QED BY <3>1, <3>3
            DEF WatchInv, LiveInTime, LimitKept, Live, VerdictOnDeadStep
  <2>2. CASE EditTimeout
    <3>1. PICK t \in Timeouts \ {timeout} :
            /\ timeout' = t
            /\ run' = [r \in RunIds |-> IF Live(r) /\ t < run[r].limit
                                         THEN [run[r] EXCEPT !.cut = TRUE]
                                         ELSE run[r]]
      BY <2>2 DEF EditTimeout
    <3>2. UNCHANGED <<now, exec, fixing, scan, stale>>
      BY <2>2 DEF EditTimeout
    <3>3. \A r \in RunIds :
            /\ SameRun(run'[r], run[r]) /\ run'[r].status = run[r].status
            /\ Live(r) /\ t < run[r].limit => run'[r].cut
      BY <3>1, RowMarked DEF TypeOK, SameRun
    <3>4. \A r \in RunIds : run[r].limit \in Nat /\ t \in Nat
      BY TaskAssumption DEF TypeOK, Row
    <3>5. LiveInTime'
      BY <3>2, <3>3 DEF WatchInv, LiveInTime, Live, SameRun
    <3>6. LimitKept'
      BY <3>1, <3>2, <3>3, <3>4 DEF WatchInv, LimitKept, Live, SameRun
    <3>7. StaleKnown'
      BY <3>2, <3>3 DEF WatchInv, StaleKnown, Abandoned, Live, SameRun, TypeOK
    <3>8. VerdictOnDeadStep
      BY <3>3 DEF VerdictOnDeadStep
    <3> QED BY <1>n, <3>2, <3>5, <3>6, <3>7, <3>8 DEF WatchInv
  <2>3. CASE Tick
    <3>1. /\ UNCHANGED <<runVars, timeout, scan, stale>> /\ now' = now + 1
          /\ \A r \in RunIds : Live(r) =>
               now + 1 < run[r].startedAt + run[r].limit + StaleBuffer
      BY <2>3 DEF Tick, TimelyHypotheses
    <3>2. LiveInTime'
      BY <3>1 DEF LiveInTime, Live, runVars
    <3> QED BY <3>1, <3>2
            DEF WatchInv, LimitKept, StaleKnown, Abandoned, Live, runVars, VerdictOnDeadStep
  <2>4. ASSUME NEW p \in Procs, StaleCommit(p) PROVE Goal
    <3>1. /\ \A r \in RunIds : run'[r].status = IF r \in stale[p] THEN "failed" ELSE run[r].status
          /\ \A q \in Procs : stale'[q] \subseteq stale[q]
          /\ UNCHANGED <<now, timeout, exec, fixing, scan>>
      BY <2>4, RowWritten DEF StaleCommit, TypeOK
    <3>2. WatchInv'  BY <1>t, <1>n, <3>1, ProgressKeepsWatch
    <3>3. VerdictOnDeadStep
      BY <3>1 DEF VerdictOnDeadStep, WatchInv, StaleKnown, Abandoned
    <3> QED BY <3>2, <3>3
  <2>5. ASSUME NEW p \in Procs, Kill(p) PROVE Goal
    <3>1. /\ \A r \in RunIds : run'[r].status = run[r].status
          /\ \A q \in Procs : stale'[q] \subseteq stale[q]
          /\ UNCHANGED <<now, timeout>>
          /\ \A r \in RunIds : fixing'[r] = None
      BY <1>n, <2>5, RowMarked DEF Kill, TypeOK
    <3>2. WatchInv'  BY <1>t, <3>1, ProgressKeepsWatch
    <3> QED BY <3>1, <3>2 DEF VerdictOnDeadStep
  <2>6. ASSUME NEW q \in RunIds, Succeed(q) \/ Fail(q) \/ EndUnrecorded(q) PROVE Goal
    <3>1. /\ Live(q) /\ exec'[q] = None
          /\ \A r \in RunIds \ {q} : run'[r] = run[r]
          /\ UNCHANGED <<now, timeout, fixing, stale>>
      BY <2>6 DEF Succeed, Fail, EndUnrecorded, TypeOK
    <3>2. WatchInv'  BY <1>t, <1>n, <3>1, ProgressKeepsWatch DEF Abandoned
    <3> QED BY <3>1, <3>2 DEF VerdictOnDeadStep, Live
  <2>7. ASSUME NEW s \in Scans, ScanClaim(s) PROVE Goal
    <3>1. \A r \in RunIds : run'[r].status # run[r].status =>
            r \in scan[s].due /\ run'[r].status = "retrying"
      BY <2>7, RowClaimed DEF ScanClaim, TypeOK
    <3>2. UNCHANGED <<now, timeout, fixing, stale>>  BY <2>7 DEF ScanClaim
    <3>3. WatchInv'  BY <1>t, <1>n, <1>l, <3>1, <3>2, ProgressKeepsWatch
    <3> QED BY <3>1, <3>3 DEF VerdictOnDeadStep
  <2>8. ASSUME NEW s \in Scans, ScanSkip(s) PROVE Goal
    <3>1. \A r \in RunIds : run'[r].status = run[r].status
      BY <2>8, ScanTyped, RowMarked DEF ScanSkip, TypeOK
    <3>2. UNCHANGED <<now, timeout, fixing, stale>>  BY <2>8 DEF ScanSkip
    <3>3. WatchInv'  BY <1>t, <1>n, <3>1, <3>2, ProgressKeepsWatch
    <3> QED BY <3>1, <3>3 DEF VerdictOnDeadStep
  <2>9. ASSUME NEW p \in Procs, FireCron(p) \/ FireCatchup(p) \/ RunManually(p) PROVE Goal
    <3>1. UNCHANGED <<now, timeout, stale, scan>>
      BY <2>9 DEF FireCron, FireCatchup, RunManually
    <3>2. \/ UNCHANGED runVars
          \/ \E r \in RunIds : CreateRun(p, r, "scheduler", 0, 0, 0, cron[p])
          \/ \E f \in catchup[p] : \E r \in RunIds : CreateRun(p, r, "catchup", 0, 0, 0, f)
          \/ \E r \in RunIds : CreateRun(p, r, "manual", 0, 0, 0, None)
      BY <2>9 DEF FireCron, FireCatchup, RunManually
    <3> QED BY <1>c, <1>i, <3>1, <3>2
  <2>10. ASSUME NEW s \in Scans, ScanRead(s) \/ ScanEnd(s) PROVE Goal
    BY <1>i, <2>10 DEF ScanRead, ScanEnd
  <2>11. ASSUME NEW p \in Procs, ElectLeader(p) \/ CatchUp(p) \/ Stop(p) PROVE Goal
    BY <1>i, <2>11 DEF ElectLeader, CatchUp, Stop
  <2>12. ASSUME NEW q \in RunIds, ResumeAfterReprint(q) PROVE Goal
    BY <1>n, <2>12 DEF ResumeAfterReprint
  <2>13. ASSUME NEW q \in RunIds, NEW p \in Procs, Reprint(p, q) PROVE Goal
    BY <2>13 DEF Reprint, TimelyHypotheses
  <2>14. CASE ToggleTask
    BY <1>i, <2>14 DEF ToggleTask
  <2>15. CASE UNCHANGED vars
    BY <1>i, <2>15 DEF vars
  <2> QED
    BY <1>2, <2>1, <2>2, <2>3, <2>4, <2>5, <2>6, <2>7, <2>8, <2>9, <2>10, <2>11, <2>12,
       <2>13, <2>14, <2>15
    DEF Next, ProcessStep, RunStep, ScanStep
<1> QED BY <1>1, <1>2, <1>3, StepKinds

(* The watchdog decides about runs whose thread died without an outcome, or   *)
(* whose deadline an operator shortened, and about no other, as long as      *)
(* pipelines come to an await in time and nobody reprints labels.          *)
THEOREM VerdictsOnDead ==
  ASSUME TimelyHypotheses
  PROVE  Spec => VerdictOnDead
<1>1. Init => WatchInv
  BY DEF Init, WatchInv, LiveInTime, LimitKept, StaleKnown, Live
<1>2. TypeOK /\ RetryInv /\ WatchInv /\ [Next]_vars => WatchInv' /\ VerdictOnDeadStep
  BY TimelyHypotheses, WatchStep
<1>3. Spec => [][VerdictOnDeadStep]_vars
  BY <1>1, <1>2, RetryInvInit, RetryInvStep, TaskTypeCorrect, PTL DEF Spec
<1> QED BY <1>3 DEF VerdictOnDead, VerdictOnDeadStep

-----------------------------------------------------------------------------
(* The lists of a scan are filled one after the other: rows are selected       *)
(* first, and only a scan that has claimed them has rows to retry.           *)
ListsShaped ==
  \A s \in Scans :
    /\ scan[s].pc # "read" => scan[s].due = {}
    /\ scan[s].pc # "work" => scan[s].todo = {}

LEMMA ListsShapedStep ==
  ASSUME TypeOK, ListsShaped, [Next]_vars
  PROVE  ListsShaped'
<1>1. CASE UNCHANGED scan
  BY <1>1 DEF ListsShaped
<1>2. ASSUME NEW s \in Scans, ScanStep(s) PROVE ListsShaped'
  <2>1. CASE ScanRead(s)
    <3>1. scan'[s] \in {NoScan("over"), [NoScan("read") EXCEPT !.due = DueRetries]}
          /\ \A u \in Scans \ {s} : scan'[u] = scan[u]
      BY <1>2, <2>1 DEF ScanRead, TypeOK
    <3>2. scan'[s].todo = {} /\ (scan'[s].pc # "read" => scan'[s].due = {})
      BY <3>1 DEF NoScan
    <3> QED BY <3>1, <3>2 DEF ListsShaped
  <2>2. CASE ScanClaim(s)  BY <1>2, <2>2 DEF ScanClaim, NoScan, ListsShaped, TypeOK, Scan
  <2>3. CASE ScanLaunch(s)
    <3>1. PICK r \in scan[s].todo, c \in RunIds :
            scan' = [scan EXCEPT ![s].todo = @ \ {r}, ![s].child = c]
      BY <2>3 DEF ScanLaunch
    <3>2. scan[s].pc = "work"  BY <2>3 DEF ScanLaunch
    <3> QED BY <3>1, <3>2 DEF ListsShaped, TypeOK, Scan
  <2>4. CASE ScanEnd(s)    BY <1>2, <2>4 DEF ScanEnd, NoScan, ListsShaped, TypeOK, Scan
  <2>5. CASE ScanSkip(s)
    <3>1. PICK r \in scan[s].todo : scan' = [scan EXCEPT ![s].todo = @ \ {r}, ![s].child = 0]
      BY <2>5 DEF ScanSkip
    <3>2. scan[s].pc = "work"  BY <2>5 DEF ScanSkip
    <3> QED BY <3>1, <3>2 DEF ListsShaped, TypeOK, Scan
  <2> QED BY <1>2, <2>1, <2>2, <2>3, <2>4, <2>5 DEF ScanStep
<1>3. ASSUME NEW p \in Procs, Kill(p) PROVE ListsShaped'
  BY <1>3 DEF Kill, NoScan, ListsShaped, TypeOK
<1> QED
  BY <1>1, <1>2, <1>3
  DEF Next, ProcessStep, RunStep, FireCron, FireCatchup, RunManually, StaleRead, StaleCommit,
      ElectLeader, CatchUp, Stop, Succeed, Fail, EndUnrecorded, ResumeAfterReprint, Reprint,
      ToggleTask, EditTimeout, Tick, vars

(* The parent of a retry is written once, when its row is created, and a lost *)
(* claim stays lost.                                                        *)
LEMMA ParentsStay ==
  ASSUME TypeOK, RetryInv, [Next]_vars
  PROVE  \A c \in RunIds :
           /\ run[c].parent # 0 => run'[c].parent = run[c].parent
           /\ run[c].status = "retrying" /\ run[c].dropped => run'[c].dropped
<1>1. CASE Progress
  BY <1>1 DEF Progress, RowsProgress, SameRun
<1>2. ASSUME NEW p, NEW c \in RunIds, NEW mode, NEW attempt, NEW parent, NEW origin, NEW slot,
             CreateRun(p, c, mode, attempt, parent, origin, slot)
      PROVE  \A d \in RunIds :
               /\ run[d].parent # 0 => run'[d].parent = run[d].parent
               /\ run[d].status = "retrying" /\ run[d].dropped => run'[d].dropped
  <2>1. ~Exists(c) /\ \A d \in RunIds \ {c} : run'[d] = run[d]
    BY <1>2 DEF CreateRun, TypeOK
  <2> QED BY <2>1 DEF RetryInv, AbsentUntouched, Exists
<1> QED BY <1>1, <1>2, StepKinds DEF FirstAttempt, ScanLaunch

(* A run is claimed by a scan that takes it on its list ...                  *)
LEMMA NewClaimsListed ==
  ASSUME TypeOK, [Next]_vars, NEW r \in RunIds, run'[r].status = "retrying"
  PROVE  run[r].status = "retrying" \/ \E s \in Scans : r \in scan'[s].todo
<1>s. \A q \in RunIds : run[q] \in Row  BY DEF TypeOK
<1>1. CASE run'[r].status = run[r].status
  BY <1>1
<1>2. ASSUME NEW p, NEW c \in RunIds, NEW mode, NEW attempt, NEW parent, NEW origin, NEW slot,
             CreateRun(p, c, mode, attempt, parent, origin, slot)
      PROVE  run'[r].status = run[r].status
  <2>1. r # c  BY <1>2 DEF CreateRun, TypeOK
  <2> QED BY <1>2, <2>1 DEF CreateRun, TypeOK
<1>3. ASSUME NEW p \in Procs, FireCron(p) \/ FireCatchup(p) \/ RunManually(p)
      PROVE  run'[r].status = run[r].status
  BY <1>2, <1>3 DEF FireCron, FireCatchup, RunManually, runVars
<1>4. ASSUME NEW s \in Scans, ScanLaunch(s) PROVE run'[r].status = run[r].status
  BY <1>2, <1>4 DEF ScanLaunch
<1>5. ASSUME NEW s \in Scans, ScanClaim(s), run'[r] # run[r]
      PROVE  r \in scan'[s].todo
  BY <1>5 DEF ScanClaim, NoScan, TypeOK
<1>6. ASSUME NEW p \in Procs, StaleCommit(p) PROVE run'[r].status = run[r].status
  BY <1>6, <1>s, RowWritten DEF StaleCommit
<1>7. ASSUME NEW q \in RunIds, Succeed(q) \/ Fail(q) \/ ResumeAfterReprint(q)
      PROVE  run'[r].status = run[r].status
  <2>1. CASE Succeed(q)             BY <1>s, <2>1, RowWritten DEF Succeed, TypeOK
  <2>2. CASE Fail(q)
    <3>1. now \in Nat  BY DEF TypeOK
    <3> QED BY <1>s, <2>2, <3>1, RowFailed DEF Fail, TypeOK
  <2>3. CASE ResumeAfterReprint(q)  BY <1>s, <2>3, RowResumed DEF ResumeAfterReprint, TypeOK
  <2> QED BY <1>7, <2>1, <2>2, <2>3
<1>8. ASSUME NEW p \in Procs, Kill(p) PROVE run'[r].status = run[r].status
  BY <1>8, <1>s, RowMarked DEF Kill
<1>9. ASSUME NEW s \in Scans, ScanSkip(s) PROVE run'[r].status = run[r].status
  BY <1>9, <1>s, ScanTyped, RowMarked DEF ScanSkip, TypeOK
<1>10. CASE EditTimeout
  BY <1>10, <1>s, RowMarked DEF EditTimeout
<1> QED
  BY <1>1, <1>3, <1>4, <1>5, <1>6, <1>7, <1>8, <1>9, <1>10
  DEF Next, ProcessStep, RunStep, ScanStep, StaleRead, ElectLeader, CatchUp, Stop,
      EndUnrecorded, Reprint, ScanRead, ScanEnd, ToggleTask, Tick, vars, runVars

(* ... and leaves the list by being retried, or marked as a lost claim.      *)
LEMMA ListedStay ==
  ASSUME TypeOK, ListsShaped, [Next]_vars, NEW s \in Scans, NEW r \in scan[s].todo
  PROVE  \/ r \in scan'[s].todo
         \/ \E c \in RunIds : run'[c].parent = r
         \/ run'[r].dropped
<1>r. r \in RunIds /\ run[r] \in Row  BY ScanTyped DEF TypeOK
<1>1. CASE scan'[s] = scan[s]
  BY <1>1
<1>2. ASSUME NEW u \in Scans, ScanRead(u) PROVE scan'[s] = scan[s]
  BY <1>2 DEF ScanRead, ListsShaped, TypeOK
<1>3. ASSUME NEW u \in Scans, ScanClaim(u) PROVE scan'[s] = scan[s]
  BY <1>3 DEF ScanClaim, ListsShaped, TypeOK
<1>4. ASSUME NEW u \in Scans, ScanLaunch(u)
      PROVE  r \in scan'[s].todo \/ \E c \in RunIds : run'[c].parent = r
  <2>1. PICK q \in scan[u].todo, c \in RunIds :
          /\ CreateRun(u[1], c, "retry", run[q].attempt + 1, q, Root(q), run[q].slot)
          /\ scan' = [scan EXCEPT ![u].todo = @ \ {q}, ![u].child = c]
    BY <1>4 DEF ScanLaunch
  <2>2. run'[c].parent = q  BY <2>1 DEF CreateRun, TypeOK
  <2>3. r # q \/ s # u => r \in scan'[s].todo  BY <2>1 DEF TypeOK, Scan
  <2> QED BY <2>2, <2>3
<1>5. ASSUME NEW u \in Scans, ScanEnd(u) PROVE scan'[s] = scan[s]
  BY <1>5 DEF ScanEnd, TypeOK
<1>6. ASSUME NEW p \in Procs, Kill(p) PROVE r \in scan'[s].todo \/ run'[r].dropped
  <2>1. CASE s[1] = p
    <3>1. \E t \in Scans : t[1] = p /\ r \in scan[t].todo  BY <2>1
    <3>2. run'[r] = [run[r] EXCEPT !.dropped = TRUE]  BY <1>6, <1>r, <3>1 DEF Kill
    <3> QED BY <1>r, <3>2, RowMarked
  <2>2. CASE s[1] # p  BY <1>6, <2>2 DEF Kill
  <2> QED BY <2>1, <2>2
<1>7. ASSUME NEW u \in Scans, ScanSkip(u) PROVE r \in scan'[s].todo \/ run'[r].dropped
  <2>1. PICK q \in scan[u].todo :
          /\ run' = [run EXCEPT ![q].dropped = TRUE]
          /\ scan' = [scan EXCEPT ![u].todo = @ \ {q}, ![u].child = 0]
    BY <1>7 DEF ScanSkip
  <2>2. r = q => run'[r].dropped  BY <1>r, <2>1, RowMarked DEF TypeOK
  <2>3. r # q => r \in scan'[s].todo  BY <2>1 DEF TypeOK, Scan
  <2> QED BY <2>2, <2>3
<1> QED
  BY <1>1, <1>2, <1>3, <1>4, <1>5, <1>6, <1>7
  DEF Next, ProcessStep, RunStep, ScanStep, FireCron, FireCatchup, RunManually, StaleRead,
      StaleCommit, ElectLeader, CatchUp, Stop, Succeed, Fail, EndUnrecorded,
      ResumeAfterReprint, Reprint, ToggleTask, EditTimeout, Tick, vars

(* A run claimed for a retry has its retry, is on the list of a scan that still *)
(* has it to do, or is named as a lost claim: whatever is committed in        *)
(* between, also when a leader stops, the task is disabled, or two scans have *)
(* claimed the same run.                                                    *)
THEOREM ClaimsOwned == Spec => []ClaimedIsOwned
<1> DEFINE Inv == ListsShaped /\ ClaimedIsOwned
<1>1. Init => Inv
  BY DEF Init, Absent, NoScan, ListsShaped, ClaimedIsOwned
<1>2. TypeOK /\ RetryInv /\ Inv /\ [Next]_vars => Inv'
  <2> SUFFICES ASSUME TypeOK, RetryInv, Inv, [Next]_vars PROVE Inv'
    OBVIOUS
  <2>1. ListsShaped'  BY ListsShapedStep
  <2>2. ASSUME NEW r \in RunIds, run'[r].status = "retrying"
        PROVE  \/ \E c \in RunIds : run'[c].parent = r
               \/ \E s \in Scans : r \in scan'[s].todo
               \/ run'[r].dropped
    <3>1. CASE run[r].status = "retrying"
      <4>1. CASE \E c \in RunIds : run[c].parent = r
        BY <4>1, ParentsStay, RunIdsAreNat
      <4>2. CASE \E s \in Scans : r \in scan[s].todo
        BY <4>2, ListedStay
      <4>3. CASE run[r].dropped
        BY <3>1, <4>3, ParentsStay
      <4> QED BY <3>1, <4>1, <4>2, <4>3 DEF ClaimedIsOwned
    <3> QED BY <2>2, <3>1, NewClaimsListed
  <2> QED BY <2>1, <2>2 DEF ClaimedIsOwned
<1> QED BY <1>1, <1>2, RetryInvInit, RetryInvStep, TaskTypeCorrect, PTL DEF Spec

-----------------------------------------------------------------------------
(* Where one process at a time retries.  The startup scans are what breaks     *)
(* this: a process that starts scans although it is not the leader.          *)
OneScannerHypotheses == SingleLeaderHypotheses /\ Booted = Procs

ScanAtLeader ==
  \A s \in Scans :
    /\ scan[s].pc \in {"read", "work"} => leader[s[1]]
    /\ s[2] = "startup" => scan[s].pc = "over"

LEMMA ScanAtLeaderStep ==
  ASSUME OneScannerHypotheses, TypeOK, Unstopped, FlagHoldsLock, ScanAtLeader, [Next]_vars
  PROVE  ScanAtLeader'
<1> USE DEF OneScannerHypotheses
<1>1. ASSUME UNCHANGED scan, \A q \in Procs : leader[q] => leader'[q] PROVE ScanAtLeader'
  BY <1>1 DEF ScanAtLeader, Scans
<1>2. ASSUME NEW s \in Scans, ScanStep(s) PROVE ScanAtLeader'
  <2>1. UNCHANGED leader
    BY <1>2 DEF ScanStep, ScanRead, ScanClaim, ScanLaunch, ScanSkip, ScanEnd, leaderVars
  <2>2. \A u \in Scans \ {s} : scan'[u] = scan[u]
    BY <1>2 DEF ScanStep, ScanRead, ScanClaim, ScanLaunch, ScanSkip, ScanEnd, TypeOK
  <2>3. scan[s].pc \in {"ready", "read", "work"}
    BY <1>2 DEF ScanStep, ScanRead, ScanClaim, ScanLaunch, ScanSkip, ScanEnd
  <2>4. s[2] # "startup"
    BY <2>3 DEF ScanAtLeader
  <2>5. scan'[s].pc \in {"read", "work"} => leader[s[1]]
    <3>1. CASE ScanRead(s)
      BY <2>4, <3>1 DEF ScanRead, Loaded, FlagHoldsLock, Scans
    <3>2. CASE scan[s].pc \in {"read", "work"}
      BY <3>2 DEF ScanAtLeader
    <3> QED BY <1>2, <3>1, <3>2 DEF ScanStep, ScanClaim, ScanLaunch, ScanSkip, ScanEnd
  <2> QED BY <2>1, <2>2, <2>4, <2>5 DEF ScanAtLeader
<1>3. ASSUME NEW p \in Procs, Kill(p) PROVE ScanAtLeader'
  <2>1. \A s \in Scans : scan'[s] = IF s[1] = p THEN NoScan("over") ELSE scan[s]
    BY <1>3 DEF Kill
  <2>2. \A q \in Procs \ {p} : leader'[q] = leader[q]
    BY <1>3 DEF Kill, Crash, TypeOK, LeaderTypeOK
  <2> QED BY <2>1, <2>2 DEF ScanAtLeader, Scans, NoScan
<1>4. UNCHANGED scan \/ (\E s \in Scans : ScanStep(s)) \/ \E p \in Procs : Kill(p)
  BY DEF Next, ProcessStep, RunStep, FireCron, FireCatchup, RunManually, StaleRead,
     StaleCommit, ElectLeader, CatchUp, Stop, Succeed, Fail, EndUnrecorded,
     ResumeAfterReprint, Reprint, ToggleTask, EditTimeout, Tick, vars
<1> QED BY <1>1, <1>2, <1>3, <1>4, LeadersStay

(* So at most one scan has rows in hand.                                     *)
LEMMA OneScanAtWork ==
  ASSUME TypeOK, ListsShaped, Unstopped, FlagHoldsLock, ScanAtLeader,
         NEW s \in Scans, scan[s].pc = "work",
         NEW u \in Scans, u # s
  PROVE  scan[u].due = {} /\ scan[u].todo = {}
<1>1. s[2] = "job" /\ leader[s[1]]
  BY DEF ScanAtLeader, Scans
<1>2. ASSUME scan[u].pc \in {"read", "work"} PROVE u = s
  <2>1. u[2] = "job" /\ leader[u[1]]  BY <1>2 DEF ScanAtLeader, Scans
  <2>2. u[1] = s[1]  BY <1>1, <2>1 DEF FlagHoldsLock, Unstopped, Scans
  <2> QED BY <1>1, <2>1, <2>2 DEF Scans
<1> QED BY <1>2 DEF ListsShaped

-----------------------------------------------------------------------------
(* What a single scanner makes of a chain: a run that a scan has in hand has no *)
(* retry yet, and all runs of a chain but its latest have one.              *)
UnretriedListed ==
  \A s \in Scans : \A r \in scan[s].due \cup scan[s].todo :
    \A c \in RunIds : run[c].parent # r

ChainEnds ==
  \A c, d \in RunIds :
    Exists(c) /\ Exists(d) /\ Root(c) = Root(d) /\ c < d => \E e \in RunIds : run[e].parent = c

RootBefore ==
  \A d \in RunIds : Root(d) <= d /\ (~Exists(d) => run[d].origin = 0)

ChainInv == UnretriedListed /\ RetriedOnce /\ ChainEnds /\ RootBefore

(* Steps that create no run keep the chains as they are.                      *)
LEMMA ProgressKeepsChains ==
  ASSUME TypeOK, TypeOK', RetryInv, ChainInv, Progress
  PROVE  ChainInv'
<1> USE DEF ChainInv, Progress, RowsProgress, SameRun
<1>1. \A r \in RunIds : (Exists(r)' <=> Exists(r)) /\ Root(r)' = Root(r)
  BY DEF RetryInv, AbsentUntouched, Exists, Root
<1>2. RetriedOnce' /\ ChainEnds' /\ RootBefore'
  BY <1>1 DEF RetriedOnce, ChainEnds, RootBefore
<1>3. \A r \in RunIds : run[r].status = "waiting_retry" => \A c \in RunIds : run[c].parent # r
  BY DEF RetryInv, RetriedSettled, Repeats
<1>4. \A s \in Scans : scan'[s].due \cup scan'[s].todo \subseteq RunIds
  BY DEF TypeOK, Scan
<1>5. UnretriedListed'
  BY <1>3, <1>4 DEF UnretriedListed, ScansProgress
<1> QED BY <1>2, <1>5

(* The row of a new run, and what it leaves alone.                           *)
LEMMA CreatedRow ==
  ASSUME TypeOK, RetryInv, RootBefore,
         NEW p, NEW c \in RunIds, NEW mode, NEW attempt, NEW parent, NEW origin, NEW slot,
         CreateRun(p, c, mode, attempt, parent, origin, slot)
  PROVE  /\ run'[c].parent = parent /\ run'[c].origin = origin
         /\ run[c].parent = 0
         /\ \A d \in RunIds \ {c} : run'[d] = run[d]
         /\ \A d \in RunIds \ {c} : Root(d)' = Root(d) /\ (Exists(d)' <=> Exists(d))
         /\ \A d \in RunIds : Exists(d) => d < c
<1>1. PICK m \in RetryCounts :
        run' = [run EXCEPT ![c] =
          [status |-> "running", mode |-> mode, attempt |-> attempt,
           maxRetry |-> m, parent |-> parent, origin |-> origin,
           retryAt |-> None, startedAt |-> now, slot |-> slot,
           limit |-> timeout, cut |-> FALSE, dropped |-> FALSE]]
  BY DEF CreateRun
<1>2. ~Exists(c)  BY DEF CreateRun
<1>3. run'[c].parent = parent /\ run'[c].origin = origin
  BY <1>1 DEF TypeOK
<1>4. \A d \in RunIds \ {c} : run'[d] = run[d]
  BY <1>1 DEF TypeOK
<1>5. \A d \in RunIds : Exists(d) => d < c
  BY <1>2, RunIdsAreNat DEF RetryInv, AbsentUntouched
<1> QED BY <1>2, <1>3, <1>4, <1>5 DEF RetryInv, AbsentUntouched, Root, Exists

(* A first attempt begins a chain of its own.                                *)
LEMMA FirstAttemptKeepsChains ==
  ASSUME TypeOK, RetryInv, ChainInv, FirstAttempt
  PROVE  ChainInv'
<1>1. PICK p \in Procs, c \in RunIds, mode \in Modes \ {"retry"}, slot \in Nat \cup {None} :
        CreateRun(p, c, mode, 0, 0, 0, slot) /\ UNCHANGED <<scan, stale>>
  BY DEF FirstAttempt
<1>2. /\ run'[c].parent = 0 /\ run'[c].origin = 0 /\ run[c].parent = 0
      /\ \A d \in RunIds \ {c} : run'[d] = run[d]
      /\ \A d \in RunIds \ {c} : Root(d)' = Root(d) /\ (Exists(d)' <=> Exists(d))
      /\ \A d \in RunIds : Exists(d) => d < c
  BY <1>1, CreatedRow DEF ChainInv
<1>3. \A d \in RunIds : run'[d].parent = run[d].parent
  BY <1>2
<1>4. Root(c)' = c  BY <1>2 DEF Root
<1>5. UnretriedListed'
  BY <1>1, <1>3 DEF ChainInv, UnretriedListed
<1>6. RetriedOnce'
  BY <1>3 DEF ChainInv, RetriedOnce
<1>7. RootBefore'
  BY <1>2, <1>4, RunIdsAreNat DEF ChainInv, RootBefore
<1>8. ChainEnds'
  <2> SUFFICES ASSUME NEW a \in RunIds, NEW d \in RunIds,
                      Exists(a)', Exists(d)', Root(a)' = Root(d)', a < d
               PROVE  \E e \in RunIds : run'[e].parent = a
    BY DEF ChainEnds
  <2>1. a # c
    BY <1>2, RunIdsAreNat
  <2>2. Root(a)' <= a /\ a < c
    BY <1>2, <2>1 DEF ChainInv, RootBefore
  <2>3. d # c
    BY <1>4, <2>2, RunIdsAreNat
  <2> QED BY <1>2, <1>3, <2>1, <2>3 DEF ChainInv, ChainEnds
<1> QED BY <1>5, <1>6, <1>7, <1>8 DEF ChainInv

(* A retry extends its chain at the end.                                     *)
LEMMA RetryKeepsChains ==
  ASSUME TypeOK, RetryInv, ListsShaped, Unstopped, FlagHoldsLock, ScanAtLeader, ChainInv,
         NEW s \in Scans, ScanLaunch(s)
  PROVE  ChainInv'
<1>1. PICK r \in scan[s].todo, c \in RunIds :
        /\ CreateRun(s[1], c, "retry", run[r].attempt + 1, r, Root(r), run[r].slot)
        /\ scan' = [scan EXCEPT ![s].todo = @ \ {r}, ![s].child = c]
  BY DEF ScanLaunch
<1>2. r \in RunIds /\ r # 0 /\ Exists(r)
  BY ScanTyped, RunIdsAreNat DEF RetryInv, SelectedSettled, Settled
<1>3. /\ run'[c].parent = r /\ run'[c].origin = Root(r) /\ run[c].parent = 0
      /\ \A d \in RunIds \ {c} : run'[d] = run[d]
      /\ \A d \in RunIds \ {c} : Root(d)' = Root(d) /\ (Exists(d)' <=> Exists(d))
      /\ \A d \in RunIds : Exists(d) => d < c
  BY <1>1, CreatedRow DEF ChainInv
<1>4. r < c /\ Root(r) # 0 /\ Root(c)' = Root(r)
  BY <1>2, <1>3 DEF Root
<1>5. \A d \in RunIds : run[d].parent # r
  BY DEF ChainInv, UnretriedListed
<1>6. \A d \in RunIds \ {c} : run'[d].parent = run[d].parent
  BY <1>3
<1>7. UnretriedListed'
  <2>1. scan[s].pc = "work"  BY DEF ScanLaunch
  <2>2. \A u \in Scans \ {s} : scan'[u].due = {} /\ scan'[u].todo = {}
    BY <1>1, <2>1, OneScanAtWork DEF TypeOK
  <2>3. scan'[s].due = {} /\ scan'[s].todo = scan[s].todo \ {r}
    BY <1>1, <2>1 DEF ListsShaped, TypeOK, Scan
  <2> QED BY <1>3, <1>6, <2>2, <2>3 DEF ChainInv, UnretriedListed
<1>8. RetriedOnce'
  BY <1>3, <1>5, <1>6 DEF ChainInv, RetriedOnce
<1>9. RootBefore'
  <2>1. Root(r) <= r  BY <1>2 DEF ChainInv, RootBefore
  <2>a. Root(r) \in Nat /\ r \in Nat /\ c \in Nat
    BY <1>2, RunIdsAreNat DEF Root, TypeOK, Row
  <2>2. Root(c)' <= c
    BY <1>4, <2>1, <2>a
  <2>3. Exists(c)'
    BY <1>1 DEF CreateRun, Exists, TypeOK
  <2> QED BY <1>3, <2>2, <2>3 DEF ChainInv, RootBefore
<1>10. ChainEnds'
  <2> SUFFICES ASSUME NEW a \in RunIds, NEW d \in RunIds,
                      Exists(a)', Exists(d)', Root(a)' = Root(d)', a < d
               PROVE  \E e \in RunIds : run'[e].parent = a
    BY DEF ChainEnds
  <2>1. a # c
    BY <1>3, RunIdsAreNat
  <2>2. CASE d = c
    <3>1. Exists(a) /\ Root(a) = Root(r)
      BY <1>3, <1>4, <2>1, <2>2
    <3>2. CASE a = r  BY <1>3, <3>2
    <3>3. CASE r < a  BY <1>2, <1>5, <3>1, <3>3 DEF ChainInv, ChainEnds
    <3>4. CASE a < r
      <4>1. PICK e \in RunIds : run[e].parent = a
        BY <1>2, <3>1, <3>4 DEF ChainInv, ChainEnds
      <4>2. a # 0  BY RunIdsAreNat
      <4> QED BY <1>3, <1>6, <4>1, <4>2
    <3> QED BY <1>2, <3>2, <3>3, <3>4, RunIdsAreNat
  <2>3. CASE d # c
    <3>1. PICK e \in RunIds : run[e].parent = a
      BY <1>3, <2>1, <2>3 DEF ChainInv, ChainEnds
    <3>2. a # 0  BY RunIdsAreNat
    <3> QED BY <1>3, <1>6, <3>1, <3>2
  <2> QED BY <2>2, <2>3
<1> QED BY <1>7, <1>8, <1>9, <1>10 DEF ChainInv

(* The chains stay in order under the hypotheses.                            *)
LEMMA ChainInvariant ==
  ASSUME OneScannerHypotheses
  PROVE  Spec => [](TypeOK /\ RetryInv /\ ChainInv)
<1> DEFINE Scanner == ListsShaped /\ Unstopped /\ FlagHoldsLock /\ ScanAtLeader
<1>1. Init => Scanner /\ ChainInv
  <2> SUFFICES ASSUME Init PROVE Scanner /\ ChainInv  OBVIOUS
  <2>1. FlagHoldsLock /\ Unstopped
    BY TaskFlagInit, SchedulerInvInit DEF SchedulerInv
  <2>2. ListsShaped /\ ScanAtLeader
    BY OneScannerHypotheses DEF Init, NoScan, ListsShaped, ScanAtLeader, Scans, OneScannerHypotheses
  <2>3. \A r \in RunIds : run[r].parent = 0 /\ run[r].origin = 0 /\ ~Exists(r)
    BY DEF Init, Absent, Exists
  <2>4. \A r \in RunIds : r \in Nat /\ Root(r) = r
    BY <2>3, RunIdsAreNat DEF Root
  <2>5. \A s \in Scans : scan[s].due = {} /\ scan[s].todo = {}
    BY DEF Init, NoScan
  <2> QED BY <2>1, <2>2, <2>3, <2>4, <2>5
          DEF ChainInv, UnretriedListed, RetriedOnce, ChainEnds, RootBefore
<1>2. TypeOK /\ Scanner /\ [Next]_vars => Scanner'
  BY OneScannerHypotheses, ListsShapedStep, ScanAtLeaderStep, LeadersStay, TaskFlagStep
  DEF OneScannerHypotheses, SingleLeaderHypotheses
<1>3. TypeOK /\ TypeOK' /\ RetryInv /\ Scanner /\ ChainInv /\ [Next]_vars => ChainInv'
  BY StepKinds, ProgressKeepsChains, FirstAttemptKeepsChains, RetryKeepsChains
<1> QED BY <1>1, <1>2, <1>3, RetryInvInit, RetryInvStep, TaskTypeCorrect, PTL DEF Spec

(* Where no process starts beside the leader, a failed attempt is retried once, *)
(* across crashes and takeovers: a leader that dies takes its list along, and  *)
(* what its successor selects has no retry.                                 *)
THEOREM AttemptsRetriedOnce ==
  ASSUME OneScannerHypotheses
  PROVE  Spec => []RetriedOnce
<1>1. ChainInv => RetriedOnce  BY DEF ChainInv
<1> QED BY <1>1, ChainInvariant, OneScannerHypotheses, PTL

(* Under the same hypotheses the attempts of a chain never overlap: a chain is a *)
(* line, only its latest run can execute.                                    *)
THEOREM ChainsExclusive ==
  ASSUME OneScannerHypotheses
  PROVE  Spec => []ChainExclusive
<1>1. TypeOK /\ RetryInv /\ ChainInv => ChainExclusive
  <2> SUFFICES ASSUME TypeOK, RetryInv, ChainInv, NEW q \in RunIds, NEW r \in RunIds,
                      Live(q), Live(r), Root(q) = Root(r)
               PROVE  q = r
    BY DEF ChainExclusive
  <2>1. Exists(q) /\ Exists(r)
    BY DEF RetryInv, AbsentUntouched
  <2>2. \A a \in {q, r} : \A e \in RunIds : run[e].parent # a
    BY DEF RetryInv, RetriedSettled, Repeats, Settled
  <2>3. ~(q < r) /\ ~(r < q)
    BY <2>1, <2>2 DEF ChainInv, ChainEnds
  <2> QED BY <2>3, RunIdsAreNat
<1> QED BY <1>1, ChainInvariant, OneScannerHypotheses, PTL
=============================================================================
