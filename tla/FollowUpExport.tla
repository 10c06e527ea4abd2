---------------------------- MODULE FollowUpExport ----------------------------
(***************************************************************************)
(* The follow-up export (app/order_follow_up_export.py): every successful   *)
(* pipeline run becomes a job; a worker claims the oldest open job under a  *)
(* lease, plans one export item per order item, writes the shared workbook  *)
(* under an advisory lock by replacing the file, and closes job and orders. *)
(*                                                                         *)
(* Crashes, expired leases, lost lock connections and workers of two        *)
(* overlapping processes are part of it.  One step is one commit, one read  *)
(* that a later commit relies on, or one change of the file.  The purchase  *)
(* plan, artifacts, backups, recalculation and the snapshots are left out:  *)
(* they decide nothing here, except that each may raise (Fail).            *)
(***************************************************************************)
EXTENDS Naturals

CONSTANTS
  Workers,       \* worker threads, one per application process
  None,          \* nobody holds the workbook lock; no job
  Jobs,          \* job ids in the order of their sequence
  Items,         \* order items, each of an order that ships with its export
  MaxAttempts,   \* column max_attempts
  Lease,         \* order_follow_up_export_lease_seconds, in ticks
  RetryDelay,    \* order_follow_up_export_retry_delay_seconds, in ticks
  Dedupe,        \* setting dedupe_existing_workbook
  LateCommits,   \* may a job become visible after one with a higher id?
  Crashes,       \* may a process die, or fail even to record a failure?
  Overruns,      \* may a worker outlast its lease?
  ConnFaults     \* may the connection that holds the workbook lock be lost?

ASSUME ExportAssumption ==
  /\ None \notin Workers \cup Jobs
  /\ Jobs \subseteq Nat
  /\ {MaxAttempts, Lease, RetryDelay} \subseteq Nat \ {0}
  /\ {Dedupe, LateCommits, Crashes, Overruns, ConnFaults} \subseteq BOOLEAN

VARIABLES
  status,    \* status[j]: column status of job j
  attempts,  \* attempts[j]: column attempt_count
  lease,     \* lease[j]: ticks until lease_until has passed
  wait,      \* wait[j]: ticks until next_retry_at
  action,    \* action[j][i]: the action of j's export item for i
  marked,    \* marked[j]: appended and updated items of j with status success
  placed,    \* placed[j]: appended items of j whose worksheet_row is recorded
  shipped,   \* items whose orders were marked shipped
  book,      \* the workbook file: rows each job appended, and its export log
  holder,    \* holder of the advisory lock WORKBOOK_LOCK_KEY
  pc,        \* pc[w]: where worker w is
  job,       \* job[w]: the job it has claimed
  verdict,   \* verdict[w]: what it will make of the expired jobs it has read
  plan,      \* plan[w]: the items it will insert, then those it has read back
  copy,      \* copy[w]: the file it has copied and edits
  logged     \* logged[w]: the items of its job the file logs, from its write

jobVars == <<status, attempts, lease, wait>>
itemVars == <<action, marked, placed, shipped>>
fileVars == <<book, holder>>
workerVars == <<pc, job, verdict, plan, copy, logged>>
vars == <<jobVars, itemVars, fileVars, workerVars>>

Terminal == {"success", "skipped", "failed"}
Statuses == {"absent", "pending", "running", "retry_wait"} \cup Terminal

(* "none": the job has no such item.  "orphan": skipped, and worksheet_row   *)
(* is NULL because the earlier export item has none.                       *)
Plans == [Items -> {"none", "append", "update", "skip", "orphan"}]
Books == [rows : [Jobs -> [Items -> Nat]], log : [Jobs -> SUBSET Items]]

(* Where a worker is while it processes a claimed job.                     *)
Working == {"prepare", "empty", "insert", "lock", "replace", "unlock",
            "finalize", "fail"}

NoPlan == [i \in Items |-> "none"]
NoVerdict == [j \in Jobs |-> "keep"]
EmptyBook == [rows |-> [j \in Jobs |-> [i \in Items |-> 0]],
              log |-> [j \in Jobs |-> {}]]

ExportTypeOK ==
  /\ status \in [Jobs -> Statuses]
  /\ attempts \in [Jobs -> Nat]
  /\ lease \in [Jobs -> 0..Lease]
  /\ wait \in [Jobs -> 0..RetryDelay]
  /\ action \in [Jobs -> Plans]
  /\ marked \in [Jobs -> SUBSET Items]
  /\ placed \in [Jobs -> SUBSET Items]
  /\ shipped \in SUBSET Items
  /\ book \in Books
  /\ holder \in Workers \cup {None}
  /\ pc \in [Workers -> {"idle", "recover"} \cup Working]
  /\ job \in [Workers -> Jobs \cup {None}]
  /\ verdict \in [Workers -> [Jobs -> {"keep", "retry_wait", "failed"}]]
  /\ plan \in [Workers -> Plans]
  /\ copy \in [Workers -> Books]
  /\ logged \in [Workers -> SUBSET Items]
  /\ \A w \in Workers : pc[w] \in Working => job[w] \in Jobs

Prepared(j) == \E i \in Items : action[j][i] # "none"
Writes(p) == {i \in Items : p[i] \in {"append", "update"}}
HasRow(i) == \E j \in Jobs : book.rows[j][i] > 0
Closed(j) == status[j] \in Terminal \cup {"absent"}
-----------------------------------------------------------------------------
Init ==
  /\ status = [j \in Jobs |-> "absent"]
  /\ attempts = [j \in Jobs |-> 0]
  /\ lease = [j \in Jobs |-> 0]
  /\ wait = [j \in Jobs |-> 0]
  /\ action = [j \in Jobs |-> NoPlan]
  /\ marked = [j \in Jobs |-> {}]
  /\ placed = [j \in Jobs |-> {}]
  /\ shipped = {}
  /\ book = EmptyBook
  /\ holder = None
  /\ pc = [w \in Workers |-> "idle"]
  /\ job = [w \in Workers |-> None]
  /\ verdict = [w \in Workers |-> NoVerdict]
  /\ plan = [w \in Workers |-> NoPlan]
  /\ copy = [w \in Workers |-> EmptyBook]
  /\ logged = [w \in Workers |-> {}]

(* enqueue_order_follow_up_export, by the run that succeeded or by the       *)
(* reconciliation at the start of every worker iteration.                  *)
Enqueue(j) ==
  /\ status[j] = "absent"
  /\ LateCommits \/ \A k \in Jobs : k < j => status[k] # "absent"
  /\ status' = [status EXCEPT ![j] = "pending"]
  /\ UNCHANGED <<attempts, lease, wait, itemVars, fileVars, workerVars>>
-----------------------------------------------------------------------------
Goto(w, l) == pc' = [pc EXCEPT ![w] = l]

(* The worker is done with its job and forgets what it has read.           *)
Rest(w) ==
  /\ Goto(w, "idle")
  /\ job' = [job EXCEPT ![w] = None]
  /\ plan' = [plan EXCEPT ![w] = NoPlan]
  /\ copy' = [copy EXCEPT ![w] = EmptyBook]
  /\ logged' = [logged EXCEPT ![w] = {}]
  /\ UNCHANGED verdict

Expired(j) == status[j] = "running" /\ lease[j] = 0

(* Mutant: one attempt too many.                                           *)
AfterAttemptOneMore(j) == IF attempts[j] > MaxAttempts THEN "failed" ELSE "retry_wait"

AfterAttempt(j) == IF attempts[j] >= MaxAttempts THEN "failed" ELSE "retry_wait"

(* _recover_expired_jobs selects the expired jobs without locking them, and *)
(* decides from the attempt counts it has read ...                         *)
RecoverRead(w) ==
  /\ pc[w] = "idle"
  /\ \E j \in Jobs : Expired(j)
  /\ verdict' = [verdict EXCEPT ![w] =
       [j \in Jobs |-> IF Expired(j) THEN AfterAttempt(j) ELSE "keep"]]
  /\ Goto(w, "recover")
  /\ UNCHANGED <<jobVars, itemVars, fileVars, job, plan, copy, logged>>

(* ... and writes them by primary key.                                     *)
RecoverCommit(w) ==
  /\ pc[w] = "recover"
  /\ LET hit == {j \in Jobs : verdict[w][j] # "keep"}
     IN  /\ status' = [j \in Jobs |-> IF j \in hit THEN verdict[w][j] ELSE status[j]]
         /\ lease' = [j \in Jobs |-> IF j \in hit THEN 0 ELSE lease[j]]
         /\ wait' = [j \in Jobs |-> IF j \in hit THEN 0 ELSE wait[j]]
  /\ verdict' = [verdict EXCEPT ![w] = NoVerdict]
  /\ Goto(w, "idle")
  /\ UNCHANGED <<attempts, itemVars, fileVars, job, plan, copy, logged>>

(* Mutants: any open job may be claimed; a job that waits for its retry never. *)
OldestIgnored(j) == ~Closed(j)
DuePending(j) == status[j] = "pending"

(* _claim_next_job: only the oldest job that is not closed can be claimed.  *)
Oldest(j) == ~Closed(j) /\ \A k \in Jobs : k < j => Closed(k)

Due(j) == status[j] = "pending" \/ (status[j] = "retry_wait" /\ wait[j] = 0)

(* Mutant: the lease starts one tick too late.                             *)
ClaimLonger(w) ==
  /\ pc[w] = "idle"
  /\ \E j \in Jobs :
       /\ Oldest(j) /\ Due(j)
       /\ status' = [status EXCEPT ![j] = "running"]
       /\ attempts' = [attempts EXCEPT ![j] = @ + 1]
       /\ lease' = [lease EXCEPT ![j] = Lease + 1]
       /\ job' = [job EXCEPT ![w] = j]
  /\ Goto(w, "prepare")
  /\ UNCHANGED <<wait, itemVars, fileVars, verdict, plan, copy, logged>>

Claim(w) ==
  /\ pc[w] = "idle"
  /\ \E j \in Jobs :
       /\ Oldest(j) /\ Due(j)
       /\ status' = [status EXCEPT ![j] = "running"]
       /\ attempts' = [attempts EXCEPT ![j] = @ + 1]
       /\ lease' = [lease EXCEPT ![j] = Lease]
       /\ job' = [job EXCEPT ![w] = j]
  /\ Goto(w, "prepare")
  /\ UNCHANGED <<wait, itemVars, fileVars, verdict, plan, copy, logged>>
-----------------------------------------------------------------------------
(* Items of earlier jobs that were exported for i: their worksheet_row, if   *)
(* recorded, is where i is; otherwise nobody looks into the workbook.      *)
Priors(j, i) == {k \in Jobs : k < j /\ i \in marked[k] /\ action[k][i] \in {"append", "update"}}

Located(k, i) == action[k][i] = "update" \/ i \in placed[k]

(* Mutant: the rows of the workbook are not looked at.                     *)
ChoicesFromItems(j, i) ==
  UNION {IF Located(k, i) THEN {"update", "skip"} ELSE {"orphan"} : k \in Priors(j, i)}
    \cup (IF Priors(j, i) = {} THEN {"append"} ELSE {})

(* The row is updated (a mapping was missing) or left; a new item is        *)
(* appended unless, with Dedupe, the workbook already shows a row for it.  *)
Choices(j, i) ==
  IF Priors(j, i) # {}
  THEN UNION {IF Located(k, i) THEN {"update", "skip"} ELSE {"orphan"} : k \in Priors(j, i)}
  ELSE IF Dedupe /\ HasRow(i) THEN {"update", "skip"} ELSE {"append"}

(* _prepare_job_items returns the items an earlier attempt has inserted ...  *)
Resume(w) ==
  /\ pc[w] = "prepare"
  /\ IF status[job[w]] # "running"
     THEN Rest(w)
     ELSE /\ Prepared(job[w])
          /\ plan' = [plan EXCEPT ![w] = action[job[w]]]
          /\ Goto(w, "lock")
          /\ UNCHANGED <<job, verdict, copy, logged>>
  /\ UNCHANGED <<jobVars, itemVars, fileVars>>

(* ... or plans the order items of the run as it finds them now.           *)
Prepare(w) ==
  /\ pc[w] = "prepare"
  /\ status[job[w]] = "running" /\ ~Prepared(job[w])
  /\ \E p \in Plans :
       /\ \A i \in Items : p[i] \in {"none"} \cup Choices(job[w], i)
       /\ plan' = [plan EXCEPT ![w] = p]
       /\ Goto(w, IF p = NoPlan THEN "empty" ELSE "insert")
  /\ UNCHANGED <<jobVars, itemVars, fileVars, job, verdict, copy, logged>>

(* The items are committed, and read back.  The unique constraint on (job,   *)
(* item) refuses them when another worker has inserted one of them.        *)
Insert(w) ==
  /\ pc[w] = "insert"
  /\ LET j == job[w]
         clash == \E i \in Items : plan[w][i] # "none" /\ action[j][i] # "none"
     IN  IF clash
         THEN /\ Goto(w, "fail")
              /\ plan' = [plan EXCEPT ![w] = NoPlan]
              /\ UNCHANGED action
         ELSE /\ action' = [action EXCEPT ![j] =
                   [i \in Items |-> IF plan[w][i] # "none" THEN plan[w][i] ELSE @[i]]]
              /\ plan' = [plan EXCEPT ![w] = action'[j]]
              /\ Goto(w, "lock")
  /\ UNCHANGED <<jobVars, marked, placed, shipped, fileVars, job, verdict, copy, logged>>

(* Mutant: the export log is not consulted.                                *)
UnloggedAll(w, file) == Writes(plan[w])

(* The items of w's job that the file does not log yet.                    *)
Unlogged(w, file) == Writes(plan[w]) \ file.log[job[w]]

(* Mutant: the answer of pg_try_advisory_lock is not looked at.            *)
TakeLockUnchecked(w) ==
  /\ pc[w] = "lock"
  /\ holder' = IF holder = None THEN w ELSE holder
  /\ IF Unlogged(w, book) = {}
     THEN /\ logged' = [logged EXCEPT ![w] = book.log[job[w]]]
          /\ Goto(w, "unlock")
          /\ UNCHANGED copy
     ELSE /\ copy' = [copy EXCEPT ![w] = book]
          /\ Goto(w, "replace")
          /\ UNCHANGED logged
  /\ UNCHANGED <<jobVars, itemVars, book, job, verdict, plan>>

(* pg_try_advisory_lock, ExportLockBusy when it is held; with nothing left   *)
(* to write the file is not touched, otherwise it is copied.               *)
TakeLock(w) ==
  /\ pc[w] = "lock"
  /\ \/ /\ holder # None
        /\ Goto(w, "fail")
        /\ UNCHANGED <<holder, copy, logged>>
     \/ /\ holder = None
        /\ holder' = w
        /\ IF Unlogged(w, book) = {}
           THEN /\ logged' = [logged EXCEPT ![w] = book.log[job[w]]]
                /\ Goto(w, "unlock")
                /\ UNCHANGED copy
           ELSE /\ copy' = [copy EXCEPT ![w] = book]
                /\ Goto(w, "replace")
                /\ UNCHANGED logged
  /\ UNCHANGED <<jobVars, itemVars, book, job, verdict, plan>>

(* _write_main_workbook on the copy: a row per appended item, a log entry    *)
(* per written one.                                                        *)
Written(w, file) ==
  LET new == Unlogged(w, file)
      added == {i \in new : plan[w][i] = "append"}
  IN  [rows |-> [file.rows EXCEPT ![job[w]] =
                   [i \in Items |-> IF i \in added THEN @[i] + 1 ELSE @[i]]],
       log |-> [file.log EXCEPT ![job[w]] = @ \cup new]]

(* Mutant: the copy is edited but never replaces the workbook.             *)
ReplaceForgotten(w) ==
  /\ pc[w] = "replace"
  /\ logged' = [logged EXCEPT ![w] = Written(w, copy[w]).log[job[w]]]
  /\ copy' = [copy EXCEPT ![w] = EmptyBook]
  /\ Goto(w, "unlock")
  /\ UNCHANGED <<jobVars, itemVars, book, holder, job, verdict, plan>>

(* os.replace.                                                             *)
Replace(w) ==
  /\ pc[w] = "replace"
  /\ book' = Written(w, copy[w])
  /\ logged' = [logged EXCEPT ![w] = book'.log[job[w]]]
  /\ copy' = [copy EXCEPT ![w] = EmptyBook]
  /\ Goto(w, "unlock")
  /\ UNCHANGED <<jobVars, itemVars, holder, job, verdict, plan>>

Released(w) == IF holder = w THEN None ELSE holder

(* After the purchase plan: the unlock raises on a lost connection.        *)
Unlock(w) ==
  /\ pc[w] = "unlock"
  /\ holder' = Released(w)
  /\ Goto(w, IF holder = w THEN "finalize" ELSE "fail")
  /\ UNCHANGED <<jobVars, itemVars, book, job, verdict, plan, copy, logged>>
-----------------------------------------------------------------------------
(* The three ways to finalize write the row of the job without looking at    *)
(* its status or at who has claimed it.  A success marks all items of the   *)
(* job, and ships those that are confirmed by a worksheet_row.             *)
WriteJob(j, s, delay) ==
  /\ status' = [status EXCEPT ![j] = s]
  /\ lease' = [lease EXCEPT ![j] = 0]
  /\ wait' = [wait EXCEPT ![j] = delay]
  /\ UNCHANGED attempts

FinalizeSuccess(w) ==
  /\ pc[w] = "finalize"
  /\ WriteJob(job[w], "success", 0)
  /\ LET j == job[w]
         written == Writes(action[j])
     IN  /\ marked' = [marked EXCEPT ![j] = @ \cup written]
         /\ placed' = [placed EXCEPT ![j] = @ \cup (written \cap logged[w])]
         /\ shipped' = shipped \cup {i \in Items :
                         \/ action[j][i] \in {"update", "skip"}
                         \/ action[j][i] = "append" /\ i \in placed'[j]}
  /\ Rest(w)
  /\ UNCHANGED <<action, fileVars>>

FinalizeEmpty(w) ==
  /\ pc[w] = "empty"
  /\ WriteJob(job[w], "skipped", 0)
  /\ Rest(w)
  /\ UNCHANGED <<itemVars, fileVars>>

FinalizeFailure(w) ==
  /\ pc[w] = "fail"
  /\ LET s == AfterAttempt(job[w])
     IN  WriteJob(job[w], s, IF s = "failed" THEN 0 ELSE RetryDelay)
  /\ Rest(w)
  /\ UNCHANGED <<itemVars, fileVars>>

(* Any step may raise; the lock is released on the way out.                *)
Fail(w) ==
  /\ pc[w] \in Working \ {"fail"}
  /\ Goto(w, "fail")
  /\ plan' = [plan EXCEPT ![w] = NoPlan]
  /\ copy' = [copy EXCEPT ![w] = EmptyBook]
  /\ logged' = [logged EXCEPT ![w] = {}]
  /\ holder' = Released(w)
  /\ UNCHANGED <<jobVars, itemVars, book, job, verdict>>

(* The process dies and is started again, or the failure could not be       *)
(* recorded.  Dying between the two steps of the recovery is the same as    *)
(* not having read anything, and left out.                                 *)
Crash(w) ==
  /\ Crashes
  /\ pc[w] \in Working
  /\ Rest(w)
  /\ holder' = Released(w)
  /\ UNCHANGED <<jobVars, itemVars, book>>

LoseLock(w) ==
  /\ ConnFaults
  /\ holder = w
  /\ holder' = None
  /\ UNCHANGED <<jobVars, itemVars, book, workerVars>>

(* Time passes; unless Overruns, no worker is still busy when the lease it   *)
(* works under runs out.                                                   *)
Tick ==
  /\ \E j \in Jobs : lease[j] > 0 \/ wait[j] > 0
  /\ Overruns \/ \A w \in Workers : pc[w] \in Working => lease[job[w]] # 1
  /\ lease' = [j \in Jobs |-> IF lease[j] > 0 THEN lease[j] - 1 ELSE 0]
  /\ wait' = [j \in Jobs |-> IF wait[j] > 0 THEN wait[j] - 1 ELSE 0]
  /\ UNCHANGED <<status, attempts, itemVars, fileVars, workerVars>>
-----------------------------------------------------------------------------
Recover(w) == RecoverRead(w) \/ RecoverCommit(w)

Process(w) ==
  \/ Resume(w) \/ Prepare(w) \/ Insert(w)
  \/ TakeLock(w) \/ Replace(w) \/ Unlock(w)
  \/ FinalizeSuccess(w) \/ FinalizeEmpty(w) \/ FinalizeFailure(w)

Next ==
  \/ \E j \in Jobs : Enqueue(j)
  \/ \E w \in Workers : Recover(w) \/ Claim(w) \/ Process(w)
  \/ \E w \in Workers : Fail(w) \/ Crash(w) \/ LoseLock(w)
  \/ Tick

Spec == Init /\ [][Next]_vars

(* The worker loop polls forever and a claimed job is worked through; a      *)
(* step that keeps being possible is taken, raising being one way to take   *)
(* it.  Nothing makes runs succeed or faults happen.                       *)
Fairness ==
  /\ \A w \in Workers :
       WF_vars(Recover(w)) /\ WF_vars(Claim(w)) /\ WF_vars(Process(w) \/ Fail(w))
  /\ WF_vars(Tick)

FairSpec == Spec /\ Fairness
-----------------------------------------------------------------------------
(* A job puts at most one row for an item into the workbook, however often   *)
(* it is retried and however many workers believe they own it.             *)
RowOncePerJob == \A j \in Jobs, i \in Items : book.rows[j][i] <= 1

(* What the database calls exported is in the file: a replaced copy never    *)
(* loses rows that items marked success rely on.                           *)
MarkedHasRow == \A j \in Jobs : \A i \in marked[j] : HasRow(i)

(* An order is marked shipped only when the workbook has a row for it.      *)
ShippedHasRow == \A i \in shipped : HasRow(i)

(* The claim order makes workers exclude each other: with leases that hold,  *)
(* at most one worker in the whole system processes a job.                 *)
OneExecutor ==
  \A v, w \in Workers : pc[v] \in Working /\ pc[w] \in Working => v = w

(* A job is attempted at most MaxAttempts times (models.py: max_attempts).  *)
AttemptsBounded == \A j \in Jobs : attempts[j] <= MaxAttempts

(* The whole promise of ExportQueue: in order, once, shipped after its row.  *)
Queue == INSTANCE ExportQueue WITH
  state <- [j \in Jobs |-> IF status[j] \in {"pending", "running", "retry_wait"}
                           THEN "open" ELSE status[j]],
  ledger <- [i \in Items |-> {j \in Jobs : book.rows[j][i] > 0}]

ImplementsQueue == Queue!QueueSpec

(* Every job that was created comes to an end.                             *)
EveryJobCloses == \A j \in Jobs : status[j] = "pending" ~> status[j] \in Terminal
=============================================================================
