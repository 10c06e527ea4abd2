------------------------------- MODULE TaskRuns -------------------------------
(***************************************************************************)
(* Runs of one scheduled task (app/task_runner.py, app/scheduler.py): cron, *)
(* catch-up, manual and retry runs, the pipeline that executes them, the    *)
(* retry scanner, the stale-run watchdog and the manual reprint, on top of  *)
(* the leader election of SchedulerLeader.                                 *)
(*                                                                         *)
(* One step is one database commit.  Whatever a thread read before its     *)
(* commit is kept in the thread's own state (scan, stale, fixing), so that *)
(* other threads can commit in between.  A run's summary, statistics, step  *)
(* log and the task's last_* columns are display data and left out.        *)
(***************************************************************************)
EXTENDS SchedulerLeader, FiniteSets

CONSTANTS
  Booted,         \* processes that are up, their startup scan over, at the start
  MaxRuns,        \* bound: rows of scheduled_task_runs
  RetryCounts,    \* values the setting retry_count may have when a run starts
  RetryInterval,  \* retry_interval_minutes, in ticks
  Timeouts,       \* values the setting timeout_minutes may have
  Batch,          \* rows a retry scan reads at most
  Blockers,       \* due rows of other tasks, disabled or deleted, older than any here
  StaleBuffer,    \* STALE_RUNNING_TASK_BUFFER_SECONDS
  Lookback,       \* SCHEDULED_TASK_CATCHUP_LOOKBACK_MINUTES
  FireTimes,      \* ticks at which the cron expression fires
  MaxTime,        \* bound: the clock stops here
  Overruns,       \* may a blocking pipeline step outlast its timeout and the buffer?
  LaunchFaults,   \* may a retry raise before its row is committed?
  Operators       \* what operators do: a subset of OperatorDeeds

OperatorDeeds == {"run", "toggle", "edit", "reprint"}

ASSUME TaskAssumption ==
  /\ Booted \subseteq Procs
  /\ {MaxRuns, RetryInterval, StaleBuffer, Lookback, MaxTime} \subseteq Nat
  /\ RetryInterval > 0 /\ StaleBuffer > 0
  /\ Timeouts \subseteq Nat \ {0} /\ Timeouts # {}
  /\ Batch \in Nat \ {0} /\ Blockers \in Nat
  /\ RetryCounts \subseteq Nat /\ RetryCounts # {}
  /\ FireTimes \subseteq Nat
  /\ {Overruns, LaunchFaults} \subseteq BOOLEAN
  /\ Operators \subseteq OperatorDeeds
  /\ None \notin Nat

RunIds == 1..MaxRuns

(* process_due_task_retries runs once in every process that starts, leader  *)
(* or not, and as a periodic job of the leader.                            *)
Scans == Procs \X {"startup", "job"}

VARIABLES
  now,      \* the clock
  enabled,  \* column enabled of the task
  timeout,  \* timeout_minutes in its settings
  run,      \* run[r]: row r of scheduled_task_runs
  exec,     \* exec[r]: process whose thread executes run r, or None
  fixing,   \* fixing[r]: process whose request is resuming r after a reprint
  scan,     \* scan[s]: the retry scan s
  stale,    \* stale[p]: runs p's watchdog has read as stale
  cron,     \* cron[p]: the fire time p's cron job has yet to start, or None
  catchup,  \* catchup[p]: fire times p's one-off catch-up jobs stand for
  torn      \* history: occurrences caught up while another job had been handed them

runVars == <<run, exec, fixing>>
taskVars == <<now, enabled, timeout>>
jobVars == <<cron, catchup, torn>>
vars == <<leaderVars, taskVars, runVars, scan, stale, jobVars>>

Modes == {"scheduler", "catchup", "manual", "retry"}
Statuses == {"absent", "running", "success", "failed", "waiting_retry", "retrying"}

(* parent, origin: parent_run_id, original_run_id (0 is NULL).  The others   *)
(* are not columns.  slot: the occurrence of the cron expression the run was *)
(* started for; limit: the timeout its thread was given; cut (history): the *)
(* task's timeout was made shorter than that while the thread was alive;    *)
(* dropped (history): a claim of this run was lost.                        *)
Row == [status : Statuses, mode : Modes, attempt : Nat, maxRetry : Nat,
        parent : {0} \cup RunIds, origin : {0} \cup RunIds,
        retryAt : Nat \cup {None}, startedAt : Nat, slot : Nat \cup {None},
        limit : Nat, cut : BOOLEAN, dropped : BOOLEAN]

Absent == [status |-> "absent", mode |-> "manual", attempt |-> 0, maxRetry |-> 0,
           parent |-> 0, origin |-> 0, retryAt |-> None, startedAt |-> 0,
           slot |-> None, limit |-> 0, cut |-> FALSE, dropped |-> FALSE]

Scan == [pc : {"ready", "read", "work", "over"},
         due : SUBSET RunIds, todo : SUBSET RunIds, child : {0} \cup RunIds]
NoScan(pc) == [pc |-> pc, due |-> {}, todo |-> {}, child |-> 0]

TypeOK ==
  /\ LeaderTypeOK
  /\ now \in Nat
  /\ enabled \in BOOLEAN
  /\ timeout \in Timeouts
  /\ run \in [RunIds -> Row]
  /\ exec \in [RunIds -> Procs \cup {None}]
  /\ fixing \in [RunIds -> Procs \cup {None}]
  /\ scan \in [Scans -> Scan]
  /\ stale \in [Procs -> SUBSET RunIds]
  /\ cron \in [Procs -> Nat \cup {None}]
  /\ catchup \in [Procs -> SUBSET Nat]
  /\ torn \subseteq Nat

Exists(r) == run[r].status # "absent"
Live(r) == exec[r] # None
Root(r) == IF run[r].origin # 0 THEN run[r].origin ELSE r
(* Mutant: the watchdog does not wait for the buffer.                      *)
OverdueUnbuffered(r) == run[r].startedAt + timeout <= now

(* The watchdog reads the timeout the task has now, which need not be the    *)
(* one the run was started with.                                           *)
Overdue(r) == run[r].startedAt + timeout + StaleBuffer <= now

Loaded(p) == proc[p] = "up" /\ jobs[p] \in {"looking", "loaded"}
-----------------------------------------------------------------------------
Init ==
  /\ LeaderInit(Booted)
  /\ now = 0
  /\ enabled = TRUE
  /\ timeout \in Timeouts
  /\ run = [r \in RunIds |-> Absent]
  /\ exec = [r \in RunIds |-> None]
  /\ fixing = [r \in RunIds |-> None]
  /\ scan = [s \in Scans |-> NoScan(IF s[2] = "startup" /\ s[1] \in Booted
                                    THEN "over" ELSE "ready")]
  /\ stale = [p \in Procs |-> {}]
  /\ cron = [p \in Procs |-> None]
  /\ catchup = [p \in Procs |-> {}]
  /\ torn = {}

(* _create_run in process p: the next id, status running, its own commit;   *)
(* the pipeline of r then executes in the same thread.                     *)
CreateRun(p, r, mode, attempt, parent, origin, slot) ==
  /\ ~Exists(r)
  /\ \A q \in RunIds : q < r => Exists(q)
  /\ \E m \in RetryCounts :
       run' = [run EXCEPT ![r] =
         [status |-> "running", mode |-> mode, attempt |-> attempt,
          maxRetry |-> m, parent |-> parent, origin |-> origin,
          retryAt |-> None, startedAt |-> now, slot |-> slot,
          limit |-> timeout, cut |-> FALSE, dropped |-> FALSE]]
  /\ exec' = [exec EXCEPT ![r] = p]
  /\ UNCHANGED fixing

(* Mutant: no max_instances.                                               *)
CronNeverBusy(p) == FALSE

(* max_instances = 1: p's scheduler does not start its cron job while the   *)
(* previous run of that job still executes in p.                           *)
CronBusy(p) ==
  \E r \in RunIds : exec[r] = p /\ run[r].mode = "scheduler"

(* _run_custom_task; a disabled task is skipped without a run.             *)
FireCron(p) ==
  /\ Alive(p) /\ cron[p] # None
  /\ cron' = [cron EXCEPT ![p] = None]
  /\ IF enabled /\ ~CronBusy(p)
     THEN \E r \in RunIds : CreateRun(p, r, "scheduler", 0, 0, 0, cron[p])
     ELSE UNCHANGED runVars
  /\ UNCHANGED <<leaderVars, taskVars, scan, stale, catchup, torn>>

(* _run_catchup_task: a job of its own, so max_instances does not relate it *)
(* to the cron job or to other catch-up jobs.                              *)
FireCatchup(p) ==
  /\ Alive(p)
  /\ \E f \in catchup[p] :
       /\ catchup' = [catchup EXCEPT ![p] = @ \ {f}]
       /\ IF enabled
          THEN \E r \in RunIds : CreateRun(p, r, "catchup", 0, 0, 0, f)
          ELSE UNCHANGED runVars
  /\ UNCHANGED <<leaderVars, taskVars, scan, stale, cron, torn>>

(* run_scheduled_task_now: any process, and a disabled task runs as well.  *)
RunManually(p) ==
  /\ "run" \in Operators
  /\ proc[p] = "up"
  /\ \E r \in RunIds : CreateRun(p, r, "manual", 0, 0, 0, None)
  /\ UNCHANGED <<leaderVars, taskVars, scan, stale, jobVars>>
-----------------------------------------------------------------------------
(* _finish_run(status="success"): the row is written whatever it holds now. *)
Succeed(r) ==
  /\ Live(r)
  /\ run' = [run EXCEPT ![r].status = "success"]
  /\ exec' = [exec EXCEPT ![r] = None]
  /\ UNCHANGED <<leaderVars, taskVars, fixing, scan, stale, jobVars>>

(* Mutants: one retry too many; a status of its own for the timeout.       *)
AfterFailureOneMore(row) ==
  IF row.attempt <= row.maxRetry
  THEN [row EXCEPT !.status = "waiting_retry", !.retryAt = now + RetryInterval]
  ELSE [row EXCEPT !.status = "failed"]

AfterFailureTimeout(row) == [row EXCEPT !.status = "timeout"]

AfterFailure(row) ==
  IF row.attempt < row.maxRetry
  THEN [row EXCEPT !.status = "waiting_retry", !.retryAt = now + RetryInterval]
  ELSE [row EXCEPT !.status = "failed"]

(* Mutant: the timeout writes the row but does not end the pipeline.       *)
FailUncancelled(r) ==
  /\ Live(r)
  /\ run' = [run EXCEPT ![r] = AfterFailure(@)]
  /\ UNCHANGED <<leaderVars, taskVars, exec, fixing, scan, stale, jobVars>>

(* The two except branches of run_scheduled_task: any exception, a label    *)
(* that was not printed, or the timeout of wait_for.                       *)
Fail(r) ==
  /\ Live(r)
  /\ run' = [run EXCEPT ![r] = AfterFailure(@)]
  /\ exec' = [exec EXCEPT ![r] = None]
  /\ UNCHANGED <<leaderVars, taskVars, fixing, scan, stale, jobVars>>
-----------------------------------------------------------------------------
(* The outcome cannot be written: the thread ends and the row stays running. *)
EndUnrecorded(r) ==
  /\ DbFaults
  /\ Live(r)
  /\ exec' = [exec EXCEPT ![r] = None]
  /\ UNCHANGED <<leaderVars, taskVars, run, fixing, scan, stale, jobVars>>
-----------------------------------------------------------------------------
WaitsForRetry(r) ==
  run[r].status = "waiting_retry" /\ run[r].retryAt # None /\ run[r].retryAt <= now

IsAhead(q, r) ==
  /\ WaitsForRetry(q)
  /\ \/ run[q].retryAt < run[r].retryAt
     \/ run[q].retryAt = run[r].retryAt /\ q < r

(* process_due_task_retries.  The first Batch due rows of all tasks are       *)
(* selected without a lock; those of disabled or deleted tasks are skipped  *)
(* and stay due, so that they are among the first again ...                *)
DueRetries ==
  {r \in RunIds :
     WaitsForRetry(r)
       /\ Blockers + Cardinality({q \in RunIds : IsAhead(q, r)}) < Batch}

(* Mutant: the retry job was forgotten, only the startup scan is left.     *)
ScanReadAtStartup(s) ==
  /\ scan[s].pc = "ready" /\ s[2] = "startup"
  /\ proc[s[1]] = "up"
  /\ scan' = [scan EXCEPT ![s] = IF DueRetries = {} THEN NoScan("over")
                                 ELSE [NoScan("read") EXCEPT !.due = DueRetries]]
  /\ UNCHANGED <<leaderVars, taskVars, runVars, stale, jobVars>>

ScanRead(s) ==
  /\ scan[s].pc = "ready"
  /\ proc[s[1]] = "up"
  /\ s[2] = "job" => Loaded(s[1])
  /\ IF DueRetries = {}
     THEN s[2] = "startup" /\ scan' = [scan EXCEPT ![s] = NoScan("over")]
     ELSE scan' = [scan EXCEPT ![s] = [NoScan("read") EXCEPT !.due = DueRetries]]
  /\ UNCHANGED <<leaderVars, taskVars, runVars, stale, jobVars>>

(* Mutant: the claim does not take the rows out of waiting_retry.          *)
ScanClaimUnmarked(s) ==
  /\ Alive(s[1]) /\ scan[s].pc = "read"
  /\ scan' = [scan EXCEPT ![s] = [NoScan("work") EXCEPT
                                    !.todo = IF enabled THEN scan[s].due ELSE {}]]
  /\ UNCHANGED <<leaderVars, taskVars, runVars, stale, jobVars>>

Claimed(row) == [row EXCEPT !.status = "retrying", !.retryAt = None]

(* ... and all of them are claimed in one commit, by primary key only, if   *)
(* the task is (still) enabled.                                            *)
ScanClaim(s) ==
  /\ Alive(s[1]) /\ scan[s].pc = "read"
  /\ LET claimed == IF enabled THEN scan[s].due ELSE {}
     IN  /\ run' = [r \in RunIds |->
                      IF r \in claimed
                      THEN Claimed(run[r]) ELSE run[r]]
         /\ scan' = [scan EXCEPT ![s] = [NoScan("work") EXCEPT !.todo = claimed]]
  /\ UNCHANGED <<leaderVars, taskVars, exec, fixing, stale, jobVars>>

(* The claimed runs are retried one after another in the scanning thread.   *)
(* The order within a batch follows next_retry_at; it is left open here.   *)
ScanWaits(s) == scan[s].child # 0 /\ Live(scan[s].child)

ScanLaunch(s) ==
  /\ Alive(s[1]) /\ scan[s].pc = "work" /\ ~ScanWaits(s)
  /\ \E r \in scan[s].todo, c \in RunIds :
       /\ CreateRun(s[1], c, "retry", run[r].attempt + 1, r, Root(r), run[r].slot)
       /\ scan' = [scan EXCEPT ![s].todo = @ \ {r}, ![s].child = c]
  /\ UNCHANGED <<leaderVars, taskVars, stale, jobVars>>

(* run_scheduled_task raises before it has committed the row of the retry;    *)
(* the scan swallows the exception and goes on with the next claim.        *)
ScanSkip(s) ==
  /\ LaunchFaults
  /\ Alive(s[1]) /\ scan[s].pc = "work" /\ ~ScanWaits(s)
  /\ \E r \in scan[s].todo :
       /\ run' = [run EXCEPT ![r].dropped = TRUE]
       /\ scan' = [scan EXCEPT ![s].todo = @ \ {r}, ![s].child = 0]
  /\ UNCHANGED <<leaderVars, taskVars, exec, fixing, stale, jobVars>>

(* Mutant: an exception of one retry ends the whole batch.                 *)
ScanEndEarly(s) ==
  /\ Alive(s[1]) /\ scan[s].pc = "work" /\ ~ScanWaits(s)
  /\ scan' = [scan EXCEPT ![s] = NoScan(IF s[2] = "startup" THEN "over" ELSE "ready")]
  /\ UNCHANGED <<leaderVars, taskVars, runVars, stale, jobVars>>

ScanEnd(s) ==
  /\ Alive(s[1]) /\ scan[s].pc = "work" /\ ~ScanWaits(s)
  /\ scan[s].todo = {}
  /\ scan' = [scan EXCEPT ![s] = NoScan(IF s[2] = "startup" THEN "over" ELSE "ready")]
  /\ UNCHANGED <<leaderVars, taskVars, runVars, stale, jobVars>>
-----------------------------------------------------------------------------
(* mark_stale_scheduled_task_runs in _run_sync_watchdog: the rows are read, *)
StaleRuns == {r \in RunIds : run[r].status = "running" /\ Overdue(r)}

StaleRead(p) ==
  /\ Loaded(p) /\ leader[p] /\ stale[p] = {}
  /\ StaleRuns # {}
  /\ stale' = [stale EXCEPT ![p] = StaleRuns]
  /\ UNCHANGED <<leaderVars, taskVars, runVars, scan, jobVars>>

(* Mutant: a stale run with attempts left is scheduled for a retry.        *)
StaleCommitRearming(p) ==
  /\ Alive(p) /\ stale[p] # {}
  /\ run' = [r \in RunIds |-> IF r \in stale[p] THEN AfterFailure(run[r]) ELSE run[r]]
  /\ stale' = [stale EXCEPT ![p] = {}]
  /\ UNCHANGED <<leaderVars, taskVars, exec, fixing, scan, jobVars>>

(* and committed at the end of the watchdog's transaction.  next_retry_at   *)
(* was NULL when read, so the ORM does not write that column.              *)
StaleCommit(p) ==
  /\ Alive(p) /\ stale[p] # {}
  /\ run' = [r \in RunIds |-> IF r \in stale[p]
                               THEN [run[r] EXCEPT !.status = "failed"]
                               ELSE run[r]]
  /\ stale' = [stale EXCEPT ![p] = {}]
  /\ UNCHANGED <<leaderVars, taskVars, exec, fixing, scan, jobVars>>
-----------------------------------------------------------------------------
(* _retry_run_order_rows_print: an operator had a label PDF of run r printed *)
(* again, and the run is no success yet; the request goes on to resume the  *)
(* run (purchase, picking) before it writes the row.  Whether r has PDFs is *)
(* not tracked here.                                                       *)
Reprint(p, r) ==
  /\ "reprint" \in Operators
  /\ proc[p] = "up" /\ fixing[r] = None
  /\ run[r].status \notin {"absent", "success"}
  /\ fixing' = [fixing EXCEPT ![r] = p]
  /\ UNCHANGED <<leaderVars, taskVars, run, exec, scan, stale, jobVars>>

Resumed(row) == [row EXCEPT !.status = "success", !.retryAt = None]

(* _resume_run_after_manual_reprint, last commit: the run becomes a success, *)
(* or, with other labels still to reprint, only its summary changes.       *)
ResumeAfterReprint(r) ==
  /\ fixing[r] # None
  /\ fixing' = [fixing EXCEPT ![r] = None]
  /\ \/ run' = [run EXCEPT ![r] = Resumed(@)]
     \/ UNCHANGED run
  /\ UNCHANGED <<leaderVars, taskVars, exec, scan, stale, jobVars>>

(* toggle_scheduled_task, update_scheduled_task.                           *)
ToggleTask ==
  /\ "toggle" \in Operators
  /\ enabled' = ~enabled
  /\ UNCHANGED <<leaderVars, now, timeout, runVars, scan, stale, jobVars>>

(* update_scheduled_task with another timeout_minutes.                     *)
EditTimeout ==
  /\ "edit" \in Operators
  /\ \E t \in Timeouts \ {timeout} :
       /\ timeout' = t
       /\ run' = [r \in RunIds |-> IF Live(r) /\ t < run[r].limit
                                    THEN [run[r] EXCEPT !.cut = TRUE]
                                    ELSE run[r]]
  /\ UNCHANGED <<leaderVars, now, enabled, exec, fixing, scan, stale, jobVars>>
-----------------------------------------------------------------------------
(* Mutant: no look at the runs created since the occurrence.               *)
RecentFires == {f \in FireTimes : f <= now /\ now <= f + Lookback}

(* _schedule_recent_missed_cron_tasks: occurrences of the last Lookback     *)
(* ticks since which no run at all was created.                            *)
MissedFires ==
  {f \in FireTimes : /\ f <= now /\ now <= f + Lookback
                     /\ \A r \in RunIds : Exists(r) => run[r].startedAt < f}

(* Occurrences some job has been handed but not yet committed a run for.    *)
Handed == {cron[p] : p \in Procs} \cup UNION {catchup[p] : p \in Procs}

(* The jobs are loaded already, and those of an earlier leader may still be  *)
(* under way: an occurrence they were handed is taken for missed.          *)
CatchUp(p) ==
  /\ LookForMissed(p)
  /\ \E found \in IF DbFaults THEN SUBSET MissedFires ELSE {MissedFires} :
       /\ catchup' = [catchup EXCEPT ![p] = IF enabled THEN found ELSE {}]
       /\ torn' = torn \cup (catchup'[p] \cap Handed)
  /\ UNCHANGED <<taskVars, runVars, scan, stale, cron>>

(* Steps of the election that touch no run.                                *)
ElectionStep(p) ==
  \/ StartScheduler(p) \/ Elect(p) \/ LoadJobs(p) \/ FailPromotion(p)
  \/ ReloadJobs(p) \/ DropConnection(p) \/ StopStep(p)

ElectLeader(p) ==
  /\ ElectionStep(p)
  /\ UNCHANGED <<taskVars, runVars, scan, stale, jobVars>>

(* shutdown(wait=False): jobs already handed to the thread pool still run. *)
Stop(p) ==
  /\ ShutDown(p)
  /\ UNCHANGED <<taskVars, runVars, scan, stale, jobVars>>

(* A crash takes the process's threads and in-memory jobs with it.         *)
Kill(p) ==
  /\ Crash(p)
  /\ exec' = [r \in RunIds |-> IF exec[r] = p THEN None ELSE exec[r]]
  /\ fixing' = [r \in RunIds |-> IF fixing[r] = p THEN None ELSE fixing[r]]
  /\ scan' = [s \in Scans |-> IF s[1] = p THEN NoScan("over") ELSE scan[s]]
  /\ stale' = [stale EXCEPT ![p] = {}]
  /\ cron' = [cron EXCEPT ![p] = None]
  /\ catchup' = [catchup EXCEPT ![p] = {}]
  /\ run' = [r \in RunIds |-> IF \E s \in Scans : s[1] = p /\ r \in scan[s].todo
                               THEN [run[r] EXCEPT !.dropped = TRUE]
                               ELSE run[r]]
  /\ UNCHANGED <<taskVars, torn>>

(* Time passes.  A cron or one-off job not started by then is dropped       *)
(* (misfire_grace_time), and unless Overruns every pipeline has come to an  *)
(* await after its timeout, and so ended, before it counts as stale.       *)
Tick ==
  /\ now < MaxTime
  /\ Overruns \/ \A r \in RunIds : Live(r) =>
                    now + 1 < run[r].startedAt + run[r].limit + StaleBuffer
  /\ now' = now + 1
  /\ cron' = [p \in Procs |-> IF Loaded(p) /\ now' \in FireTimes THEN now' ELSE None]
  /\ catchup' = [p \in Procs |-> {}]
  /\ UNCHANGED <<leaderVars, enabled, timeout, runVars, scan, stale, torn>>
-----------------------------------------------------------------------------
ProcessStep(p) ==
  \/ FireCron(p) \/ FireCatchup(p) \/ RunManually(p)
  \/ StaleRead(p) \/ StaleCommit(p)
  \/ ElectLeader(p) \/ CatchUp(p) \/ Stop(p) \/ Kill(p)

RunStep(r) ==
  \/ Succeed(r) \/ Fail(r) \/ EndUnrecorded(r) \/ ResumeAfterReprint(r)
  \/ \E p \in Procs : Reprint(p, r)

ScanStep(s) ==
  ScanRead(s) \/ ScanClaim(s) \/ ScanLaunch(s) \/ ScanSkip(s) \/ ScanEnd(s)

Next ==
  \/ \E p \in Procs : ProcessStep(p)
  \/ \E r \in RunIds : RunStep(r)
  \/ \E s \in Scans : ScanStep(s)
  \/ ToggleTask \/ EditTimeout
  \/ Tick

Spec == Init /\ [][Next]_vars

(* The scheduler, the pool threads and an executing pipeline keep going; a   *)
(* pipeline ends (it is bounded by its timeout).  Nothing makes operators,  *)
(* crashes or restarts happen.                                             *)
Fairness ==
  /\ \A p \in Procs :
       /\ WF_vars(ElectLeader(p) /\ (Elect(p) \/ LoadJobs(p) \/ StopStep(p)))
       /\ WF_vars(CatchUp(p))
  /\ \A s \in Scans : WF_vars(ScanStep(s))
  /\ \A r \in RunIds : WF_vars(Succeed(r) \/ Fail(r))
  /\ WF_vars(Tick)

FairSpec == Spec /\ Fairness
-----------------------------------------------------------------------------
(* No attempt executes while a retry of it exists: a retry starts only after *)
(* the thread of the attempt it repeats has ended, whatever the watchdog,   *)
(* a second scanner or an operator wrote into the row meanwhile.  Two       *)
(* pipelines over the same orders would print and purchase twice.          *)
RetryAfterAttemptEnded ==
  \A c \in RunIds : run[c].parent # 0 => ~Live(run[c].parent)

(* Every retry extends its chain by one attempt, stays in the budget of the *)
(* attempt it repeats, names the chain's first run as its origin, and the   *)
(* repeated attempt can never be taken up by a later scan again.           *)
ChainShape ==
  \A c \in RunIds : LET r == run[c].parent IN r # 0 =>
    /\ run[c].attempt = run[r].attempt + 1
    /\ run[c].attempt <= run[r].maxRetry
    /\ Root(c) = Root(r) /\ r < c
    /\ run[r].status \notin {"running", "waiting_retry"}

(* A failed attempt is retried at most once.                               *)
RetriedOnce ==
  \A c, d \in RunIds : run[c].parent # 0 /\ run[c].parent = run[d].parent => c = d

(* A chain has as many retries as max_retry_count allows its first run       *)
(* (models.py: the number of additional retries), where the setting does    *)
(* not change in between.                                                  *)
RetryBudget ==
  \A r \in RunIds : Cardinality({c \in RunIds : run[c].origin = r}) <= run[r].maxRetry

(* At most one run of a retry chain executes at any time: the runs of a     *)
(* chain share their orders.                                               *)
ChainExclusive ==
  \A q, r \in RunIds : Live(q) /\ Live(r) /\ Root(q) = Root(r) => q = r

(* The periodic job never overlaps itself, within the leader (max_instances) *)
(* or across a change of leader.                                           *)
OneScheduledRun ==
  \A q, r \in RunIds :
    Live(q) /\ Live(r) /\ run[q].mode = "scheduler" /\ run[r].mode = "scheduler"
      => q = r

(* An occurrence of the cron expression is started at most once, by the cron *)
(* job or as a catch-up of a later leader, unless it was caught up while the *)
(* cron job, loaded before the look for missed occurrences, or a job of an  *)
(* earlier leader was under way with it.                                   *)
OccurrenceOnce ==
  \A q, r \in RunIds :
    {run[q].mode, run[r].mode} \subseteq {"scheduler", "catchup"}
      /\ run[q].slot # None /\ run[q].slot = run[r].slot
      => q = r \/ run[q].slot \in torn

(* The watchdog's verdict only ever meets a run whose thread died and left no *)
(* outcome: it neither decides about a run that executes nor overwrites what *)
(* the thread has written in the meantime, unless an operator shortened the *)
(* timeout under a thread that had been given more.                        *)
VerdictOnDead ==
  [][\A r \in RunIds :
       run[r].status # "failed" /\ run'[r].status = "failed" /\ exec'[r] = exec[r]
         => \/ run[r].status = "running" /\ ~Live(r)
            \/ run[r].cut]_vars

(* A run claimed for retry is not forgotten: until its retry exists, some    *)
(* scanning thread still has it on its list, also in a process that stops.  *)
(* A claim is only lost when a process dies with its list, or when the retry *)
(* raises before its row is committed, which the scan swallows.            *)
ClaimedIsOwned ==
  \A r \in RunIds : run[r].status = "retrying" =>
    \/ \E c \in RunIds : run[c].parent = r
    \/ \E s \in Scans : r \in scan[s].todo
    \/ run[r].dropped

(* A run waiting for its retry is taken up, if the task stays enabled and the *)
(* rows of other tasks that are skipped do not fill a whole batch, unless no *)
(* process is left, the lock is with one that does not schedule, or a bound *)
(* (clock, rows) ends the instance.                                        *)
WaitingRetryTaken ==
  Blockers < Batch /\ <>[]enabled => \A r \in RunIds :
    run[r].status = "waiting_retry" ~>
      \/ run[r].status # "waiting_retry"
      \/ \A p \in Procs : proc[p] # "up"
      \/ lock # None /\ jobs[lock] = "lost"
      \/ now = MaxTime /\ run[r].retryAt > now
      \/ \A q \in RunIds : Exists(q)
=============================================================================
