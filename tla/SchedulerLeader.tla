--------------------------- MODULE SchedulerLeader ---------------------------
(***************************************************************************)
(* Election of the scheduler leader (app/scheduler.py, app/sync_runtime.py) *)
(*                                                                         *)
(* Every application process runs an election job.  The process that gets  *)
(* a PostgreSQL session-level advisory lock becomes the leader: it sets a  *)
(* process-global flag and only then loads the periodic jobs.  The flag is *)
(* sticky: no later step looks at the lock again, and the lock lives       *)
(* exactly as long as the database connection.  A stop takes the scheduler *)
(* down first, then gives up the lock, then clears the flag.               *)
(*                                                                         *)
(* A member of Procs is one operating-system process (host:pid, the owner  *)
(* id of the code): a restart of the service is another member that starts.*)
(* The rows of scheduler_heartbeats decide nothing and are left out, but    *)
(* for the fact that writing them may fail.                                *)
(***************************************************************************)
EXTENDS Naturals

CONSTANTS
  Procs,          \* application processes, one per start of the service
  None,           \* the lock is free
  LockEnabled,    \* setting scheduler_leader_lock_enabled
  ConnFaults,     \* may the database drop the leader's idle connection?
  DbFaults,       \* may a statement of a promotion or of a stop fail?
  Crashes,        \* may a process die?
  GracefulStops   \* may a process shut down (its worker threads drain)?

ASSUME LeaderAssumption ==
  /\ None \notin Procs
  /\ {LockEnabled, ConnFaults, DbFaults, Crashes, GracefulStops} \subseteq BOOLEAN

VARIABLES
  proc,     \* proc[p]: where the process is in its life
  lock,     \* holder of the advisory lock, as the database sees it
  leader,   \* leader[p]: the flag _scheduler_is_leader of p
  jobs      \* jobs[p]: the periodic jobs in p's in-memory job store

leaderVars == <<proc, lock, leader, jobs>>

(* "closing": the scheduler is shut down, the lock not yet given up;        *)
(* "released": the lock is given up, the flag not yet cleared; "stopping":  *)
(* the worker threads of the process drain.                                *)
ProcStates == {"new", "up", "closing", "released", "stopping", "down"}

(* "electing": an attempt of the election outlives the shutdown of its      *)
(* process; "loading": the flag is set, the jobs are not loaded; "looking": *)
(* they are, but missed occurrences have not been looked for; "lost": the   *)
(* process has the lock and will not schedule, since its promotion raised,  *)
(* its stop raised before the unlock, or it was elected after its stop.     *)
JobStates == {"none", "electing", "loading", "looking", "loaded", "lost"}

LeaderTypeOK ==
  /\ proc \in [Procs -> ProcStates]
  /\ lock \in Procs \cup {None}
  /\ leader \in [Procs -> BOOLEAN]
  /\ jobs \in [Procs -> JobStates]

(* Worker threads of p can take steps, also while it shuts down.           *)
Alive(p) == proc[p] \in {"up", "closing", "released", "stopping"}

Unlocked(p) == IF lock = p THEN None ELSE lock
-----------------------------------------------------------------------------
LeaderInit(booted) ==
  /\ proc = [p \in Procs |-> IF p \in booted THEN "up" ELSE "new"]
  /\ lock = None
  /\ leader = [p \in Procs |-> FALSE]
  /\ jobs = [p \in Procs |-> "none"]

(* start_scheduler: the election loop is scheduled; the first attempt of    *)
(* the election is Elect below (or nothing, if the lock is taken), as is    *)
(* every later one.                                                        *)
StartScheduler(p) ==
  /\ proc[p] = "new"
  /\ proc' = [proc EXCEPT ![p] = "up"]
  /\ UNCHANGED <<lock, leader, jobs>>

(* Mutant: a name for the state of the jobs that does not exist.            *)
ElectReady(p) ==
  /\ proc[p] = "up" /\ ~leader[p]
  /\ LockEnabled => lock = None
  /\ lock' = IF LockEnabled THEN p ELSE lock
  /\ leader' = [leader EXCEPT ![p] = TRUE]
  /\ jobs' = [jobs EXCEPT ![p] = "ready"]
  /\ UNCHANGED proc

(* _try_become_scheduler_leader, the lock is free (or not in use): the flag *)
(* is assigned before anything is committed.                               *)
Elect(p) ==
  /\ proc[p] = "up" /\ ~leader[p]
  /\ LockEnabled => lock = None
  /\ lock' = IF LockEnabled THEN p ELSE lock
  /\ leader' = [leader EXCEPT ![p] = TRUE]
  /\ jobs' = [jobs EXCEPT ![p] = "loading"]
  /\ UNCHANGED proc

(* The same attempt, in a pool thread of a process that was shut down after *)
(* the attempt had seen the flag unset.  What it loads into the stopped     *)
(* scheduler never fires; a lock taken before the unlock is given up there. *)
ElectLate(p) ==
  /\ proc[p] \in {"closing", "released", "stopping"} /\ jobs[p] = "electing"
  /\ IF LockEnabled => lock = None
     THEN /\ lock' = IF LockEnabled THEN p ELSE lock
          /\ leader' = [leader EXCEPT ![p] = TRUE]
          /\ jobs' = [jobs EXCEPT ![p] = IF proc[p] = "closing" THEN "none" ELSE "lost"]
     ELSE /\ jobs' = [jobs EXCEPT ![p] = "none"]
          /\ UNCHANGED <<lock, leader>>
  /\ UNCHANGED proc

(* The rest of the call: heartbeat committed, reload_jobs ...              *)
LoadJobs(p) ==
  /\ proc[p] = "up" /\ jobs[p] = "loading"
  /\ jobs' = [jobs EXCEPT ![p] = "looking"]
  /\ UNCHANGED <<proc, lock, leader>>

(* ... and, with the jobs running already, the look for missed occurrences; *)
(* if that raises, the jobs stay loaded.                                   *)
LookForMissed(p) ==
  /\ proc[p] = "up" /\ jobs[p] = "looking"
  /\ jobs' = [jobs EXCEPT ![p] = "loaded"]
  /\ UNCHANGED <<proc, lock, leader>>

(* The first part raises instead: the election job logs the exception, and  *)
(* its next attempt returns at once because the flag is set.               *)
FailPromotion(p) ==
  /\ DbFaults
  /\ proc[p] = "up" /\ jobs[p] = "loading"
  /\ jobs' = [jobs EXCEPT ![p] = "lost"]
  /\ UNCHANGED <<proc, lock, leader>>

(* reload_jobs called by a settings endpoint: nothing unless this process   *)
(* has the flag; it also loads the jobs a failed promotion left out.       *)
ReloadJobs(p) ==
  /\ proc[p] = "up" /\ leader[p]
  /\ jobs[p] = "lost"
  /\ jobs' = [jobs EXCEPT ![p] = "loaded"]
  /\ UNCHANGED <<proc, lock, leader>>

(* The leader's dedicated connection is lost; PostgreSQL releases the lock. *)
DropConnection(p) ==
  /\ ConnFaults
  /\ lock = p
  /\ lock' = None
  /\ UNCHANGED <<proc, leader, jobs>>

(* Mutant: the lock is given up before the scheduler is shut down.         *)
ShutDownLate(p) ==
  /\ GracefulStops
  /\ proc[p] = "up"
  /\ lock' = Unlocked(p)
  /\ UNCHANGED <<proc, leader, jobs>>

(* stop_scheduler, one step for each of its effects.  shutdown(wait=False)  *)
(* drops the jobs; what is left of a promotion has no effect, but an        *)
(* attempt of the election may be on its way.                              *)
ShutDown(p) ==
  /\ GracefulStops
  /\ proc[p] = "up"
  /\ proc' = [proc EXCEPT ![p] = "closing"]
  /\ \E left \in IF leader[p] THEN {"none"} ELSE {"none", "electing"} :
       jobs' = [jobs EXCEPT ![p] = left]
  /\ UNCHANGED <<lock, leader>>

(* Mutant: the lock connection is not released.                            *)
UnlockNothing(p) ==
  /\ proc[p] = "closing"
  /\ proc' = [proc EXCEPT ![p] = "released"]
  /\ UNCHANGED <<lock, leader, jobs>>

(* The heartbeat is committed and release_scheduler_leader unlocks.        *)
Unlock(p) ==
  /\ proc[p] = "closing"
  /\ proc' = [proc EXCEPT ![p] = "released"]
  /\ lock' = Unlocked(p)
  /\ UNCHANGED <<leader, jobs>>

(* The heartbeat's commit raises: the lock stays, the flag is cleared.     *)
FailUnlock(p) ==
  /\ DbFaults
  /\ proc[p] = "closing"
  /\ proc' = [proc EXCEPT ![p] = "stopping"]
  /\ leader' = [leader EXCEPT ![p] = FALSE]
  /\ jobs' = [jobs EXCEPT ![p] = IF lock = p THEN "lost" ELSE @]
  /\ UNCHANGED lock

(* The finally clause of stop_scheduler.                                   *)
ClearFlag(p) ==
  /\ proc[p] = "released"
  /\ proc' = [proc EXCEPT ![p] = "stopping"]
  /\ leader' = [leader EXCEPT ![p] = FALSE]
  /\ UNCHANGED <<lock, jobs>>

(* The process dies, or ends after a shutdown: its connections close.      *)
Crash(p) ==
  /\ Crashes
  /\ Alive(p)
  /\ proc' = [proc EXCEPT ![p] = "down"]
  /\ lock' = Unlocked(p)
  /\ leader' = [leader EXCEPT ![p] = FALSE]
  /\ jobs' = [jobs EXCEPT ![p] = "none"]

StopStep(p) == Unlock(p) \/ FailUnlock(p) \/ ClearFlag(p) \/ ElectLate(p)

LeaderStep(p) ==
  \/ StartScheduler(p)
  \/ Elect(p)
  \/ LoadJobs(p)
  \/ LookForMissed(p)
  \/ FailPromotion(p)
  \/ ReloadJobs(p)
  \/ DropConnection(p)
  \/ ShutDown(p)
  \/ StopStep(p)
  \/ Crash(p)

LeaderNext == \E p \in Procs : LeaderStep(p)

LeaderSpec == LeaderInit({}) /\ [][LeaderNext]_leaderVars

(* A running process keeps running its election job and the promotion it    *)
(* started, and one that stops goes on to the end of stop_scheduler; nothing *)
(* makes a process start, stop, crash or be reconfigured.                  *)
LeaderFairness ==
  \A p \in Procs :
    /\ WF_leaderVars(Elect(p)) /\ WF_leaderVars(LoadJobs(p))
    /\ WF_leaderVars(StopStep(p))

FairLeaderSpec == LeaderSpec /\ LeaderFairness
-----------------------------------------------------------------------------
(* The process takes itself for the leader.  Between its unlock and the end *)
(* of stop_scheduler it still has the flag, with its scheduler shut down.   *)
Leads(p) == leader[p] /\ proc[p] # "released"

(* Two processes never take themselves for the leader at the same time,     *)
(* whatever the order of elections, stops and crashes: the advisory lock    *)
(* decides, and a process gives it up only after its scheduler is shut down *)
(* (the code's own protection against running a job twice).                *)
AtMostOneLeader == \A p, q \in Procs : Leads(p) /\ Leads(q) => p = q

(* Whoever holds the lock is a running process that has the flag and loads  *)
(* or has loaded the jobs, or is about to give it up; but for the cases of  *)
(* "lost" no dead, stopped or half-promoted process can keep every other    *)
(* one from scheduling.                                                    *)
LockHolderSchedules ==
  \A p \in Procs : lock = p =>
    \/ proc[p] = "up" /\ leader[p] /\ jobs[p] \in {"loading", "looking", "loaded"}
    \/ proc[p] = "closing"
    \/ jobs[p] = "lost"

(* Always again some process has the periodic jobs loaded, or no process is *)
(* running that could have, or the lock is in the hands of one that will not *)
(* schedule: after the leader stops or dies, another one takes over.       *)
SchedulingResumes ==
  []<>(\/ \E p \in Procs : jobs[p] \in {"looking", "loaded"}
       \/ \A p \in Procs : proc[p] # "up"
       \/ lock # None /\ jobs[lock] = "lost")
=============================================================================
