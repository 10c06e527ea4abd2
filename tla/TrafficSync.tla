------------------------------ MODULE TrafficSync ------------------------------
(***************************************************************************)
(* Collection of the accounts' traffic figures for one period                *)
(* (app/traffic_analytics.py): a daily and a retry job of the scheduler's      *)
(* leader and the syncs users start, rows of traffic_sync_runs, and the service's *)
(* processes, each of which declares every unfinished run interrupted when it    *)
(* starts.  The accounts belong to one platform, so a thread takes them in turn. *)
(***************************************************************************)
EXTENDS Naturals, Sequences, FiniteSets

CONSTANTS
  Accounts,      \* the platform's enabled accounts
  TrafficProcs,  \* processes of the service
  Served,        \* those that users' requests reach
  AttemptLimit,  \* MAX_SCHEDULED_TRAFFIC_ATTEMPTS_PER_PERIOD
  MaxTraffic,    \* bound on the rows
  MaxStops,      \* bound on the deaths of processes
  MaxLost        \* bound on the database errors that leave a run unrecorded

ASSUME TrafficAssumption ==
  /\ IsFiniteSet(Accounts) /\ Served \subseteq TrafficProcs
  /\ {AttemptLimit, MaxTraffic, MaxStops, MaxLost} \subseteq Nat

(* One thread of the scheduler and one request at a time in each process.       *)
Collectors == (TrafficProcs \X {"scheduler"}) \cup (Served \X {"user"})

VARIABLES
  collection,  \* traffic_sync_runs of the period, in the order of their ids
  collector,   \* collector[t]: what thread t has looked up or still has to run
  alive,       \* running processes
  chief,       \* the process that leads the scheduler
  stops,       \* deaths so far
  unrecorded,  \* runs that a database error has left as they were
  mixed        \* have two threads looked at one time, or has a process started
               \* while another one's thread was collecting?

trafficVars == <<collection, collector, alive, chief, stops, unrecorded, mixed>>

Unfinished == {"pending", "running"}
Finished == {"success", "partial_success", "failed"}   \* failed: also timed_out

(* chosen: accounts to insert a run for; queue: runs to execute.             *)
AtRest == [pc |-> "idle", chosen |-> {}, queue |-> <<>>]

TrafficTypeOK ==
  /\ collection \in Seq([account : Accounts, by : {"scheduler", "user"},
                         status : Unfinished \cup Finished])
  /\ Len(collection) <= MaxTraffic
  /\ \A t \in Collectors :
       /\ collector[t].pc \in {"idle", "insert", "load", "next", "collect"}
       /\ collector[t].chosen \subseteq Accounts
       /\ \A k \in DOMAIN collector[t].queue : collector[t].queue[k] \in DOMAIN collection
  /\ alive \subseteq TrafficProcs /\ chief \in TrafficProcs
  /\ stops \in 0..MaxStops /\ unrecorded \subseteq 1..MaxTraffic /\ mixed \in BOOLEAN

TrafficInit ==
  /\ collection = <<>>
  /\ collector = [t \in Collectors |-> AtRest]
  /\ alive = TrafficProcs /\ chief \in TrafficProcs
  /\ stops = 0 /\ unrecorded = {} /\ mixed = FALSE

RunsOf(a) == {i \in DOMAIN collection : collection[i].account = a}
-----------------------------------------------------------------------------
(* Mutant: a run that waits in its queue does not count.                     *)
ActiveRunning(a) == \E i \in RunsOf(a) : collection[i].status = "running"

Active(a) == \E i \in RunsOf(a) : collection[i].status \in Unfinished

Synchronised(a) ==
  \E i \in RunsOf(a) : /\ \A j \in RunsOf(a) : j <= i
                       /\ collection[i].status = "success"

Exhausted(a) ==
  Cardinality({i \in RunsOf(a) : collection[i].by = "scheduler"}) >= AttemptLimit

(* create_traffic_sync_runs, its reads: an account with an unfinished run is      *)
(* left alone; the scheduler also skips one whose latest run of the period was   *)
(* a success, and one it has tried often enough (run_scheduled_traffic_sync).    *)
LookUp(t) ==
  /\ t[1] \in alive /\ collector[t].pc = "idle"
  /\ t[2] = "scheduler" => t[1] = chief
  /\ \E asked \in SUBSET Accounts :
       LET chosen == {a \in asked : ~Active(a) /\ (t[2] = "scheduler" =>
                                                     ~Synchronised(a) /\ ~Exhausted(a))} IN
       /\ t[2] = "scheduler" => asked = Accounts
       /\ chosen # {}
       /\ collector' = [collector EXCEPT ![t] = [AtRest EXCEPT !.pc = "insert",
                                                               !.chosen = chosen]]
  /\ mixed' = (mixed \/ \E u \in Collectors : collector[u].pc = "insert")
  /\ UNCHANGED <<collection, alive, chief, stops, unrecorded>>

(* Its commit; the ids are given to the thread that executes them.             *)
InsertRuns(t) ==
  /\ collector[t].pc = "insert"
  /\ Len(collection) + Cardinality(collector[t].chosen) <= MaxTraffic
  /\ \E order \in [1..Cardinality(collector[t].chosen) -> collector[t].chosen] :
       /\ \A j, k \in DOMAIN order : order[j] = order[k] => j = k
       /\ collection' = collection \o
            [k \in DOMAIN order |-> [account |-> order[k], by |-> t[2], status |-> "pending"]]
       /\ collector' = [collector EXCEPT ![t] =
            [AtRest EXCEPT !.pc = "load",
                           !.queue = [k \in DOMAIN order |-> Len(collection) + k]]]
  /\ UNCHANGED <<alive, chief, stops, unrecorded, mixed>>

(* _run_traffic_sync_runs reads the rows of its ids before it runs the first.   *)
LoadRuns(t) ==
  /\ collector[t].pc = "load"
  /\ collector' = [collector EXCEPT ![t].pc = "next"]
  /\ UNCHANGED <<collection, alive, chief, stops, unrecorded, mixed>>

(* That read fails, which ends the thread: all its rows stay pending.          *)
LoseQueue(t) ==
  /\ collector[t].pc = "load" /\ Cardinality(unrecorded) < MaxLost
  /\ unrecorded' = unrecorded \cup
       {collector[t].queue[k] : k \in DOMAIN collector[t].queue}
  /\ collector' = [collector EXCEPT ![t] = AtRest]
  /\ UNCHANGED <<collection, alive, chief, stops, mixed>>

(* _sync_one_run: whatever the row's status is by now.                        *)
BeginRun(t) ==
  /\ collector[t].pc = "next"
  /\ collection' = [collection EXCEPT ![Head(collector[t].queue)].status = "running"]
  /\ collector' = [collector EXCEPT ![t].pc = "collect"]
  /\ UNCHANGED <<alive, chief, stops, unrecorded, mixed>>

(* _run_traffic_sync_runs: the next run of the platform, whatever became of this. *)
Advanced(t) ==
  LET rest == Tail(collector[t].queue) IN
  collector' = [collector EXCEPT ![t] =
    IF rest = <<>> THEN AtRest ELSE [collector[t] EXCEPT !.pc = "next", !.queue = rest]]

(* The figures are replaced and the run ends in one transaction, or it is rolled  *)
(* back and its failure recorded.                                           *)
EndRun(t) ==
  /\ collector[t].pc = "collect"
  /\ \E end \in Finished :
       collection' = [collection EXCEPT ![Head(collector[t].queue)].status = end]
  /\ Advanced(t)
  /\ UNCHANGED <<alive, chief, stops, unrecorded, mixed>>

(* The record of the failure fails as well: the row stays as it is.            *)
LoseRecord(t) ==
  /\ collector[t].pc = "collect" /\ Cardinality(unrecorded) < MaxLost
  /\ unrecorded' = unrecorded \cup {Head(collector[t].queue)}
  /\ Advanced(t)
  /\ UNCHANGED <<collection, alive, chief, stops, mixed>>
-----------------------------------------------------------------------------
StopProcess(p) ==
  /\ p \in alive /\ stops < MaxStops
  /\ alive' = alive \ {p} /\ stops' = stops + 1
  /\ collector' = [t \in Collectors |-> IF t[1] = p THEN AtRest ELSE collector[t]]
  /\ UNCHANGED <<collection, chief, unrecorded, mixed>>

(* Mutant: runs that had not begun are left to be picked up later.            *)
InterruptedRunning == {"running"}
Interrupted == Unfinished

(* startup, mark_interrupted_traffic_runs: every unfinished run, of any process.  *)
StartProcess(p) ==
  /\ p \notin alive
  /\ alive' = alive \cup {p}
  /\ collection' = [i \in DOMAIN collection |->
       IF collection[i].status \in Interrupted
       THEN [collection[i] EXCEPT !.status = "failed"] ELSE collection[i]]
  /\ mixed' = (mixed \/ \E t \in Collectors : collector[t].pc # "idle")
  /\ UNCHANGED <<collector, chief, stops, unrecorded>>

ChangeChief(p) ==
  /\ p \in alive /\ chief \notin alive
  /\ chief' = p
  /\ UNCHANGED <<collection, collector, alive, stops, unrecorded, mixed>>

CollectorStep(t) ==
  \/ InsertRuns(t) \/ LoadRuns(t) \/ LoseQueue(t)
  \/ BeginRun(t) \/ EndRun(t) \/ LoseRecord(t)

TrafficNext ==
  \/ \E t \in Collectors : LookUp(t) \/ CollectorStep(t)
  \/ \E p \in TrafficProcs : StopProcess(p) \/ StartProcess(p) \/ ChangeChief(p)

TrafficSpec == TrafficInit /\ [][TrafficNext]_trafficVars

(* A thread goes on: every call to a platform has its timeout; and the service     *)
(* manager starts a process again that died.                                *)
TrafficFairness ==
  /\ \A t \in Collectors : WF_trafficVars(CollectorStep(t))
  /\ \A p \in TrafficProcs : WF_trafficVars(StartProcess(p))
-----------------------------------------------------------------------------
(* Two threads collect for one account at the same time only if they looked at   *)
(* the same moment, or a process that started has declared a live run           *)
(* interrupted: queued runs of another thread keep an account reserved.         *)
AccountsApart ==
  mixed \/ \A t, u \in Collectors : t # u =>
    {collection[collector[t].queue[k]].account : k \in DOMAIN collector[t].queue} \cap
    {collection[collector[u].queue[k]].account : k \in DOMAIN collector[u].queue} = {}

(* No run stays unfinished, where it would keep its account from being           *)
(* synchronised: also not one whose process died while it waited or ran.  Only     *)
(* one that a database error left waits for the next start of a process: its      *)
(* failure could not be recorded, or its thread could not read its rows.       *)
RunsFinish ==
  \A i \in 1..MaxTraffic :
    LET open == i \in DOMAIN collection /\ collection[i].status \in Unfinished
    IN  open ~> ~open \/ i \in unrecorded
=============================================================================
