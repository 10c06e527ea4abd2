------------------------------- MODULE OrderSync -------------------------------
(***************************************************************************)
(* Synchronisation of one marketplace account (app/sync_engine.py,           *)
(* app/sync_runtime.py): incremental syncs from a watermark, the watchdog     *)
(* that notices an overdue account, and the catch-up it runs.                *)
(*                                                                         *)
(* One order stands for all: the marketplace changes it, or creates it, and    *)
(* the question is whether a sync still brings that change.  A sync is begun  *)
(* by the periodic job, an operator, or the watchdog's catch-up, in any       *)
(* process: leaders change while jobs run on.  Fetching is one instant, each   *)
(* order is saved by a commit of its own.  An order that has its tracking      *)
(* number and label already is not saved by a sync and is not the one meant.   *)
(***************************************************************************)
EXTENDS Integers

CONSTANTS
  SyncProcs,       \* processes of the service
  Overlap,         \* how far the connector goes back behind the given time
  LookBehind,      \* Mercado's lookback (_effective_order_sync_since), else 0
  CatchupOverlap,  \* sync_catchup_overlap_seconds
  OverdueAfter,    \* twice the interval and sync_overdue_grace_seconds
  MaxWindow,       \* sync_catchup_max_window_seconds
  SyncTime,        \* longest duration of a sync
  MaxClock         \* bound: the clock stops here

ASSUME SyncAssumption ==
  /\ {Overlap, LookBehind, CatchupOverlap, OverdueAfter, MaxWindow, SyncTime, MaxClock}
       \subseteq Nat
  /\ LookBehind <= CatchupOverlap

JobTypes == {"orders", "catchup"}
Syncs == SyncProcs \X JobTypes

VARIABLES
  clock,
  changedAt,   \* time of the order's latest change at the marketplace
  stored,      \* has the shop this latest version?
  lastSync,    \* platform_accounts.last_sync_at
  account,     \* row of sync_account_states with job type sync_orders
  sync,        \* sync[s]: where sync s is and what it fetched
  cut,         \* history: has MaxWindow shortened a catch-up?
  skipped      \* history: has an answer left out the latest change, asked for?

syncVars == <<clock, changedAt, stored, lastSync, account, sync, cut, skipped>>

(* got: the version of the order in the answer.  beside: history, has a sync   *)
(* of another process run at the same time?                                *)
Resting == [pc |-> "idle", begun |-> 0, since |-> 0, got |-> "none", beside |-> FALSE]
Sync == [pc : {"idle", "fetch", "save", "finish", "clear"}, begun : Nat, since : Int,
         got : {"none", "old", "latest"}, beside : BOOLEAN]

SyncTypeOK ==
  /\ clock \in Nat /\ changedAt \in 0..clock /\ lastSync \in 0..clock
  /\ stored \in BOOLEAN /\ cut \in BOOLEAN /\ skipped \in BOOLEAN
  /\ account \in [success : 0..clock, catchupRequired : BOOLEAN, catchupFrom : Int]
  /\ sync \in [Syncs -> Sync]

SyncInit ==
  /\ clock = 0 /\ changedAt = 0 /\ lastSync = 0
  /\ stored = TRUE /\ cut = FALSE /\ skipped = FALSE
  /\ account = [success |-> 0, catchupRequired |-> FALSE, catchupFrom |-> 0]
  /\ sync = [s \in Syncs |-> Resting]

Running(s) == sync[s].pc \in {"fetch", "save", "finish"}
-----------------------------------------------------------------------------
(* Mutant: sync_account takes no lock of its process.                      *)
LockFreeDatabase(s) == \A u \in Syncs : Running(u) => u[2] # s[2]

(* sync_account: the lock of this process and account, and the advisory lock  *)
(* of the account and the type of job; neither is waited for.                *)
LockFree(s) == \A u \in Syncs : Running(u) => u[1] # s[1] /\ u[2] # s[2]

(* The row in sync_job_logs is committed, and the sync runs.  A catch-up starts *)
(* from the time the watchdog has set (run_due_catchups).                   *)
BeginSync(s) ==
  LET other == {u \in Syncs : Running(u) /\ u[1] # s[1]} IN
  /\ sync[s].pc = "idle" /\ LockFree(s)
  /\ s[2] = "catchup" => account.catchupRequired
  /\ sync' = [u \in Syncs |->
       IF u = s THEN [Resting EXCEPT !.pc = "fetch", !.begun = clock,
                        !.since = IF s[2] = "catchup" THEN account.catchupFrom ELSE 0,
                        !.beside = other # {}]
       ELSE IF u \in other THEN [sync[u] EXCEPT !.beside = TRUE] ELSE sync[u]]
  /\ UNCHANGED <<clock, changedAt, stored, lastSync, account, cut, skipped>>

(* Mutant: an incremental sync goes back from the start of its own run.      *)
EffectiveSinceNow(s) == IF s[2] = "catchup" THEN sync[s].since ELSE clock - LookBehind

(* _effective_order_sync_since                                             *)
EffectiveSince(s) == IF s[2] = "catchup" THEN sync[s].since ELSE lastSync - LookBehind

Window(s) == {t \in 0..clock : t >= EffectiveSince(s) - Overlap}

(* fetch_unprocessed_orders of the connectors.  An answer may hold older        *)
(* changes too (a full refresh gives no time), and it may leave changes out and  *)
(* still count as success: pages that failed, caps on their number, orders        *)
(* created before the time and changed after it.                            *)
Fetch(s) ==
  /\ sync[s].pc = "fetch"
  /\ \E got \in {"none", "latest"} :
       /\ sync' = [sync EXCEPT ![s] = [@ EXCEPT !.pc = "save", !.got = got]]
       /\ skipped' = (skipped \/ (got = "none" /\ ~stored /\ changedAt \in Window(s)))
  /\ UNCHANGED <<clock, changedAt, stored, lastSync, account, cut>>

(* upsert_order and its commit: whatever was fetched overwrites the row.      *)
Save(s) ==
  /\ sync[s].pc = "save"
  /\ stored' = IF sync[s].got = "none" THEN stored ELSE sync[s].got = "latest"
  /\ skipped' = (skipped /\ sync[s].got # "latest")
  /\ sync' = [sync EXCEPT ![s].pc = "finish"]
  /\ UNCHANGED <<clock, changedAt, lastSync, account, cut>>

(* Mutant: the watermark is the end of the time a sync may take.            *)
WatermarkPlanned(s) == sync[s].begun + SyncTime
Watermark(s) == clock

(* The end of _sync_account_locked: the watermark is the time of the end;      *)
(* mark_sync_success of sync_orders also drops a catch-up still to come.      *)
Finish(s) ==
  /\ sync[s].pc = "finish"
  /\ lastSync' = Watermark(s)
  /\ \/ /\ s[2] = "orders"
        /\ account' = [account EXCEPT !.success = clock, !.catchupRequired = FALSE]
        /\ sync' = [sync EXCEPT ![s] = Resting]
     \/ /\ s[2] = "catchup"
        /\ sync' = [sync EXCEPT ![s] = [Resting EXCEPT !.pc = "clear"]]
        /\ UNCHANGED account
  /\ UNCHANGED <<clock, changedAt, stored, cut, skipped>>

(* Mutant: a sync that failed moves the watermark all the same.             *)
FailSyncMarking(s) ==
  /\ Running(s)
  /\ sync' = [sync EXCEPT ![s] = Resting]
  /\ lastSync' = clock
  /\ UNCHANGED <<clock, changedAt, stored, account, cut, skipped>>

(* It raises, at the connector or later, or its process dies: what was saved   *)
(* stays, the watermark and the catch-up stay as they are.                  *)
FailSync(s) ==
  /\ Running(s)
  /\ sync' = [sync EXCEPT ![s] = Resting]
  /\ UNCHANGED <<clock, changedAt, stored, lastSync, account, cut, skipped>>

(* run_due_catchups, after a successful catch-up; it may die before.         *)
ClearCatchup(s) ==
  /\ sync[s].pc = "clear"
  /\ \/ account' = [account EXCEPT !.catchupRequired = FALSE]
     \/ UNCHANGED account
  /\ sync' = [sync EXCEPT ![s] = Resting]
  /\ UNCHANGED <<clock, changedAt, stored, lastSync, cut, skipped>>
-----------------------------------------------------------------------------
(* _sync_watchdog_scan: overdue_enabled_sync_accounts, mark_catchup_required.  *)
Watchdog ==
  LET from == account.success - CatchupOverlap IN
  /\ clock > account.success + OverdueAfter
  /\ ~account.catchupRequired
  /\ account' = [account EXCEPT !.catchupRequired = TRUE,
                   !.catchupFrom = IF clock - from > MaxWindow THEN clock - MaxWindow
                                                               ELSE from]
  /\ cut' = (cut \/ clock - from > MaxWindow)
  /\ UNCHANGED <<clock, changedAt, stored, lastSync, sync, skipped>>

(* The marketplace changes the order; what was fetched before is old now.     *)
Change ==
  /\ changedAt' = clock
  /\ stored' = FALSE /\ skipped' = FALSE
  /\ sync' = [s \in Syncs |-> IF sync[s].pc = "save" THEN [sync[s] EXCEPT !.got = "old"]
                                                      ELSE sync[s]]
  /\ UNCHANGED <<clock, lastSync, account, cut>>

(* Time passes; no sync lasts longer than SyncTime.                         *)
SyncTick ==
  /\ clock < MaxClock
  /\ \A s \in Syncs : Running(s) => clock < sync[s].begun + SyncTime
  /\ clock' = clock + 1
  /\ UNCHANGED <<changedAt, stored, lastSync, account, sync, cut, skipped>>

SyncStep(s) ==
  \/ BeginSync(s) \/ Fetch(s) \/ Save(s) \/ Finish(s) \/ FailSync(s) \/ ClearCatchup(s)

SyncNext == (\E s \in Syncs : SyncStep(s)) \/ Watchdog \/ Change \/ SyncTick

SyncSpec == SyncInit /\ [][SyncNext]_syncVars
-----------------------------------------------------------------------------
(* "正常增量同步保留回看窗口避免漏单": a change the shop does not have lies in the    *)
(* window of the next incremental sync, whatever failed, ran at the same time  *)
(* or was caught up before: the watermark never passes it.                  *)
NothingMissed == stored \/ changedAt >= lastSync - LookBehind - Overlap

(* The same unless an outage was longer than a catch-up reaches back, or the    *)
(* connector was asked for this very change and its answer left it out.        *)
NothingMissedUncut == NothingMissed \/ cut \/ skipped

(* A sync overwrites a newer version of an order only if a sync of another     *)
(* process ran at the same time: periodic syncs, operators' syncs and         *)
(* catch-ups of one process do not undo each other.                        *)
SnapshotsInOrder ==
  \A s \in Syncs :
    sync[s].pc = "save" /\ sync[s].got = "old" /\ ~sync[s].beside => ~stored
=============================================================================
