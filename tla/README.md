# CaiFuClaw in TLA+

A verification project kept beside the CaiFuClaw ERP. It models the parts of the
business application where several processes, threads and the database interact,
checks them with TLC on small instances and proves their most important
invariants with TLAPS for instances of every size. Paths below are relative to
`src/`; `app/` stands for `caifuclaw_business_app/app/`.

## 1. The system

CaiFuClaw is an ERP for cross-border shops. The *business application* (FastAPI,
APScheduler, PostgreSQL) may run as several processes on one database; the
*connector runtime* is a stateless HTTP service that adapts marketplace APIs; a
React frontend, database and watchdog scripts surround them. Everything that
is hard happens in the business application, between its processes, their thread
pools, the rows they share and the files they write.

| Component | State | Operations | Hard behaviour | Correct when |
|---|---|---|---|---|
| Scheduler leader (`scheduler.py`, `sync_runtime.py`) | advisory lock, process-global flag, job store | start, elect, load jobs, look for missed runs, stop | a stop in several steps, an election that outlives it, failing commits, lost lock connection, takeover | one leader; its jobs are loaded; another one takes over |
| Scheduled-task runs (`task_runner.py`, `scheduler.py`, `main.py`) | `scheduled_task_runs`, executing threads, what a scan or the watchdog has read | cron, catch-up, manual, retry, timeout, watchdog, reprint | scans in several processes, reads committed later, drains, crashes | one run per occurrence, one retry per failed attempt, attempts never overlap |
| Follow-up export (`order_follow_up_export.py`) | job and item rows, leases, workbook file, advisory lock | enqueue, recover, claim, prepare, write, finalize | expired leases, crashes around the file replacement, lost lock | jobs in order, one row per item, shipped only after its row |
| Automatic order pipeline (`task_runner.py`) | stage and labels of orders, selected rows, printer queue, purchase orders | select, wait for labels, print, purchase, pick; operators' requests | minutes between selection and move, crash between printer and record, two runs over the same orders | nothing printed or purchased twice, no stage reached unearned |
| BSI drafts (`bsi_sdms.py`) | `logistics_order_submissions`, order numbers | classify, recheck, intend, send, record | lost and unclear answers, crashes, overlapping runs | one draft per group |
| Shipment creation (`sync_engine.py`, `wanbang.py`) | shipments, advisory lock, session | look, lock, create, commit, refresh | look before the lock, commit after it, rows the look does not count | one parcel per order, every parcel recorded |
| Outbound (`main.py`, `order_outbound_import.py`) | stage of orders, scan records, tracking numbers | scan, import, ship, purchase, delete purchase, cancel | a scan commits twice, nothing is locked between read and write, shared numbers | a recorded scan is true, a number goes out once |
| Order synchronisation (`sync_engine.py`, `sync_runtime.py`) | watermark, account state, locks | sync, watchdog, catch-up | watermark at the end of a sync, capped catch-up window, late snapshots, answers that leave something out | no change missed, no work undone |
| Purchase orders (`main.py`, pages of the frontend) | purchase order, edit lock row | acquire, renew, save, delete, release | 30-minute leases, clean-up by others, READ COMMITTED | no edit overwritten unseen |
| Product catalogue (`platform_product_catalog.py`) | rows, two cursors | full and incremental sync | two modes advance what one of them reads, partial answers that count as success | no change hidden behind the cursor |
| Post-print monitor (`task_runner.py`) | one key of a run's statistics, printer queues | scan, recover, report, expire | partial reads, messages that arrive and count as failed, a reprint that writes the same column | every broken printer reported once |
| OAuth tokens (`oauth_tokens.py`) | credentials with a marker, per-process locks | maintain, refresh on call, record failure | rotating refresh tokens in two processes, a crash or a failing commit after the request | the accepted token is kept, a due one is handled |
| Traffic analytics (`traffic_analytics.py`) | `traffic_sync_runs`, threads | look up, insert, run, interrupt | a starting process closes all unfinished runs | one collection per account, every run ends |

Components interact through the database. The leader's scheduler starts runs; a run
executes the order pipeline, which synchronises its orders, creates drafts and parcels and
leaves a monitor behind; a run that succeeds creates an export job; a retry scan starts
runs; the export closes orders the pipeline left open; the watchdog closes runs whose
process died. Each module states what it takes from the others as an input that may come
at any time. `PROJECT.json` lists the remaining components (notifications, rates, clients
of external services, documents, user interface, scripts), which are single transactions,
pure functions or I/O, with the reason each is left out, and every hazard of the code at
the line where it bites.

## 2. Modules

| Module | What it is |
|---|---|
| `SchedulerLeader` | leader election: lock, flag and job store of any set of processes |
| `TaskRuns` | extends `SchedulerLeader`: the runs of one scheduled cron task |
| `ExportQueue` | abstract: what the follow-up export promises |
| `FollowUpExport` | the export in detail, with a refinement mapping to `ExportQueue` |
| `OrderPipeline` | orders through the chains of runs of the pipeline, beside operators |
| `BsiDrafts` | drafts for one group of orders at the warehouse provider BSI |
| `ShipmentCreate` | parcels of one account's orders |
| `Outbound` | orders on their way out: scans beside batches of other transactions |
| `OrderSync` | watermark, watchdog and catch-up of one account, seen through one order |
| `OrderStatus` | the business status that snapshots give an order of every kind |
| `PurchaseEdits` | the edit lock of one purchase order and the pages that use it |
| `CatalogSync` | one shop's catalogue, seen through one row: a product in one warehouse |
| `PostPrintMonitor` | the monitor of one run's printed labels |
| `OAuthTokens` | refresh of one account's token |
| `TrafficSync` | the traffic runs of one platform and period |
| `MC_TaskRuns`, `MC_FollowUpExport` | symmetry sets for TLC |
| `MC_Orders`, `MC_Services`, `MC_Upkeep` | several independent modules in one run |
| `SchedulerLeader_proofs`, `TaskRuns_proofs`, `FollowUpExport_proofs` | theorems and proofs about the module of that name |
| `Syncs_proofs` | the same about `OrderSync`, `OrderStatus`, `CatalogSync` |
| `Services_proofs` | about `PurchaseEdits`, `PostPrintMonitor` and the types of `MC_Services` |
| `Parcels_proofs` | about `BsiDrafts`, `ShipmentCreate`, `Outbound` |
| `Orders_proofs` | about `OrderPipeline` and the types of `MC_Orders` |
| `Upkeep_proofs` | about `OAuthTokens`, `TrafficSync` and the types of `MC_Upkeep` |

### SchedulerLeader

A member of `Procs` is one operating-system process, `host:pid` in the code; a
restart of the service is another member that starts. `leader[p]` is
`_scheduler_is_leader`, `lock` the holder of the session-level advisory lock,
`jobs[p]` the APScheduler job store. `_try_become_scheduler_leader` sets the flag
before it commits anything, then loads the jobs, and looks for missed occurrences
while they run already: `Elect`, `LoadJobs`, `LookForMissed`. `FailPromotion` is the
case that the first part raises, after which the process keeps lock and flag, and its
next attempt returns at once. `ReloadJobs` is what a settings endpoint does later
on that process. `DropConnection` is the database closing the lock connection, which
nothing in the program notices.

`stop_scheduler` is one step for each of its effects. `ShutDown` takes the scheduler
down (process state `closing`: it holds the lock and schedules nothing), `Unlock`
gives up the lock (`released`: the flag is still set), `ClearFlag` clears the flag
(`stopping`: pool threads drain). If the commit between the first two raises, the flag is
cleared and the lock stays (`FailUnlock`). An attempt of the election that was on its way when
the scheduler went down may end at any point after that (`ElectLate`), and take a lock
it will not use. `jobs[p] = "lost"` stands for all three ways to hold the lock
without scheduling. Two flags may be set at once, between the unlock of one process and
its `ClearFlag`; `AtMostOneLeader` is therefore about processes that take themselves for
the leader while their scheduler is up or they hold the lock (`Leads`). The rows of
`scheduler_heartbeats` decide nothing; only that writing them may fail is modelled.

### TaskRuns

One step is one commit. What a thread has read before its commit is state:
`scan[s].due` (rows a retry scan selected), `scan[s].todo` (claimed, to be
retried one after another in the scanning thread), `stale[p]` (rows the watchdog
selected), `fixing[r]` (a reprint request between its check and its last commit),
`cron[p]` and `catchup[p]` (jobs due in the scheduler). There is one scan
per start of a process and one periodic scan per leader, because
`main.py` runs `process_due_task_retries` at every startup. `exec[r]` is the
process whose thread executes run `r`; the code has no such column, and properties
about overlapping pipelines need it. The same holds for `slot`, the occurrence a
run was started for, and `limit`, the timeout its thread was given.

A cron job is modelled as becoming due wherever jobs are loaded; a disabled task is
skipped when it fires, as `run_scheduled_task` does. This contains the stale
schedule a leader keeps when a task is changed through a standby. What APScheduler
does is modelled from how the code uses it: `max_instances=1` relates only runs of the same job in
the same process, a job later than the misfire grace time is dropped (`Tick`), and
`shutdown(wait=False)` lets threads finish.

A new leader looks for missed occurrences after its jobs are loaded (`CatchUp`), and
finds those since which no run was committed. An occurrence that its own cron job, or a
job of an earlier leader, has been handed and not yet committed is among them and is
started twice; `torn` remembers such occurrences.

`timeout` is `timeout_minutes` of the task, which `EditTimeout` may change. A thread
keeps the value it started with (`limit`); the watchdog reads the task again
(`Overdue`). `run[r].cut` remembers that the timeout was made shorter than a live thread's.

A scan reads `Batch` due rows (ten in the code), the oldest first; `Blockers` is the number
of older rows of other tasks that were disabled or deleted, which a scan skips and
leaves due. `ScanSkip` is a retry that raises before its row is committed: the scan
swallows that, and the claimed run stays `retrying` (`run[r].dropped`, also set when the
process dies with the list). `EndUnrecorded` is a thread whose outcome cannot be written.
Left out: interval-mode tasks, deletion of the task, the order in which a batch is retried
(left open), and display columns.

### FollowUpExport and ExportQueue

`status`, `attempts`, `lease`, `wait` are columns of the job row, times counted down
to zero; `action`, `marked`, `placed` are the item rows (action; status success;
`worksheet_row` recorded); `book` is the workbook: for each job and item the number of
rows the job appended, and the job's export log. `pc`, `job`, `verdict`, `plan`, `copy`
and `logged` are what a worker thread has in hand. Recovery reads and commits in
two steps, since it takes no row lock; claiming is one step, under `FOR UPDATE SKIP
LOCKED`. The workbook is copied when the lock is taken (`TakeLock`) and replaced
later (`Replace`), so that another worker can act in between when the lock
connection has been lost. Every step of a worker may raise (`Fail`); this stands for the
purchase plan, backups, validation and recalculation, which decide nothing else.
`Crash` is the death and restart of the process and also a failure that could
not be recorded. `Prepare` merges the reads of the workbook and of the earlier items;
when another worker commits between them, the result is that of planning before
or after it. `Claim` merges reading the oldest id and locking its row. Each order
has one item. Orders that do not ship with their export (neither Joom FBJ nor BSI)
are not tracked.

`ExportQueue` says the same without workers, leases, attempts or files: only the
job in front registers rows, only for items without one, then closes; only a
success ships, and only registered items. `ImplementsQueue` is the refinement: `open`
is any status that is not terminal, `ledger[i]` the jobs that appended a row for
`i`.

### OrderPipeline

A member of `Chains` is a run with its retries, `chain[c]` what its thread has in hand and
its rows of `scheduled_task_run_orders`. Each action is one commit or one request to the
printer: `Select`, `Split` (which orders need a label), `MoveToPrinting`, `PrintLabel` and
`RecordPrint`, `Mark`, `Filter`, `Buy`, `Pick`. `PrintFails` is a request that reports a
failure: the label may come out all the same, when the job was queued before `lp` ran into
its timeout. `Raise` is an exception at any point between two commits, which runs the
exception handler and leaves a retry, or the timeout of the run; `Crash` runs no handler.
`MoveByHand`, `PrintByHand`, `ReadToPick` with `PickByHand` (a request that reads and
commits), `NameProducts`, `Ship` and `DeletePurchase` are requests of operators. The
deletion of a purchase takes orders in picking back only if they were paid since a
configured date (`recent`). Labels become ready at any time. An order is printed alone, as
the only one of its platform, so that merging of PDFs plays no part.

Three history variables say where the code does not protect: `shared` (two active chains
had selected the order), `unmarked` (a label came out that no run marked: the printer
reported a failure, or the run died or raised between its request and the commit of the
mark) and `stripped` (the order's purchase was deleted while a run or a request that had seen
it was about to commit the stage, or the rollback leaves the order out).

### BsiDrafts and ShipmentCreate

`process_bsi_drafts` looks twice at the row of a group before it commits the row
`pending` and sends the request. `SecondLook` is a choice: SQLAlchemy returns an
object the session still holds as it was loaded, so the second look is fresh or not
depending on what other groups did to the session. The outcomes of `Send` are
those `bsi_sdms.py` tells apart: success, failure, unclear; with `GatewayErrors` a
gateway's answer without JSON counts as a failure although the draft exists.

A submission of parcels looks for an existing one before it takes the advisory lock, and
commits all its parcels after the last order, or when the account's token is refreshed on
the way (`CommitEarly`). Not every row counts for that look: Joom's without a tracking
number, rows of a failed status and, at Wanbang, those of another carrier do not. `blind`
is the set of orders whose row does not; what a row says comes with the answer
(`Answered`) and changes with a refresh of tracking numbers and states (`Refresh`).
`vague` collects the orders whose row did not stop a submission that looked, `unsure`
those whose parcel lost its record, or got it after another submission's look. Ozon's
pending postings, where a repeated request names the same posting, are not meant.

### Outbound

A request of the scan page reads an order by its tracking number (`FindOrder`), looks
for a success record of the number (`LookUp`), commits the record (`Record`) and then
the order (`ShipScanned`); it may die at each step. Every other writer of the stage is a
transaction that reads some orders, decides and commits (`Reads`, `CommitBatch`), as
the session neither locks rows nor writes before its commit: `ToPicking`,
`MarkShipped`, `ImportShipped`, `PurchaseDeleted`, `Cancelled`. The code finds the order
changed last; the model finds any that carries the number. `torn`, `overtaken`
and `beside` record the deaths, the overwritten stages and the concurrent looks after
which the records do not tell the truth. After a death between the two commits the number counts
as scanned and its order stays in picking until the import or a person ships it.

### OrderSync and OrderStatus

`lastSync` is `platform_accounts.last_sync_at`, `account` the row of
`sync_account_states`. A sync takes the lock of its process and account and the
advisory lock of account and job type, both without waiting (`BeginSync`), fetches in
one instant, saves, and finishes with the time at that moment, not the time it
began. An answer may hold older changes too, and may leave changes out and still count as
success, as connectors do that stop at a failing page, cap the number of orders or select by
date of creation; `skipped` remembers that the change in question was left out although it
lay in the window. The lock of a process is a free or taken slot. In the code it is an
`asyncio.Lock` shared by the event loops of several threads, tested with `locked()` and
entered later: a thread that finds it taken in between raises when it waits, which is a
sync that does not run, and two threads within the few instructions of one uncontended entry
are not modelled.
`Watchdog` marks an overdue account and cuts its window at `MaxWindow`;
`ClearCatchup` comes after the sync, in a commit of its own. Other orders, products and
customers are left out: one order stands for all.

`OrderStatus` has the pure functions from `_compute_biz_status` to
`_platform_snapshot_biz_status` for nine kinds of orders, with an order whose current
and one earlier snapshot may be saved in either order beside the shop's own work.

### PurchaseEdits

A request is a transaction under READ COMMITTED: it reads the lock row, writes
it (`writer` holds the row from there on), and commits. `page[u]` is the user's
page with the version it shows. The list of purchase details edits rows it has
loaded without a lock (`DetailUsers`), as the frontend does.

### CatalogSync and PostPrintMonitor

A catalogue sync notes its start, fetches everything listed or what changed since the
later of the two cursors, and commits rows, deactivations and its cursor together. An
answer may hold more than was asked for, and it may lack a product or a part of one (prices
or stocks that could not be read) and still count as success. A sync is `unsure` when it
ran beside another one or its answer lacked something; `doubtful` says that such a
sync was committed and no full one since was sure.

A scan of the monitor reads the statistics, asks the queues, tries recoveries and sends
one message, then commits; a reprint reads and writes the same column. A message is
sent, lost, or arrives while its request reports a failure (`doubted`). A queue that
`lpstat` cannot read keeps the monitor open; a queue of Windows that cannot be
read, or jobs whose id was not understood, look like an empty queue (`overlooked`).
`Watchers` are the leader and its successor.

### OAuthTokens and TrafficSync

`creds.accepted` says whether the marketplace still takes the stored refresh token:
each use makes its predecessor invalid. The maintenance commits a marker
(`Mark`), asks, and stores the answer or records the failure by writing all the
credentials it began with. `held` is the per-process lock. A request may lose its
answer, with or without effect at the marketplace, the commit of an answer may fail
(`StoreFails`, which loses the new token), and processes die at every step.

A traffic collector looks for accounts without an unfinished run, inserts rows and works
through them in turn; if it cannot read them its thread ends and they stay pending
(`LoseQueue`, remembered in `unrecorded` like a result that cannot be written).
`StartProcess` declares all unfinished rows interrupted. A thread whose row was closed
goes on and writes its result over it.

### MC_Orders, MC_Services, MC_Upkeep

The modules in each of these share no variable. Interleaving them would multiply
their state spaces and show nothing more about any of them: a step of one
leaves the others' variables alone, so every behaviour of one module beside
the others is a behaviour of that module alone with stuttering added. `part`, chosen in
the initial state, names the module that moves; the state space is the union and
each property is checked for its module in full. In `MC_Orders` the pipeline has
two parts, `chains` (two chains, one pending order, operators) and `batch` (one
chain, two orders, operators); tracking numbers and orders of `Outbound` are alike, so
one order has a fixed number.

## 3. What is checked

All runs exhaust their state spaces. States are counted with symmetry where used.

| Run | Instance | States | Shows |
|---|---|---|---|
| `TaskRuns_steady` | 2 processes, 3 runs, 2 occurrences, 2 timeouts and edits, crashes, failing statements | 2 470 497 | `OneScheduledRun`, `ChainExclusive`, `RetriedOnce`, `OccurrenceOnce`, `VerdictOnDead` |
| `TaskRuns_faults` | 2 processes, 2 runs, lost locks, crashes, manual runs, reprints, overruns | 2 825 045 | `RetryAfterAttemptEnded`, `ChainShape` |
| `TaskRuns_retry` | 2 processes, one of them still to start, 2 runs, batches of 2 with 1 blocker, crashes, stops, toggles, launches that raise, fairness | 187 618 | `ClaimedIsOwned`, `WaitingRetryTaken` |
| `FollowUpExport_single` | 1 worker, 3 jobs, 2 items, all faults, fairness | 135 427 | `ImplementsQueue`, `AttemptsBounded`, `EveryJobCloses` |
| `FollowUpExport_pair` | 2 workers, 3 jobs, 2 items, lost locks, leases hold | 34 138 | `OneExecutor`, `MarkedHasRow` |
| `FollowUpExport_overlap` | 2 workers, 2 jobs, 2 items, expired leases, crashes, late commits, no dedupe | 690 413 | `RowOncePerJob`, `ShippedHasRow` |
| `Orders` | 2 chains over 1 order, 1 chain over 2; 3 BSI runs; 2 submissions over 2 orders; 2 scanners and 1 batch over 2 orders; all faults but gateway errors | 3 182 624 | `PrintedOnce`, `StagesEarned`, `DraftOnce`, `ParcelKept`, `NoSecondParcel`, `ScannedIsOut` |
| `Services` | syncs of 2 processes; 9 kinds of orders; 2 users, 4 minutes; 2 modes of the catalogue; 2 printers, 2 scanners, 1 reprint; partial answers and late messages | 2 193 143 | `NothingMissedUncut`, `SnapshotsInOrder`, `CatalogCurrent`, `ReportedOnce`, `WorkKept`, `EditsSeen` |
| `Upkeep` | leader of 3 processes, crashes, stops step by step, failing commits; tokens in 2 processes, lost answers and commits, 1 crash; 2 accounts, 3 traffic runs, 1 crash, 1 database error; fairness | 339 820 | `AtMostOneLeader`, `LockHolderSchedules`, `SchedulingResumes`, `RotationKept`, `DueIsHandled`, `AccountsApart`, `RunsFinish` |

The first nine must pass; three more are expected to find a violation (below):
`TaskRuns_startup_scan`, `BsiDrafts_gateway` and `OrderPipeline_regress`.

`CHECK_DEADLOCK FALSE` everywhere: clocks, rows and restarts are bounded, so an
instance may come to its end.

**Bounds.** Three processes allow a takeover while a third stands by. `MaxRuns = 3`, in
`TaskRuns_steady`, holds a run, its retry and a competitor (a second retry or the other
occurrence, by the cron job or caught up); the two runs of `TaskRuns_faults` and
`TaskRuns_retry` are an attempt and its retry, or the first two attempts of two chains.
`RetryCounts = {1}` lets one retry happen and the budget end. `MaxTime = 3`, with timeouts
of one and two ticks and a buffer and retry interval of one, lets a run start, fail, be
retried and be overdue, also after an edit made its timeout shorter; `MaxTime = 2` is
enough for a retry to become due and wait for a takeover. `Batch = 2` with `Blockers = 1`
is a list that is not starved but not free either. Two items and two or three jobs let a
later job meet rows of an earlier one that succeeded, failed or is half done; `MaxAttempts
= 2` has a first, a last and, wrongly, one more attempt; a lease of one tick expires at
every point of the work when `Overruns` is set. `MaxPapers = 2` and `MaxParcels = 2` allow
the second copy and the second parcel that must not come, `MaxDrafts = 3` one draft for
each of three runs. `MaxClock = 6` is longer than an outage (`OverdueAfter = 2`), a cut
window (`MaxWindow = 4`) and a sync (`SyncTime = 1`) after another; `MaxCatalog = 4`
orders two syncs and a change in every way. `Lease = 2` in four minutes lets a lock
expire, be taken over and expire again, `MaxLocks = 3` the row be inserted anew each time.
A token of `Lifetime = 3` with window, marker and call of 1, 2 and 1 ticks is refreshed,
expires and is refreshed again, and since its times count down nothing bounds the run but
`MaxDeaths`. `MaxTraffic = 3` has two accounts and one second attempt; `AttemptLimit = 2`
lets the limit decide. Two orders with one number or two, two scanners and a batch meet
every pair of writers of `Outbound`; two batches beside each other touch no scan record.

**Environments.** The constants `ConnFaults`, `DbFaults`, `Crashes`,
`GracefulStops`, `Overruns`, `LaunchFaults`, `LateCommits`, `Dedupe`, `Operators`,
`Faults`, `TokenFaults`, with `Booted`, `Timeouts`, `Batch` and `Blockers`, say what may
happen; a run states in its cfg under which of them a property is claimed.
Where the code does not protect, the property is claimed only without that
fault, in particular:

- `OneScheduledRun` does not hold while a stopped leader's threads drain: it
  has given up the lock already.
- `ChainExclusive` and `RetriedOnce` do not hold beside the startup scan of another process
  (`TaskRuns_startup_scan` shows it). `TaskRuns_retry` has that scan; that
  `RetryAfterAttemptEnded` and `ChainShape` survive it is proved.
- `ClaimedIsOwned` excepts the rows of a process that died with its list and those whose
  retry raised before its row was committed (`dropped`): they stay `retrying` for ever.
- `WaitingRetryTaken` needs rows of disabled or deleted tasks to leave room in the
  batch (`Blockers < Batch`).
- `VerdictOnDead` needs pipelines that reach an `await` before the watchdog's deadline, and no
  reprint, and excepts a run whose timeout was shortened under it (`cut`).
- `MarkedHasRow` needs leases that hold: two workers of one job whose order items
  changed in between may mark an item without a row.
- `OccurrenceOnce`, `PrintedOnce`, `StagesEarned`, `DraftOnce`, `NoSecondParcel`,
  `ScannedIsOut`, `ReportedOnce`, `CatalogCurrent`, `RotationKept` and `AccountsApart` name
  in their history variables (`torn`; `shared`, `unmarked`; `stripped`; `overlapped`; `unsure`,
  `vague`; `torn`, `overtaken`, `beside`; `disturbed`, `doubted`, `overlooked`; `doubtful`;
  `raced`, `lost`; `mixed`) the cases in which the code does double or lose something;
  what they claim is that nothing else does.
- `NothingMissedUncut` needs lookback and the connector's overlap to cover twice a
  sync, as they do for the platforms with an overlap, and excepts an outage longer than
  the catch-up window (`cut`) and an answer that left the change out (`skipped`).
- The leader part of `Upkeep` has no lost lock connections; `TaskRuns_faults` fires those.

**Fairness.** `SchedulerLeader`: the election job and a started promotion keep
going in a running process, because APScheduler fires the job every few seconds and
the promotion is straight-line code; so is a stop once it has begun. `TaskRuns`: also the
look for missed occurrences, the scans, the end of an
executing pipeline (`asyncio.wait_for` bounds it) and the clock. `FollowUpExport`: the
worker loop polls for ever, a claimed job is worked through or raises, and time
passes. `TrafficSync`: a thread goes on, since every call has a timeout, and the
service manager (launchd) starts a process that died. Weak fairness is enough for all
of these, because each step stays enabled until it is taken or another one does its
work. `OAuthTokens`: the steps of a thread are weakly fair; strong fairness is assumed
of `Maintain`, which is disabled whenever the lock is held for a moment and whose job
still fires every few minutes, of `Answered`, since not every request is lost, and of
`Advance`, since time passes. `Maintain` is about one account and assumes that the round
reaches it: an exception for an account earlier in the round ends the round
(`app/oauth_tokens.py:473`, `528`), which a model of one account cannot show. Nothing else
is assumed of operators, crashes, restarts or faults.

### Disagreements with the documentation

Three runs are expected to find a violation of what a document or a comment says.

1. `TaskRuns_startup_scan`: a starting process and the leader retry one failed run
   twice, beyond `max_retry_count` (`app/models.py:924`).
2. `BsiDrafts_gateway`: a gateway's answer without JSON for a draft that was created
   counts as a failure (`app/bsi_sdms.py:233`), and the next run creates a second one,
   against the comment at line 1386.
3. `OrderPipeline_regress`: after waiting for labels the pipeline moves orders back that
   were shipped meanwhile (`app/task_runner.py:4200`), against section 7.2 of
   `docs/phase3-shop-order-requirements.md`.

The models show further behaviour that a maintainer should know of. No run is
spent on it; each can be seen by the change named.

- Two leaders after the database drops the lock connection, against
  `docs/scheduled-task-catchup-plan.md:18` (`ConnFaults = TRUE`, `AtMostOneLeader`).
- An occurrence started twice, by the cron job and as a catch-up, because the jobs run
  before the look for missed ones (`OccurrenceOnce` without `torn`).
- A live run failed by the watchdog after its task's timeout was shortened
  (`VerdictOnDead` without `cut`), and a claimed retry lost to an exception before its row
  exists (`ClaimedIsOwned` without `dropped`).
- Ten due rows of disabled tasks keep every other retry waiting (`Blockers = Batch`, and
  `WaitingRetryTaken` without that condition).
- A stop whose heartbeat cannot be written keeps the lock until the process ends
  (`LockHolderSchedules` without `"lost"`).
- A label printed twice after `lp` ran into its timeout (`PrintedOnce` without `unmarked`),
  and a second parcel while the first one's row does not count (`NoSecondParcel` without
  `vague`).
- Two racing recoveries start an export attempt beyond `max_attempts`
  (`app/models.py:1002`; two workers, `LateCommits = TRUE`, `AttemptsBounded`).
- Connectors without overlap (Amazon, Walmart, eBay) miss changes made while a sync
  runs (`Overlap = 0`, `LookBehind = 0`, `NothingMissed`).
- Business calls that refresh in another process beside the maintenance lose the
  rotating token (`Callers` with both processes, `LockKeepsToken`).
- The list of purchase details overwrites edits it has not loaded (`EditsSeen` over
  `DetailUsers`).
- A reprint, or a second leader, makes the monitor report a printer again
  (`ReportedOnce` without `disturbed`).
- Overlapping catalogue syncs, and partial answers, leave old rows until the next full one
  (`CatalogCurrent` without `doubtful`).
- Orders that a connector's answer leaves out are not asked for again
  (`NothingMissedUncut` without `skipped`).
- Allegro's status `sent` takes a delivered order back to shipped (`Compute`).

## 4. What is proved

Every safety property of the passing runs is a theorem. Each holds for any finite or
infinite set of processes, workers, jobs, items, orders, printers and so on, and any
bounds that satisfy the named `ASSUME`s of the modules. Those are facts about the
configuration: bounds are natural numbers, the HTTP timeout is shorter than the
refresh marker, a platform has finitely many accounts (`TrafficAssumption`), the chain
of part "batch" is one of the chains (`LoneAssumption`).

| Theorem | Property | Assumes |
|---|---|---|
| `LeaderTypeCorrect`, `TaskTypeCorrect`, `ExportTypeCorrect` | type invariants | nothing |
| `LeaderExclusive` | `AtMostOneLeader` | lock enabled, its connection lives |
| `LockAlwaysSchedules` | `LockHolderSchedules` | nothing |
| `RetriesFollowAttempts` | `RetryAfterAttemptEnded` | nothing |
| `ChainsWellFormed` | `ChainShape` | nothing |
| `OccurrencesSingle` | `OccurrenceOnce` | lock enabled, its connection lives |
| `ScheduledRunsSingle` | `OneScheduledRun` | the same, and no draining process |
| `VerdictsOnDead` | `VerdictOnDead` | pipelines end in time, no reprint |
| `ClaimsOwned` | `ClaimedIsOwned` | nothing |
| `AttemptsRetriedOnce` | `RetriedOnce` | lock enabled, connection lives, no draining process, no startup scan |
| `ChainsExclusive` | `ChainExclusive` | the same |
| `RowsOnce` | `RowOncePerJob` | lock connections live, or `Exclusive` |
| `ShippedRegistered` | `ShippedHasRow` | the same |
| `WorkersExclude` | `OneExecutor` | `Exclusive` |
| `AttemptsCounted` | `AttemptsBounded` | `Exclusive` |
| `MarkedRegistered` | `MarkedHasRow` | `Exclusive` |
| `QueueImplemented` | `ImplementsQueue` | `Exclusive`, known items are recognised |
| `PipelineTypeCorrect`, `DraftTypeCorrect`, `ShipmentTypeCorrect`, `OutTypeCorrect` | type invariants of their modules | nothing |
| `SyncTypeCorrect`, `StatusTypeCorrect`, `CatalogTypeCorrect`, `EditTypeCorrect`, `MonitorTypeCorrect` | the same | nothing |
| `TokenTypeCorrect`, `TrafficTypeCorrect` | the same | nothing |
| `OrdersTyped`, `ServicesTyped`, `UpkeepTyped` | `TypesOK` of the `MC_` module | nothing |
| `LabelsPrintedOnce` | `PrintedOnce` | nothing |
| `StagesAreEarned` | `StagesEarned` | nothing |
| `DraftsSingle` | `DraftOnce`, `DraftBlocks` | no gateway errors |
| `NumbersReal` | `NumberIsDraft` | nothing |
| `ParcelsKept` | `ParcelKept` | nothing |
| `NoParcelTwice` | `NoSecondParcel` | nothing |
| `ScansTrue` | `ScannedIsOut` | nothing |
| `NoOrderMissed` | `NothingMissedUncut` | `2 * SyncTime <= LookBehind + Overlap` |
| `CatalogKeepsUp` | `CatalogCurrent` | nothing |
| `PrintersReportedOnce` | `ReportedOnce` | nothing |
| `SnapshotsOrdered` | `SnapshotsInOrder` | nothing |
| `WorkNeverUndone` | `WorkKept` | nothing |
| `SavesSeeLatest` | `EditsSeen` | nothing |
| `RotationSafe` | `RotationKept` | nothing |
| `CollectorsApart` | `AccountsApart` | nothing |

"Nothing" is nothing beyond the exceptions the property itself names as history
(`dropped`, `unmarked`, `stripped`, `vague`, `skipped`, `doubtful`, `doubted`, `raced`,
`mixed` and so on), in which the code does fail.

*Leader.* `AtMostOneLeader` is not inductive: nothing in it keeps `Elect` from firing
beside a leader. `FlagHoldsLock` adds that the flag implies holding the lock, or being
between the unlock and the end of a stop, that jobs imply the flag and a process that is up,
and that only a stopped process has an election left over. A lock with one holder does
the rest. `LockHolderSchedules` is inductive by itself: every step by which the holder of the
lock stops scheduling either is on its way to the unlock or marks the holder as lost.

*Retries.* `RetryInv` rests on the notion *settled*: the row exists, its
thread has ended and its status is no longer `running`, which is final. Rows waiting for
a retry, selected by a scan or claimed are settled, have attempts left, and a row that
was claimed is never `waiting_retry` again, since only the thread of a run writes
that status, when it ends. This holds with two leaders, startup scans, reprints
and a watchdog that commits late. Steps are grouped by what they do to the rows
(`RowsProgress`) and to the lists of a scan (`ScansProgress`), so that the
invariant is shown once for all steps that create no run.

*Schedule.* `OccurrenceInv`: no two jobs have been handed one occurrence (`FiresApart`), and no
run has been started for one that is pending (`FiresUnstarted`), both but for the torn ones;
a periodic run starts no earlier than its occurrence (`PeriodicRuns`). A new leader's
catch-up list (`MissedFires`) contains only occurrences since which no run was created: that
separates it from the runs there are, and `torn` is what it shares with those that are only
under way. `SchedulerInv`, for `OneScheduledRun`, places the periodic job and its runs at the
leader (`CronAtLeader`, `SchedulerRunsAtLeader`), where `max_instances` relates them.

*Watchdog.* `LiveInTime` (no executing run is past its own timeout and buffer), `LimitKept`
(a live thread's timeout is at most the one the watchdog reads, or was cut) and `StaleKnown`:
what the watchdog has read is cut or *abandoned*, that is, without a thread, `running` or
`failed`, and on no scan's list. An abandoned run stays so, since only its thread
could have made it wait for a retry. Hence the verdict meets `running`.

*Claims.* A run in `retrying` is on the list of the scan that claimed it until its retry
is created (`NewClaimsListed`, `ListedStay`); it leaves the list otherwise only with the death
of the process or a launch that raises, and both mark it as dropped. The lists of a scan are
filled in order (`ListsShaped`).

*Chains.* With a single leader and no process that starts beside it
(`OneScannerHypotheses`: the hypotheses of the schedule and `Booted = Procs`, so that nobody
runs the startup scan of `main.py`), only the leader's periodic scan has rows in hand
(`ScanAtLeader`). What it has in hand has no retry yet (`UnretriedListed`), and every run of
a chain but the latest has one (`ChainEnds`): a chain is a line and only its end can
execute. The startup scan is what `TaskRuns_startup_scan` shows to break this.

`Exclusive` is: jobs become visible in the order of their ids, and there is one
worker, which may crash and overrun its lease, or leases outlast jobs and no worker
crashes.

*Export.* `BookInv`: the copy a worker edits is still the workbook (`CopyCurrent`),
either because it holds the advisory lock or because workers exclude each other; a
job's rows are exactly the appended items of its log; whatever is
logged, planned as known, recorded or reported has a row. It speaks neither of leases nor of
ownership: with living connections the export log and the advisory lock alone carry
it, which is why it holds for workers that process the same job.

*Exclusive workers.* `OneExecutor` needs what the claim relies on. `ClaimInv`: all jobs
before a running one have ended, the job of a busy worker is running, what a recovery
has decided about a job is still right when it is written, and a live worker's lease
has not expired. Hence the running job is the head of the queue (`RunningIsHead`),
and its plan stays true while it runs (`PlanKept`, `FirstRow`: no other job touches the
items it found pending). With these every step maps to `Enqueue`, `Register` or
`Close` of `ExportQueue`, or to a stutter (`QueueStep`).

*Printing.* `PrintedOnce` needs what a chain knows of an order whose label is on paper
(`PrintKnown`): it is in the record of submissions, or in what the run has just printed,
or past the labels, where nothing but the list of the run that printed it takes it back.
`PrintKept` says that a printed label is marked, or remembered as unmarked, or its run still
alive to mark it, and `Alone` that two active chains with one order are remembered as such.
Only a request to the printer prints (`PaperGrows`), what the chain does not know; and
then the run has the label in hand, or the printer reported a failure.

*Stages.* `BuyPrinted`: what a run is about to purchase is marked as printed, what it is about to
pick has a purchase or lost it to a deletion; `HandEarned` says the same of an operator's
request between its read and its commit. A chain acts on what it selected
before it waited, so the marks must survive everything operators and other chains do
meanwhile (`ChainRows`, `OperatorMoves`).

*Drafts.* `DraftOnce` says nothing about the row that keeps further runs out.
`RowGuards` adds it: a run submits only behind a pending row and while there is no
draft, one run at a time, a draft leaves a row that blocks, and what a run concludes
of an existing draft is never a plain failure. The last part is what gateway
errors break.

*Parcels.* `LookHolds` says that an order found without a parcel has none, or one that
lost its record, did not count or lies in another session, until it is created;
`SessionShape`, that a submission comes to each order once between two commits. With
`ParcelKept` they are inductive, and every `Create` of a second parcel falls under a case
of `NoSecondParcel`.

*Scans.* `ClearAlone`: a request that has found its number unused is alone with it, and no
record of it has appeared since, unless two looked at once. `OutStaysOut`: only a
cancellation writes an order that it has read as shipped, so that a commit takes an
order back only over a newer stage than it has read.

*Order synchronisation.* `FetchedOrRecent`: a sync that has fetched brings a change the
shop does not have, or that change came at most `SyncTime` before the sync began. The
watermark it writes is at most `SyncTime` after its beginning, so the window
must reach back twice that: over the sync itself and over another one beside it whose
older answer was saved last. `CatchupReaches` keeps a catch-up's start behind the
watermark; it holds unless a window was cut, and the rest of `SyncInv` unless an
answer has left the change out as well.

*Snapshots.* The two locks of a process keep its syncs apart, so that syncs which run at
the same time know of each other (`BesideMarked`). Nobody saves anything newer between the
fetch and the save of a sync that ran alone. `WorkKept` is an action property: it rests on
the table of ranks alone (`SnapshotForward`, `SnapshotVoided`), case by case over the
kinds of orders.

*Edits.* `WritersOwn`: a request between its look at the lock row and its write is of that
row's owner, for row numbers are never used again. `OwnersSeeLatest`: the page
of a lock's owner shows the latest version, since only the owner adds one and nobody comes
to own a lock with an old page open.

*Tokens.* `RefreshedAlone`: outside a race one thread refreshes at a time. A maintenance in
another process is kept out by the marker, which outlasts the request
(`MarkerOutlasts`: more ticks are left of the marker than of the request) and before the
marker is written by being the leader. Until its answer arrives the thread's copy is as
good as the stored one (`CopyIsCurrent`), so that writing it back after a failure
undoes nothing, and a refusal means that the token was lost before.

*Traffic.* Runs waiting in a queue are unfinished (`QueuedUnfinished`), so an account in a
queue is not chosen by whoever looks next; what one thread has chosen is in no queue
(`ChosenUnqueued`), and it is the only one about to insert (`OneInserts`). Every other step
only shortens queues (`QueuesShrink`).

*Types of a run.* A step of an `MC_` module is a step of one module and a stutter of the
others, so their type lemmas give `TypesOK` of the whole.

*Catalogue.* `UnsureKnown`: syncs that run at the same time are unsure, and one that is sure
began after every sync that has been committed. `FetchedSince`: what a sync fetched is the
latest state or has changed since it began, what it left out it may leave out, or it is
unsure. `TimesInOrder` bounds all times by the clock.

*Monitor.* `DoneIsEmpty` (where a copy of the monitor is completed, jobs are left only in
queues that looked empty) and, unless disturbed, `OneCopy` (one scan or reprint works
with the column at a time, with the stored monitor or its successor) and `ToldOnce`
(a printer's messages are those the copy knows of; one that arrived and counted as failed
takes its printer out of the count).

### Only model-checked

Liveness (`SchedulingResumes`, `WaitingRetryTaken`, `EveryJobCloses`, `DueIsHandled`,
`RunsFinish`) is beyond the prover, as is `ENABLED`, on which fairness rests. The
violations (`RetryBudget`, `StagesAdvance`, and `DraftOnce` with gateway errors) are
TLC's counterexamples.

## 5. Not modelled

The models cover a small share of the source by lines. Most of the code decides
nothing about interleavings, failures or orderings: request handlers that are one
transaction, schemas, marketplace adapters, dashboards and aggregation, import and
repair scripts run by hand, rendering of labels and workbooks, request building and
parsing. Their correctness is about values in one call, where unit tests reach.
`PROJECT.json` lists them with the reason for each. Within the modelled components:

- `TaskRuns`: interval-mode tasks and deletion of tasks. An interval-mode task is
  a chain of date jobs that ends when one misfires; no document promises otherwise.
- `OrderPipeline`: warehouse orders of Joom (FBJ), orders shipped offline,
  notifications, merged PDFs, and merging of purchase orders.
- `PurchaseEdits`: items and amounts; the number's format.
- `OrderSync`: products, customers, logistics of an order, logs; which changes a connector
  leaves out (any).
- `ShipmentCreate`: tracking numbers and labels, but for whether a row counts.
- `Outbound`: parsing of the sheet, records of failed scans, changes of a tracking number.
- `OAuthTokens`: tokens that do not rotate, refresh tokens that expire, other accounts of
  the same round.
- `TrafficSync`, `CatalogSync`: the figures, mappings and images.
- The macOS watchdog is one sequential shell loop whose counters nothing else reads.

## 6. Plan

What is left, in this order:

1. An abstract specification of `OrderPipeline` (each order printed and purchased once
   for one chain) with its refinement.
2. The deepest steps of `TaskRuns` as a refinement: a chain of attempts as one abstract
   run.
3. Interval-mode tasks in `TaskRuns`; merging of purchase orders.
