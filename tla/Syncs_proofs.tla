------------------------------ MODULE Syncs_proofs ------------------------------
(***************************************************************************)
(* Proofs about what is synchronised from the marketplaces: the orders of an     *)
(* account, for any number of processes and all windows, overlaps and durations, *)
(* the status an order takes from a snapshot, and a catalogue of products, for    *)
(* any number of origins.                                                   *)
(***************************************************************************)
EXTENDS OrderSync, OrderStatus, CatalogSync, TLAPS

(* A sync at rest, one that begins and one that fetches are well formed.      *)
LEMMA SyncRecords ==
  /\ Resting \in Sync
  /\ \A t \in Nat, f \in Int, c \in BOOLEAN :
       [Resting EXCEPT !.pc = "fetch", !.begun = t, !.since = f, !.beside = c] \in Sync
  /\ \A r \in Sync, g \in {"none", "latest"} : [r EXCEPT !.pc = "save", !.got = g] \in Sync
  /\ \A r \in Sync, p \in {"finish", "clear"} : [r EXCEPT !.pc = p] \in Sync
  /\ \A r \in Sync : [r EXCEPT !.beside = TRUE] \in Sync /\ [r EXCEPT !.got = "old"] \in Sync
<1>1. Resting \in Sync  BY DEF Resting, Sync
<1>2. ASSUME NEW t \in Nat, NEW f \in Int, NEW c \in BOOLEAN
      PROVE  [Resting EXCEPT !.pc = "fetch", !.begun = t, !.since = f, !.beside = c] \in Sync
  BY DEF Resting, Sync
<1>3. ASSUME NEW r \in Sync, NEW g \in {"none", "latest"}
      PROVE  [r EXCEPT !.pc = "save", !.got = g] \in Sync
  BY DEF Sync
<1>4. \A r \in Sync, p \in {"finish", "clear"} : [r EXCEPT !.pc = p] \in Sync  BY DEF Sync
<1>5. \A r \in Sync : [r EXCEPT !.beside = TRUE] \in Sync  BY DEF Sync
<1>6. \A r \in Sync : [r EXCEPT !.got = "old"] \in Sync  BY DEF Sync
<1> QED BY <1>1, <1>2, <1>3, <1>4, <1>5, <1>6

(* Every step keeps the types of the variables.                             *)
LEMMA SyncStepTyped ==
  ASSUME SyncTypeOK, [SyncNext]_syncVars
  PROVE  SyncTypeOK'
<1> USE DEF SyncTypeOK
<1> DEFINE Accounts == [success : 0..clock, catchupRequired : BOOLEAN, catchupFrom : Int]
<1>1. ASSUME NEW s \in Syncs, BeginSync(s) PROVE SyncTypeOK'
  <2>1. (IF s[2] = "catchup" THEN account.catchupFrom ELSE 0) \in Int  OBVIOUS
  <2>2. sync' \in [Syncs -> Sync]
    <3> DEFINE other == {u \in Syncs : Running(u) /\ u[1] # s[1]}
               new == [Resting EXCEPT !.pc = "fetch", !.begun = clock,
                         !.since = IF s[2] = "catchup" THEN account.catchupFrom ELSE 0,
                         !.beside = other # {}]
    <3>1. new \in Sync  BY <2>1, SyncRecords
    <3>2. \A u \in Syncs : [sync[u] EXCEPT !.beside = TRUE] \in Sync  BY SyncRecords
    <3>3. sync' = [u \in Syncs |-> IF u = s THEN new
                                   ELSE IF u \in other THEN [sync[u] EXCEPT !.beside = TRUE]
                                   ELSE sync[u]]
      BY <1>1 DEF BeginSync
    <3> HIDE DEF new, other
    <3> QED BY <3>1, <3>2, <3>3
  <2> QED BY <1>1, <2>2 DEF BeginSync
<1>2. ASSUME NEW s \in Syncs, Fetch(s) PROVE SyncTypeOK'
  <2>1. skipped' \in BOOLEAN  BY <1>2 DEF Fetch
  <2>2. PICK g \in {"none", "latest"} :
          sync' = [sync EXCEPT ![s] = [@ EXCEPT !.pc = "save", !.got = g]]
    BY <1>2 DEF Fetch
  <2>3. sync' \in [Syncs -> Sync]  BY <2>2, SyncRecords
  <2> QED BY <1>2, <2>1, <2>3 DEF Fetch
<1>3. ASSUME NEW s \in Syncs, Save(s) PROVE SyncTypeOK'
  <2>1. stored' \in BOOLEAN /\ skipped' \in BOOLEAN  BY <1>3 DEF Save
  <2>2. sync' \in [Syncs -> Sync]  BY <1>3, SyncRecords DEF Save
  <2> QED BY <1>3, <2>1, <2>2 DEF Save
<1>4. ASSUME NEW s \in Syncs, Finish(s) PROVE SyncTypeOK'
  <2>1. sync' \in [Syncs -> Sync]
    <3>1. [Resting EXCEPT !.pc = "clear"] \in Sync  BY SyncRecords
    <3> QED BY <1>4, <3>1, SyncRecords DEF Finish
  <2>2. clock \in 0..clock /\ lastSync' = clock  BY <1>4 DEF Finish, Watermark
  <2>3. account' \in Accounts  BY <1>4, <2>2 DEF Finish
  <2> QED BY <1>4, <2>1, <2>2, <2>3 DEF Finish
<1>5. ASSUME NEW s \in Syncs, FailSync(s) PROVE SyncTypeOK'
  BY <1>5, SyncRecords DEF FailSync
<1>6. ASSUME NEW s \in Syncs, ClearCatchup(s) PROVE SyncTypeOK'
  <2>1. account' \in Accounts  BY <1>6 DEF ClearCatchup
  <2>2. sync' \in [Syncs -> Sync]  BY <1>6, SyncRecords DEF ClearCatchup
  <2> QED BY <1>6, <2>1, <2>2 DEF ClearCatchup
<1>7. CASE Watchdog
  <2> DEFINE from == account.success - CatchupOverlap
             back == IF clock - from > MaxWindow THEN clock - MaxWindow ELSE from
  <2>1. back \in Int  BY SyncAssumption
  <2>2. account' = [account EXCEPT !.catchupRequired = TRUE, !.catchupFrom = back]
    BY <1>7 DEF Watchdog
  <2> HIDE DEF back
  <2>3. account' \in Accounts  BY <2>1, <2>2
  <2>4. cut' \in BOOLEAN  BY <1>7 DEF Watchdog
  <2> QED BY <1>7, <2>3, <2>4 DEF Watchdog
<1>8. CASE Change
  <2>1. sync' \in [Syncs -> Sync]
    <3>1. \A u \in Syncs : [sync[u] EXCEPT !.got = "old"] \in Sync  BY SyncRecords
    <3> QED BY <1>8, <3>1 DEF Change
  <2>2. changedAt' \in 0..clock  BY <1>8 DEF Change
  <2> QED BY <1>8, <2>1, <2>2 DEF Change
<1>9. CASE SyncTick
  <2>1. clock' \in Nat /\ 0..clock \subseteq 0..clock'  BY <1>9 DEF SyncTick
  <2>2. account \in [success : 0..clock', catchupRequired : BOOLEAN, catchupFrom : Int]
    BY <2>1
  <2> QED BY <1>9, <2>1, <2>2 DEF SyncTick
<1>10. CASE UNCHANGED syncVars  BY <1>10 DEF syncVars
<1>11. ASSUME NEW s \in Syncs, SyncStep(s) PROVE SyncTypeOK'
  BY <1>1, <1>2, <1>3, <1>4, <1>5, <1>6, <1>11 DEF SyncStep
<1> QED BY <1>7, <1>8, <1>9, <1>10, <1>11 DEF SyncNext

(* The variables keep their types, whatever the windows.                     *)
THEOREM SyncTypeCorrect == SyncSpec => []SyncTypeOK
<1>1. SyncInit => SyncTypeOK
  <2>1. [success |-> 0, catchupRequired |-> FALSE, catchupFrom |-> 0]
          \in [success : 0..0, catchupRequired : BOOLEAN, catchupFrom : Int]
    OBVIOUS
  <2>2. [s \in Syncs |-> Resting] \in [Syncs -> Sync]  BY SyncRecords
  <2>3. SUFFICES ASSUME SyncInit PROVE SyncTypeOK
    OBVIOUS
  <2>4. clock = 0 /\ changedAt = 0 /\ lastSync = 0 /\ stored = TRUE /\ cut = FALSE
          /\ skipped = FALSE
    BY <2>3 DEF SyncInit
  <2>5. sync \in [Syncs -> Sync]  BY <2>2, <2>3 DEF SyncInit
  <2>6. account \in [success : 0..clock, catchupRequired : BOOLEAN, catchupFrom : Int]
    <3>1. account = [success |-> 0, catchupRequired |-> FALSE, catchupFrom |-> 0]
      BY <2>3 DEF SyncInit
    <3> QED BY <2>1, <2>4, <3>1
  <2>7. clock \in Nat /\ changedAt \in 0..clock /\ lastSync \in 0..clock  BY <2>4
  <2>8. stored \in BOOLEAN /\ cut \in BOOLEAN /\ skipped \in BOOLEAN  BY <2>4, Zenon
  <2> QED BY <2>5, <2>6, <2>7, <2>8 DEF SyncTypeOK
<1> QED BY <1>1, SyncStepTyped, PTL DEF SyncSpec
-----------------------------------------------------------------------------
(* The connector's overlap and the lookback together span two syncs: one that    *)
(* ran while the order changed, and one that ran beside it.                   *)
WideEnough == 2 * SyncTime <= LookBehind + Overlap

Saving(s) == sync[s].pc \in {"save", "finish"}

SyncTimes ==
  /\ account.success <= lastSync
  /\ \A s \in Syncs : Running(s) => sync[s].begun <= clock /\ clock <= sync[s].begun + SyncTime
  /\ \A s \in Syncs : sync[s].pc = "save" /\ sync[s].got = "old" => changedAt >= sync[s].begun

(* A catch-up, required or begun, goes back behind the watermark.             *)
CatchupReaches ==
  /\ account.catchupRequired => account.catchupFrom + CatchupOverlap <= lastSync
  /\ \A s \in Syncs : sync[s].pc = "fetch" /\ s[2] = "catchup" =>
       sync[s].since + CatchupOverlap <= lastSync

(* A sync that has fetched either brings a change the shop does not have, or that  *)
(* change is too recent to fall out of the window when the sync ends.          *)
FetchedOrRecent ==
  \A s \in Syncs : Saving(s) /\ ~stored =>
    \/ sync[s].pc = "save" /\ sync[s].got = "latest"
    \/ changedAt + SyncTime >= sync[s].begun

SyncInv ==
  SyncTimes /\ (cut \/ (CatchupReaches /\ (skipped \/ (NothingMissed /\ FetchedOrRecent))))

(* At the start nothing runs and nothing is missing.                         *)
LEMMA SyncInvInit == SyncInit => SyncInv
BY SyncAssumption DEF SyncInit, SyncInv, SyncTimes, Running, Resting, NothingMissed,
   CatchupReaches, FetchedOrRecent, Saving

(* Times and what was fetched, over every step of a sync.                     *)
LEMMA SyncTimesStep ==
  ASSUME SyncTypeOK, SyncTimes, NEW s \in Syncs, SyncStep(s)
  PROVE  SyncTimes'
<1> USE SyncAssumption DEF SyncTypeOK, SyncTimes, Running, Sync, Resting
<1>1. CASE BeginSync(s)
  <2>1. \A u \in Syncs \ {s} : sync'[u].pc = sync[u].pc /\ sync'[u].begun = sync[u].begun
                               /\ sync'[u].got = sync[u].got
    BY <1>1 DEF BeginSync
  <2>2. sync'[s].pc = "fetch" /\ sync'[s].begun = clock  BY <1>1 DEF BeginSync
  <2>3. UNCHANGED <<clock, changedAt, lastSync, account>>  BY <1>1 DEF BeginSync
  <2>4. clock \in Nat /\ SyncTime \in Nat  OBVIOUS
  <2>5. clock <= clock + SyncTime  BY <2>4
  <2> QED BY <2>1, <2>2, <2>3, <2>4, <2>5
<1>2. CASE Fetch(s)
  <2>1. /\ sync[s].pc = "fetch" /\ sync'[s].begun = sync[s].begun /\ sync'[s].got # "old"
        /\ \A u \in Syncs \ {s} : sync'[u] = sync[u]
    BY <1>2 DEF Fetch
  <2> QED BY <1>2, <2>1 DEF Fetch
<1>3. CASE Save(s)  BY <1>3 DEF Save
<1>4. CASE Finish(s)
  <2>1. ~Running(s)' /\ \A u \in Syncs \ {s} : sync'[u] = sync[u]
    BY <1>4 DEF Finish
  <2>2. account'.success <= lastSync'
    <3>1. lastSync' = clock /\ account.success \in 0..clock  BY <1>4 DEF Finish, Watermark
    <3>2. account'.success \in {clock, account.success}  BY <1>4 DEF Finish
    <3> QED BY <3>1, <3>2
  <2> QED BY <1>4, <2>1, <2>2 DEF Finish
<1>5. CASE FailSync(s)  BY <1>5 DEF FailSync
<1>6. CASE ClearCatchup(s)  BY <1>6 DEF ClearCatchup
<1> QED BY <1>1, <1>2, <1>3, <1>4, <1>5, <1>6 DEF SyncStep

(* What a sync does to a catch-up and to the watermark.                      *)
LEMMA CatchupStep ==
  ASSUME SyncTypeOK, CatchupReaches, NEW s \in Syncs, SyncStep(s)
  PROVE  CatchupReaches'
<1> USE SyncAssumption DEF SyncTypeOK, Sync, Resting
<1>0. lastSync \in Nat /\ clock \in Nat /\ lastSync <= clock
  OBVIOUS
<1>1. CASE BeginSync(s)
  <2>1. UNCHANGED <<lastSync, account>>  BY <1>1 DEF BeginSync
  <2>2. \A u \in Syncs \ {s} : sync'[u].pc = sync[u].pc /\ sync'[u].since = sync[u].since
    BY <1>1 DEF BeginSync
  <2>3. s[2] = "catchup" => account.catchupRequired /\ sync'[s].since = account.catchupFrom
    BY <1>1 DEF BeginSync
  <2> QED BY <2>1, <2>2, <2>3 DEF CatchupReaches
<1>2. CASE Fetch(s) \/ Save(s) \/ FailSync(s) \/ ClearCatchup(s)
  <2>1. lastSync' = lastSync /\ account'.catchupFrom = account.catchupFrom
        /\ (account'.catchupRequired => account.catchupRequired)
    BY <1>2 DEF Fetch, Save, FailSync, ClearCatchup
  <2>2. sync'[s].pc # "fetch" /\ \A u \in Syncs \ {s} : sync'[u] = sync[u]
    <3>1. CASE Fetch(s) \/ Save(s)  BY <3>1 DEF Fetch, Save
    <3>2. CASE FailSync(s) \/ ClearCatchup(s)  BY <3>2 DEF FailSync, ClearCatchup
    <3> QED BY <1>2, <3>1, <3>2
  <2> QED BY <2>1, <2>2 DEF CatchupReaches
<1>3. CASE Finish(s)
  <2>1. lastSync' = clock  BY <1>3 DEF Finish, Watermark
  <2>2. sync'[s].pc # "fetch" /\ \A u \in Syncs \ {s} : sync'[u] = sync[u]
    BY <1>3 DEF Finish
  <2>3. account'.catchupRequired => account'.catchupFrom = account.catchupFrom /\ account.catchupRequired
    BY <1>3 DEF Finish
  <2>4. account.catchupFrom \in Int /\ account'.catchupFrom \in Int
        /\ \A u \in Syncs : sync[u].since \in Int
    BY <1>3 DEF Finish
  <2>5. account'.catchupRequired => account'.catchupFrom + CatchupOverlap <= clock
    BY <1>0, <2>3, <2>4 DEF CatchupReaches
  <2>6. \A u \in Syncs : sync'[u].pc = "fetch" /\ u[2] = "catchup" =>
          sync'[u].since + CatchupOverlap <= clock
    BY <1>0, <2>2, <2>4 DEF CatchupReaches
  <2> QED BY <2>1, <2>5, <2>6 DEF CatchupReaches
<1> QED BY <1>1, <1>2, <1>3 DEF SyncStep

(* What a sync does to the order and to the watermark, when no catch-up has been  *)
(* shortened and no answer has left the change out.                          *)
LEMMA SyncMissesNothing ==
  ASSUME WideEnough, SyncTypeOK, SyncTimes, NothingMissed, CatchupReaches, FetchedOrRecent,
         NEW s \in Syncs, SyncStep(s)
  PROVE  skipped' \/ (NothingMissed' /\ FetchedOrRecent')
<1> USE SyncAssumption DEF SyncTypeOK, Sync, Resting
<1>0. changedAt \in Nat /\ lastSync \in Nat /\ clock \in Nat /\ lastSync <= clock
      /\ changedAt <= clock /\ \A u \in Syncs : sync[u].begun \in Nat
  OBVIOUS
<1>1. CASE BeginSync(s)
  <2>1. UNCHANGED <<clock, changedAt, stored, lastSync, account>>  BY <1>1 DEF BeginSync
  <2>2. \A u \in Syncs \ {s} : sync'[u].pc = sync[u].pc /\ sync'[u].begun = sync[u].begun
                               /\ sync'[u].got = sync[u].got /\ sync'[u].since = sync[u].since
    BY <1>1 DEF BeginSync
  <2>3. /\ sync'[s].pc = "fetch"
    BY <1>1 DEF BeginSync
  <2> QED BY <2>1, <2>2, <2>3 DEF NothingMissed, FetchedOrRecent, Saving
<1>2. CASE Fetch(s)
  <2>1. UNCHANGED <<clock, changedAt, stored, lastSync, account>>  BY <1>2 DEF Fetch
  <2>2. /\ sync[s].pc = "fetch" /\ sync'[s].pc = "save"
        /\ sync'[s].got = "latest" \/ skipped' = (skipped \/ (~stored /\ changedAt \in Window(s)))
        /\ \A u \in Syncs \ {s} : sync'[u] = sync[u]
    BY <1>2 DEF Fetch
  <2>3. EffectiveSince(s) \in Int /\ EffectiveSince(s) <= lastSync - LookBehind
    BY <1>0, <2>2 DEF CatchupReaches, EffectiveSince
  <2>4. ~stored => changedAt \in Window(s)
    BY <1>0, <2>3 DEF NothingMissed, Window
  <2>5. ~stored => skipped' \/ sync'[s].got = "latest"
    BY <2>2, <2>4
  <2> QED BY <2>1, <2>2, <2>5 DEF NothingMissed, FetchedOrRecent, Saving
<1>3. CASE Save(s)
  <2>1. UNCHANGED <<clock, changedAt, lastSync, account>>  BY <1>3 DEF Save
  <2>2. /\ sync[s].pc = "save"
        /\ stored' = IF sync[s].got = "none" THEN stored ELSE sync[s].got = "latest"
        /\ sync'[s].pc = "finish" /\ sync'[s].begun = sync[s].begun
        /\ \A u \in Syncs \ {s} : sync'[u] = sync[u]
    BY <1>3 DEF Save
  <2>4. CASE sync[s].got = "latest"
    BY <2>2, <2>4 DEF NothingMissed, FetchedOrRecent
  <2>5. CASE sync[s].got = "none"
    BY <2>1, <2>2, <2>5 DEF NothingMissed, FetchedOrRecent, Saving
  <2>6. CASE sync[s].got = "old"
    <3>1. changedAt >= sync[s].begun /\ clock <= sync[s].begun + SyncTime
      BY <2>2, <2>6 DEF SyncTimes, Running
    <3>2. SyncTime \in Nat /\ changedAt + SyncTime >= clock /\ LookBehind + Overlap >= SyncTime
      BY <1>0, <3>1 DEF WideEnough
    <3>3. NothingMissed'  BY <1>0, <2>1, <3>2 DEF NothingMissed
    <3>4. \A u \in Syncs : Saving(u)' => sync'[u].begun <= clock
      BY <2>2 DEF SyncTimes, Saving, Running
    <3>5. FetchedOrRecent'
      <4>1. \A u \in Syncs : Saving(u)' => changedAt + SyncTime >= sync'[u].begun
        <5> SUFFICES ASSUME NEW u \in Syncs, Saving(u)'
                     PROVE  changedAt + SyncTime >= sync'[u].begun
          OBVIOUS
        <5>1. sync'[u].begun \in Nat  BY <1>0, <2>2
        <5> QED BY <1>0, <3>2, <3>4, <5>1
      <4> QED BY <2>1, <4>1 DEF FetchedOrRecent
    <3> QED BY <3>3, <3>5
  <2> QED BY <2>4, <2>5, <2>6
<1>4. CASE Finish(s)
  <2>1. UNCHANGED <<clock, changedAt, stored>> /\ lastSync' = clock  BY <1>4 DEF Finish, Watermark
  <2>2. /\ sync[s].pc = "finish" /\ sync'[s].pc \in {"idle", "clear"}
        /\ \A u \in Syncs \ {s} : sync'[u] = sync[u]
    BY <1>4 DEF Finish
  <2>5. NothingMissed'
    <3> SUFFICES ASSUME ~stored PROVE changedAt >= clock - LookBehind - Overlap
      BY <2>1 DEF NothingMissed
    <3>1. changedAt + SyncTime >= sync[s].begun  BY <2>2 DEF FetchedOrRecent, Saving
    <3>2. clock <= sync[s].begun + SyncTime  BY <2>2 DEF SyncTimes, Running
    <3> QED BY <1>0, <3>1, <3>2 DEF WideEnough
  <2>7. FetchedOrRecent'  BY <2>1, <2>2 DEF FetchedOrRecent, Saving
  <2> QED BY <2>5, <2>7
<1>5. CASE FailSync(s)
  BY <1>5 DEF FailSync, NothingMissed, FetchedOrRecent, Saving
<1>6. CASE ClearCatchup(s)
  BY <1>6 DEF ClearCatchup, NothingMissed, FetchedOrRecent, Saving
<1> QED BY <1>1, <1>2, <1>3, <1>4, <1>5, <1>6 DEF SyncStep

(* The watchdog, the marketplace and the clock.                              *)
LEMMA EnvironmentMissesNothing ==
  ASSUME SyncTypeOK, SyncInv, Watchdog \/ Change \/ SyncTick
  PROVE  SyncInv'
<1> USE SyncAssumption DEF SyncTypeOK, Sync
<1>1. CASE Watchdog
  <2>1. UNCHANGED <<clock, changedAt, stored, lastSync, sync, skipped>> /\ account'.success = account.success
    BY <1>1 DEF Watchdog
  <2>2. SyncTimes'  BY <2>1 DEF SyncInv, SyncTimes, Running
  <2>3. ~cut' => ~cut /\ account'.catchupFrom = account.success - CatchupOverlap
    BY <1>1 DEF Watchdog
  <2> QED BY <2>1, <2>2, <2>3
          DEF SyncInv, SyncTimes, NothingMissed, CatchupReaches, FetchedOrRecent, Saving
<1>2. CASE Change
  <2>1. changedAt' = clock /\ ~stored' /\ UNCHANGED <<clock, lastSync, account, cut>>
    BY <1>2 DEF Change
  <2>2. \A u \in Syncs : sync'[u].pc = sync[u].pc /\ sync'[u].begun = sync[u].begun
                         /\ sync'[u].since = sync[u].since
    BY <1>2 DEF Change
  <2>3. \A u \in Syncs : Running(u) => sync[u].begun <= clock  BY DEF SyncInv, SyncTimes
  <2>4. SyncTimes'  BY <2>1, <2>2, <2>3 DEF SyncInv, SyncTimes, Running
  <2>5. NothingMissed'  BY <2>1 DEF NothingMissed
  <2>6. FetchedOrRecent'
    BY <2>1, <2>2, <2>3 DEF FetchedOrRecent, Saving, Running
  <2> QED BY <2>1, <2>2, <2>4, <2>5, <2>6 DEF SyncInv, CatchupReaches
<1>3. CASE SyncTick
  <2>1. UNCHANGED <<changedAt, stored, lastSync, account, sync, cut, skipped>> /\ clock' = clock + 1
        /\ \A s \in Syncs : Running(s) => clock < sync[s].begun + SyncTime
    BY <1>3 DEF SyncTick
  <2>2. SyncTimes'  BY <2>1 DEF SyncInv, SyncTimes, Running
  <2> QED BY <2>1, <2>2 DEF SyncInv, NothingMissed, CatchupReaches, FetchedOrRecent, Saving
<1> QED BY <1>1, <1>2, <1>3

(* Where the window spans two syncs, no change of an order is missed for good,    *)
(* whatever fails, overlaps or is caught up, until an outage outlasts the longest *)
(* catch-up, or the answer to a question about that very change leaves it out.    *)
THEOREM NoOrderMissed ==
  ASSUME WideEnough
  PROVE  SyncSpec => []NothingMissedUncut
<1>1. SyncTypeOK /\ SyncInv /\ [SyncNext]_syncVars => SyncInv'
  <2> SUFFICES ASSUME SyncTypeOK, SyncInv, [SyncNext]_syncVars PROVE SyncInv'
    OBVIOUS
  <2>1. ASSUME NEW s \in Syncs, SyncStep(s) PROVE SyncInv'
    <3>1. SyncTimes'  BY <2>1, SyncTimesStep DEF SyncInv
    <3>2. cut' = cut
      BY <2>1 DEF SyncStep, BeginSync, Fetch, Save, Finish, FailSync, ClearCatchup
    <3>3. ~cut => CatchupReaches'  BY <2>1, CatchupStep DEF SyncInv
    <3>4. ~cut /\ ~skipped => skipped' \/ (NothingMissed' /\ FetchedOrRecent')
      BY <2>1, WideEnough, SyncMissesNothing DEF SyncInv
    <3>5. skipped => skipped' \/ (NothingMissed' /\ FetchedOrRecent')
      <4>1. CASE Save(s) /\ sync[s].got = "latest"
        <5>1. stored'  BY <4>1 DEF Save
        <5> QED BY <5>1 DEF NothingMissed, FetchedOrRecent
      <4>2. CASE ~(Save(s) /\ sync[s].got = "latest")
        BY <2>1, <4>2 DEF SyncStep, BeginSync, Fetch, Save, Finish, FailSync, ClearCatchup
      <4> QED BY <4>1, <4>2
    <3> QED BY <3>1, <3>2, <3>3, <3>4, <3>5 DEF SyncInv
  <2>2. CASE UNCHANGED syncVars
    BY <2>2 DEF syncVars, SyncInv, SyncTimes, Running, NothingMissed, CatchupReaches,
                FetchedOrRecent, Saving
  <2> QED BY <2>1, <2>2, EnvironmentMissesNothing DEF SyncNext
<1>2. SyncInv => NothingMissedUncut  BY DEF SyncInv, NothingMissedUncut
<1> QED BY <1>1, <1>2, SyncInvInit, SyncTypeCorrect, PTL DEF SyncSpec
-----------------------------------------------------------------------------
(* The two locks keep two syncs of one process apart: syncs that run at the same  *)
(* time are of different processes and both know it.                          *)
BesideMarked == \A s, u \in Syncs : Running(s) /\ Running(u) /\ s # u => sync[s].beside

(* Every step keeps a sync that ran alone from undoing a newer version.         *)
LEMMA SnapshotsStep ==
  ASSUME SyncTypeOK, BesideMarked, SnapshotsInOrder, [SyncNext]_syncVars
  PROVE  BesideMarked' /\ SnapshotsInOrder'
<1> USE DEF SyncTypeOK, Sync
<1>1. ASSUME NEW s \in Syncs, BeginSync(s) PROVE BesideMarked' /\ SnapshotsInOrder'
  <2>1. /\ stored' = stored /\ sync[s].pc = "idle" /\ sync'[s].pc = "fetch"
    BY <1>1 DEF BeginSync, Resting
  <2>2. \A u \in Syncs : Running(u) /\ u[1] # s[1] => sync'[s].beside
    <3> DEFINE other == {u \in Syncs : Running(u) /\ u[1] # s[1]}
    <3>1. sync'[s].beside = (other # {})  BY <1>1 DEF BeginSync, Resting
    <3>2. SUFFICES ASSUME other # {} PROVE sync'[s].beside
      OBVIOUS
    <3> HIDE DEF other
    <3> QED BY <3>1, <3>2, Zenon
  <2>3. \A u \in Syncs \ {s} :
          /\ sync'[u].pc = sync[u].pc /\ sync'[u].got = sync[u].got
          /\ Running(u) => u[1] # s[1] /\ sync'[u].beside
          /\ ~Running(u) => sync'[u].beside = sync[u].beside
    BY <1>1 DEF BeginSync, LockFree
  <2>4. BesideMarked'
    <3> SUFFICES ASSUME NEW v \in Syncs, NEW w \in Syncs, Running(v)', Running(w)', v # w
                 PROVE  sync'[v].beside
      BY DEF BesideMarked
    <3>1. CASE v # s
      <4>1. Running(v)  BY <2>3, <3>1 DEF Running
      <4> QED BY <2>3, <3>1, <4>1
    <3>2. CASE v = s
      <4>1. w # s /\ Running(w)  BY <2>3, <3>2 DEF Running
      <4> QED BY <2>2, <2>3, <3>2, <4>1
    <3> QED BY <3>1, <3>2
  <2>5. SnapshotsInOrder'  BY <2>1, <2>3 DEF SnapshotsInOrder, Running
  <2> QED BY <2>4, <2>5
<1>2. ASSUME NEW s \in Syncs, Fetch(s) PROVE BesideMarked' /\ SnapshotsInOrder'
  <2>1. /\ stored' = stored /\ sync[s].pc = "fetch" /\ sync'[s].pc = "save"
        /\ sync'[s].got \in {"latest", "none"} /\ sync'[s].beside = sync[s].beside
        /\ \A u \in Syncs \ {s} : sync'[u] = sync[u]
    BY <1>2 DEF Fetch
  <2> QED BY <2>1 DEF BesideMarked, SnapshotsInOrder, Running
<1>3. ASSUME NEW s \in Syncs, Save(s) PROVE BesideMarked' /\ SnapshotsInOrder'
  <2>1. /\ sync[s].pc = "save" /\ sync'[s].pc = "finish" /\ sync'[s].beside = sync[s].beside
        /\ \A u \in Syncs \ {s} : sync'[u] = sync[u]
    BY <1>3 DEF Save
  <2>2. \A u \in Syncs \ {s} : sync[u].pc = "save" => sync[u].beside
    BY <2>1 DEF BesideMarked, Running
  <2> QED BY <2>1, <2>2 DEF BesideMarked, SnapshotsInOrder, Running
<1>4. ASSUME NEW s \in Syncs, Finish(s) \/ FailSync(s) \/ ClearCatchup(s)
      PROVE  BesideMarked' /\ SnapshotsInOrder'
  <2>1. /\ stored' = stored /\ sync'[s].pc \in {"idle", "clear"}
        /\ \A u \in Syncs \ {s} : sync'[u] = sync[u]
    BY <1>4 DEF Finish, FailSync, ClearCatchup, Resting
  <2> QED BY <2>1 DEF BesideMarked, SnapshotsInOrder, Running
<1>5. CASE Change
  <2>1. ~stored' /\ \A u \in Syncs : sync'[u].pc = sync[u].pc /\ sync'[u].beside = sync[u].beside
    BY <1>5 DEF Change
  <2> QED BY <2>1 DEF BesideMarked, SnapshotsInOrder, Running
<1>6. CASE Watchdog \/ SyncTick \/ UNCHANGED syncVars
  <2>1. sync' = sync /\ stored' = stored  BY <1>6 DEF Watchdog, SyncTick, syncVars
  <2> QED BY <2>1 DEF BesideMarked, SnapshotsInOrder, Running
<1> QED BY <1>1, <1>2, <1>3, <1>4, <1>5, <1>6 DEF SyncNext, SyncStep

(* For any number of processes: a sync that ran alone never puts an old version   *)
(* of an order over a newer one, whatever syncs ran before it, failed or were    *)
(* cut short.                                                              *)
THEOREM SnapshotsOrdered == SyncSpec => []SnapshotsInOrder
<1>1. SyncInit => BesideMarked /\ SnapshotsInOrder
  BY DEF SyncInit, BesideMarked, SnapshotsInOrder, Running, Resting
<1> QED BY <1>1, SnapshotsStep, SyncTypeCorrect, PTL DEF SyncSpec
-----------------------------------------------------------------------------
(* A snapshot gives an order one of the statuses.                            *)
LEMMA SnapshotTyped ==
  ASSUME NEW k \in AllKinds, NEW ps \in PlatformStatuses, NEW b \in BizStatuses
  PROVE  Snapshot(k, ps, b) \in BizStatuses
<1> USE DEF BizStatuses, BizRank
<1>1. Candidate(k, ps) \in BizStatuses  BY DEF Candidate
<1>2. Compute(k, ps, b) \in BizStatuses  BY <1>1 DEF Compute, AdvanceStatus
<1>3. OfflineTarget(ps, b) \in BizStatuses  BY DEF OfflineTarget
<1> QED BY <1>2, <1>3 DEF Snapshot

(* Every step keeps the types of the variables.                             *)
LEMMA StatusStepTyped ==
  ASSUME StatusTypeOK, [StatusNext]_statusVars
  PROVE  StatusTypeOK'
<1> USE DEF StatusTypeOK
<1>1. CASE Proceed  BY <1>1 DEF Proceed
<1>2. CASE ApplySnapshot
  <2>1. PICK ps \in {latest, early} : biz' = Snapshot(kind, ps, biz)
    BY <1>2 DEF ApplySnapshot
  <2> QED BY <1>2, <2>1, SnapshotTyped, StatusAssumption DEF ApplySnapshot
<1>3. CASE Work
  <2>1. biz' \in {"printing", "shipped", "buying", "picking"}  BY <1>3 DEF Work
  <2>2. biz' \in BizStatuses  BY <2>1 DEF BizStatuses, BizRank
  <2> QED BY <1>3, <2>2 DEF Work
<1>4. CASE UNCHANGED statusVars  BY <1>4 DEF statusVars
<1> QED BY <1>1, <1>2, <1>3, <1>4 DEF StatusNext

(* The variables keep their types, for any kinds of orders.                  *)
THEOREM StatusTypeCorrect == StatusSpec => []StatusTypeOK
<1>1. StatusInit => StatusTypeOK
  BY DEF StatusInit, StatusTypeOK, BizStatuses, BizRank, PlatformStatuses, PlatformRank
<1> QED BY <1>1, StatusStepTyped, PTL DEF StatusSpec

(* The rules of a snapshot that is not of Joom's own warehouse do not take an    *)
(* order back to pending: a rank never falls, and only pending has the lowest.   *)
LEMMA SnapshotForward ==
  ASSUME NEW k \in AllKinds, k # "fbj", NEW ps \in PlatformStatuses,
         NEW b \in BizStatuses, b # "pending"
  PROVE  Snapshot(k, ps, b) # "pending"
<1> USE DEF BizStatuses, BizRank
<1>1. BizRank["pending"] = 0 /\ BizRank[b] > 0  OBVIOUS
<1>2. \A c \in BizStatuses : AdvanceStatus(b, c) # "pending"
  BY <1>1 DEF AdvanceStatus
<1>3. Candidate(k, ps) \in BizStatuses  BY DEF Candidate
<1>4. Compute(k, ps, b) # "pending"  BY <1>2, <1>3 DEF Compute
<1>5. OfflineTarget(ps, b) # "pending"  BY DEF OfflineTarget
<1> QED BY <1>4, <1>5 DEF Snapshot

(* A voided order stays voided under every snapshot, but for three kinds.       *)
LEMMA SnapshotVoided ==
  ASSUME NEW k \in AllKinds \ {"fbj", "fbo_completed", "offline"},
         NEW ps \in PlatformStatuses
  PROVE  Snapshot(k, ps, "voided") = "voided"
<1>1. Candidate(k, ps) \in {"voided", "pending", "delivered", "shipped"}
  BY DEF Candidate, AllKinds
<1>2. AdvanceStatus("voided", Candidate(k, ps)) = "voided"
  BY <1>1 DEF AdvanceStatus, BizRank
<1> QED BY <1>2 DEF Snapshot, Compute

(* For all kinds of orders and snapshots in any order: none takes an order back   *)
(* to pending, and none brings a voided order back, but for the kinds WorkKept   *)
(* names.                                                                  *)
THEOREM WorkNeverUndone == StatusSpec => WorkKept
<1> DEFINE Kept == /\ kind # "fbj" /\ ApplySnapshot /\ biz # "pending" => biz' # "pending"
                   /\ biz = "voided" => biz' = "voided" \/ kind \in {"fbj", "fbo_completed", "offline"}
<1>1. StatusTypeOK /\ [StatusNext]_statusVars => [Kept]_statusVars
  <2> SUFFICES ASSUME StatusTypeOK, StatusNext PROVE Kept
    OBVIOUS
  <2> USE StatusAssumption DEF StatusTypeOK
  <2>1. CASE Proceed  BY <2>1, SnapshotForward DEF Proceed, ApplySnapshot
  <2>2. CASE ApplySnapshot
    <3>1. PICK ps \in PlatformStatuses : biz' = Snapshot(kind, ps, biz)
      BY <2>2 DEF ApplySnapshot
    <3>2. kind \in AllKinds  OBVIOUS
    <3> QED BY <3>1, <3>2, SnapshotForward, SnapshotVoided
  <2>3. CASE Work
    <3>1. biz # "voided" /\ biz' # "pending"  BY <2>3 DEF Work
    <3> QED BY <3>1
  <2> QED BY <2>1, <2>2, <2>3 DEF StatusNext
<1> HIDE DEF Kept
<1>2. StatusSpec => [][Kept]_statusVars  BY <1>1, StatusTypeCorrect, PTL DEF StatusSpec
<1> QED BY <1>2 DEF Kept, WorkKept
-----------------------------------------------------------------------------
(* Every step keeps the types of the variables.                             *)
LEMMA CatalogStepTyped ==
  ASSUME CatalogTypeOK, [CatalogNext]_catalogVars
  PROVE  CatalogTypeOK'
<1> USE CatalogAssumption DEF CatalogTypeOK, Pull, NoPull
<1>1. \A s \in CatalogSyncs : s[2] \in Modes  BY DEF CatalogSyncs
<1>2. 0 \in 0..MaxCatalog /\ hour \in 0..MaxCatalog  OBVIOUS
<1>3. ASSUME NEW s \in CatalogSyncs, BeginPull(s) PROVE CatalogTypeOK'
  BY <1>2, <1>3 DEF BeginPull
<1>4. ASSUME NEW s \in CatalogSyncs, FetchProducts(s) PROVE CatalogTypeOK'
  <2>1. PICK g \in {"none", "old", "latest"}, l \in BOOLEAN :
          pull' = [pull EXCEPT ![s] = [@ EXCEPT !.pc = "save", !.got = g, !.unsure = l]]
    <3>1. \A g \in {"none", "old", "latest"} : Doubt(s, g) \in BOOLEAN  BY DEF Doubt
    <3> QED BY <1>4, <3>1 DEF FetchProducts
  <2>2. pull' \in [CatalogSyncs -> Pull]  BY <2>1
  <2> QED BY <1>4, <2>2 DEF FetchProducts
<1>5. ASSUME NEW s \in CatalogSyncs, CommitPull(s) PROVE CatalogTypeOK'
  <2>1. Upserted(s) \in [latest : BOOLEAN, active : BOOLEAN, seen : 0..MaxCatalog]
    BY DEF Upserted
  <2>2. row' \in [latest : BOOLEAN, active : BOOLEAN, seen : 0..MaxCatalog]
    BY <1>5, <2>1 DEF CommitPull, Deactivated
  <2>3. cursor' \in [Modes -> 0..MaxCatalog]  BY <1>1, <1>5 DEF CommitPull, Saved
  <2>4. pull' \in [CatalogSyncs -> Pull]  BY <1>2, <1>5 DEF CommitPull
  <2> QED BY <1>5, <2>2, <2>3, <2>4 DEF CommitPull
<1>6. ASSUME NEW s \in CatalogSyncs, FailPull(s) PROVE CatalogTypeOK'
  BY <1>2, <1>6 DEF FailPull
<1>7. CASE ChangeListing  BY <1>7 DEF ChangeListing, Outdated
<1>8. CASE Delist  BY <1>2, <1>8 DEF Delist, Outdated
<1>9. CASE Hour  BY <1>9 DEF Hour
<1>10. CASE UNCHANGED catalogVars  BY <1>10 DEF catalogVars
<1> QED BY <1>3, <1>4, <1>5, <1>6, <1>7, <1>8, <1>9, <1>10 DEF CatalogNext

(* The variables keep their types, for any set of origins.                  *)
THEOREM CatalogTypeCorrect == CatalogSpec => []CatalogTypeOK
<1>1. CatalogInit => CatalogTypeOK
  <2>1. 0 \in 0..MaxCatalog /\ 1 \in 1..MaxCatalog  BY CatalogAssumption
  <2>2. NoPull \in Pull  BY <2>1 DEF NoPull, Pull
  <2>3. [listed |-> TRUE, changed |-> 1, removed |-> 0]
          \in [listed : BOOLEAN, changed : 1..MaxCatalog, removed : 0..MaxCatalog]
    BY <2>1
  <2>4. [latest |-> FALSE, active |-> FALSE, seen |-> 0]
          \in [latest : BOOLEAN, active : BOOLEAN, seen : 0..MaxCatalog]
    BY <2>1
  <2> QED BY <2>1, <2>2, <2>3, <2>4 DEF CatalogInit, CatalogTypeOK
<1> QED BY <1>1, CatalogStepTyped, PTL DEF CatalogSpec
-----------------------------------------------------------------------------
(* Nothing lies in the future; a row that is active was seen.               *)
TimesInOrder ==
  /\ \A m \in Modes : cursor[m] <= hour
  /\ listing.changed <= hour /\ listing.removed <= hour
  /\ row.active => row.seen > 0
  /\ row.seen <= hour
  /\ \A s \in CatalogSyncs : Pulling(s) => 1 <= pull[s].begun /\ pull[s].begun <= hour

(* Syncs that run at the same time know it; one that is sure began after every    *)
(* sync that has been committed.                                           *)
UnsureKnown ==
  /\ \A s, u \in CatalogSyncs : Pulling(s) /\ Pulling(u) /\ s # u => pull[s].unsure
  /\ \A s \in CatalogSyncs : Pulling(s) /\ ~pull[s].unsure =>
       \A m \in Modes : cursor[m] <= pull[s].begun

(* What a sync has fetched is the latest state, or that has changed since; and   *)
(* what it has not fetched it may leave out: a change since it began, or, for an  *)
(* incremental sync, one the catalogue shows.  If neither, it is unsure.         *)
FetchedSince ==
  /\ ~listing.listed => listing.removed >= row.seen
  /\ \A s \in CatalogSyncs : pull[s].pc = "save" =>
       /\ pull[s].got = "latest" => listing.listed
       /\ pull[s].got = "old" =>
            IF listing.listed THEN pull[s].unsure \/ listing.changed >= pull[s].begun
                              ELSE listing.removed >= pull[s].begun
       /\ pull[s].got = "none" /\ listing.listed /\ ~pull[s].unsure =>
            \/ listing.changed >= pull[s].begun
            \/ s[2] = "incremental" /\ (doubtful \/ (row.latest /\ row.active))

CatalogInv == TimesInOrder /\ UnsureKnown /\ FetchedSince /\ CatalogCurrent

(* The catalogue is as empty as it can be when it starts.                    *)
LEMMA CatalogInvInit == CatalogInit => CatalogInv
BY DEF CatalogInit, CatalogInv, TimesInOrder, UnsureKnown, FetchedSince, CatalogCurrent,
       Pulling, NoPull, LatestCursor, Modes

(* A sync that begins.                                                     *)
LEMMA BeginPullKeeps ==
  ASSUME CatalogTypeOK, CatalogInv, NEW s \in CatalogSyncs, BeginPull(s)
  PROVE  CatalogInv'
<1> USE DEF CatalogTypeOK, Pull
<1>1. /\ ~Pulling(s) /\ UNCHANGED <<hour, listing, row, cursor, doubtful>>
      /\ pull'[s].pc = "fetch" /\ pull'[s].begun = hour
      /\ pull'[s].unsure = (\E u \in CatalogSyncs \ {s} : Pulling(u))
  BY DEF BeginPull, NoPull
<1>2. \A u \in CatalogSyncs \ {s} :
        /\ pull'[u].pc = pull[u].pc /\ pull'[u].begun = pull[u].begun
        /\ pull'[u].got = pull[u].got
        /\ (pull'[u].unsure <=> pull[u].unsure \/ Pulling(u))
  <2> SUFFICES ASSUME NEW u \in CatalogSyncs \ {s}
               PROVE  /\ pull'[u].pc = pull[u].pc /\ pull'[u].begun = pull[u].begun
                      /\ pull'[u].got = pull[u].got
                      /\ (pull'[u].unsure <=> pull[u].unsure \/ Pulling(u))
    OBVIOUS
  <2>1. pull'[u] = IF Pulling(u) THEN [pull[u] EXCEPT !.unsure = TRUE] ELSE pull[u]
    BY DEF BeginPull
  <2>2. pull[u] \in Pull  OBVIOUS
  <2>3. CASE Pulling(u)
    <3>1. pull'[u] = [pull[u] EXCEPT !.unsure = TRUE]  BY <2>1, <2>3
    <3> QED BY <2>2, <2>3, <3>1
  <2>4. CASE ~Pulling(u)
    <3>1. pull'[u] = pull[u]  BY <2>1, <2>4
    <3> QED BY <2>4, <3>1
  <2> QED BY <2>3, <2>4
<1>3. TimesInOrder'  BY <1>1, <1>2 DEF CatalogInv, TimesInOrder, Pulling
<1>4. UnsureKnown'
  BY <1>1, <1>2 DEF CatalogInv, TimesInOrder, UnsureKnown, Pulling
<1>5. FetchedSince'  BY <1>1, <1>2 DEF CatalogInv, FetchedSince
<1>6. CatalogCurrent'  BY <1>1 DEF CatalogInv, CatalogCurrent, LatestCursor
<1> QED BY <1>3, <1>4, <1>5, <1>6 DEF CatalogInv

(* A sync that fetches: the marketplace as it is, or nothing it could miss.   *)
LEMMA FetchProductsKeeps ==
  ASSUME CatalogTypeOK, CatalogInv, NEW s \in CatalogSyncs, FetchProducts(s)
  PROVE  CatalogInv'
<1> USE DEF CatalogTypeOK, Pull
<1>1. /\ pull[s].pc = "fetch" /\ UNCHANGED <<hour, listing, row, cursor, doubtful>>
      /\ pull'[s].pc = "save" /\ pull'[s].begun = pull[s].begun
      /\ pull[s].unsure => pull'[s].unsure
      /\ pull'[s].got = "latest" => listing.listed
      /\ pull'[s].got = "old" => listing.listed /\ pull'[s].unsure
      /\ pull'[s].got = "none" /\ Asked(s) => pull'[s].unsure
      /\ \A u \in CatalogSyncs \ {s} : pull'[u] = pull[u]
  <2>1. PICK g \in IF listing.listed THEN {"none", "old", "latest"} ELSE {"none"} :
          pull' = [pull EXCEPT ![s] =
            [@ EXCEPT !.pc = "save", !.got = g, !.unsure = Doubt(s, g)]]
    BY DEF FetchProducts
  <2>2. pull[s] \in Pull  OBVIOUS
  <2>6. /\ pull'[s].pc = "save" /\ pull'[s].begun = pull[s].begun
        /\ pull'[s].got = g /\ pull'[s].unsure = Doubt(s, g)
    BY <2>1, <2>2
  <2>7. \A u \in CatalogSyncs \ {s} : pull'[u] = pull[u]  BY <2>1
  <2>8. g = "latest" => listing.listed  OBVIOUS
  <2>9. g = "old" => listing.listed  OBVIOUS
  <2>10. pull[s].pc = "fetch" /\ UNCHANGED <<hour, listing, row, cursor, doubtful>>
    BY DEF FetchProducts
  <2> QED BY <2>6, <2>7, <2>8, <2>9, <2>10, Zenon DEF Doubt
<1>2. \A u \in CatalogSyncs : Pulling(u)' = Pulling(u)  BY <1>1 DEF Pulling
<1>3. TimesInOrder'  BY <1>1, <1>2 DEF CatalogInv, TimesInOrder
<1>4. UnsureKnown'  BY <1>1, <1>2 DEF CatalogInv, UnsureKnown
<1>5. FetchedSince'
  <2>1. s[2] = "full" \/ s[2] = "incremental"  BY DEF CatalogSyncs, Modes
  <2>2. \A m \in Modes : cursor[m] \in Nat  OBVIOUS
  <2>3. listing.listed /\ listing.changed < LatestCursor => doubtful \/ (row.latest /\ row.active)
    BY <2>2 DEF CatalogInv, CatalogCurrent, LatestCursor, Modes
  <2> QED BY <1>1, <2>1, <2>2, <2>3 DEF CatalogInv, FetchedSince, LatestCursor, Modes, Asked
<1>6. CatalogCurrent'  BY <1>1 DEF CatalogInv, CatalogCurrent, LatestCursor
<1> QED BY <1>3, <1>4, <1>5, <1>6 DEF CatalogInv

(* A sync that ends without a commit.                                       *)
LEMMA FailPullKeeps ==
  ASSUME CatalogTypeOK, CatalogInv, NEW s \in CatalogSyncs, FailPull(s)
  PROVE  CatalogInv'
<1> USE DEF CatalogTypeOK, Pull
<1>1. /\ UNCHANGED <<hour, listing, row, cursor, doubtful>>
      /\ pull'[s].pc = "idle" /\ \A u \in CatalogSyncs \ {s} : pull'[u] = pull[u]
  BY DEF FailPull, NoPull
<1>2. TimesInOrder'  BY <1>1 DEF CatalogInv, TimesInOrder, Pulling
<1>3. UnsureKnown'  BY <1>1 DEF CatalogInv, UnsureKnown, Pulling
<1>4. FetchedSince'  BY <1>1 DEF CatalogInv, FetchedSince
<1>5. CatalogCurrent'  BY <1>1 DEF CatalogInv, CatalogCurrent, LatestCursor
<1> QED BY <1>2, <1>3, <1>4, <1>5 DEF CatalogInv

(* A sync that commits.  If it ran alone its begin is the latest of the cursors:  *)
(* what it wrote is the latest state or changed after that, and what it left     *)
(* alone the catalogue shows.  If not, doubtful remembers it.               *)
LEMMA CommitPullKeeps ==
  ASSUME CatalogTypeOK, CatalogInv, NEW s \in CatalogSyncs, CommitPull(s)
  PROVE  CatalogInv'
<1> USE DEF CatalogTypeOK, Pull
<1> DEFINE b == pull[s].begun
           g == pull[s].got
<1>1. /\ pull[s].pc = "save" /\ UNCHANGED <<hour, listing>>
      /\ row' = Deactivated(s, Upserted(s))
      /\ cursor' = [cursor EXCEPT ![s[2]] = b]
      /\ doubtful' = (pull[s].unsure \/ (doubtful /\ s[2] # "full"))
  BY DEF CommitPull, Saved
<1>2. pull'[s].pc = "idle" /\ \A u \in CatalogSyncs \ {s} : pull'[u] = pull[u]
  BY DEF CommitPull, NoPull
<1>3. s[2] \in Modes /\ Pulling(s) /\ b \in Nat /\ 1 <= b /\ b <= hour
  BY <1>1 DEF CatalogInv, TimesInOrder, Pulling, CatalogSyncs
<1>4. /\ row'.seen \in Nat /\ row'.seen = IF g = "none" THEN row.seen ELSE b
      /\ row'.latest = IF g = "none" THEN row.latest ELSE g = "latest"
      /\ row'.active => g # "none" \/ (row.active /\ ~(s[2] = "full" /\ 0 < row.seen /\ row.seen < b))
      /\ g # "none" => row'.active
      /\ g = "none" /\ row.active /\ s[2] # "full" => row'.active
  BY <1>1, <1>3 DEF Deactivated, Upserted
<1>5. TimesInOrder'
  BY <1>1, <1>2, <1>3, <1>4 DEF CatalogInv, TimesInOrder, Pulling
<1>6. UnsureKnown'
  <2>1. \A u \in CatalogSyncs : Pulling(u)' /\ ~pull'[u].unsure => FALSE
    BY <1>2, <1>3 DEF CatalogInv, UnsureKnown, Pulling
  <2> QED BY <2>1, <1>2 DEF CatalogInv, UnsureKnown, Pulling
<1>7. FetchedSince'
  <2>1. ~listing.listed => listing.removed >= row'.seen
    BY <1>1, <1>4 DEF CatalogInv, FetchedSince
  <2>2. \A u \in CatalogSyncs \ {s} : pull[u].pc = "save" => pull[u].unsure
    BY <1>3 DEF CatalogInv, UnsureKnown, Pulling
  <2> QED BY <1>1, <1>2, <2>1, <2>2 DEF CatalogInv, FetchedSince
<1>8. CatalogCurrent'
  <2> SUFFICES ASSUME ~pull[s].unsure, doubtful => s[2] = "full"
               PROVE  CatalogCurrent'
    BY <1>1 DEF CatalogCurrent
  <2>1. \A m \in Modes : cursor[m] <= b
    BY <1>3 DEF CatalogInv, UnsureKnown
  <2>2. LatestCursor' = b
    BY <1>1, <1>3, <2>1 DEF LatestCursor, Modes
  <2>3. listing.listed /\ ~(row'.latest /\ row'.active) => listing.changed >= b
    <3>1. CASE g = "latest"  BY <1>4, <3>1
    <3>2. CASE g = "old"  BY <1>1, <1>4, <3>2 DEF CatalogInv, FetchedSince
    <3>3. CASE g = "none"
      <4>1. s[2] = "incremental" => ~doubtful /\ s[2] # "full"  OBVIOUS
      <4> QED BY <1>1, <1>4, <3>3, <4>1 DEF CatalogInv, FetchedSince
    <3> QED BY <3>1, <3>2, <3>3
  <2>4. ~listing.listed /\ row'.active => listing.removed >= cursor'["full"]
    <3>1. CASE g = "latest"  BY <1>1, <3>1 DEF CatalogInv, FetchedSince
    <3>2. cursor'["full"] <= b /\ cursor'["full"] \in Nat  BY <1>1, <1>3, <2>1 DEF Modes
    <3>3. CASE g = "old"  BY <1>1, <3>2, <3>3 DEF CatalogInv, FetchedSince
    <3>4. CASE g = "none" /\ s[2] = "full"
      <4>1. row'.active => row.active /\ row.seen >= b
        BY <1>3, <1>4, <3>4 DEF CatalogInv, TimesInOrder
      <4> QED BY <1>3, <3>2, <4>1 DEF CatalogInv, FetchedSince
    <3>5. CASE g = "none" /\ s[2] # "full"
      <4>1. ~doubtful /\ cursor'["full"] = cursor["full"] /\ (row'.active => row.active)
        BY <1>1, <1>3, <1>4, <3>5 DEF Modes
      <4> QED BY <4>1 DEF CatalogInv, CatalogCurrent
    <3> QED BY <3>1, <3>3, <3>4, <3>5
  <2> QED BY <1>1, <2>2, <2>3, <2>4 DEF CatalogCurrent
<1> QED BY <1>5, <1>6, <1>7, <1>8 DEF CatalogInv

(* The marketplace and the clock: what changes, changes now.                 *)
LEMMA MarketKeeps ==
  ASSUME CatalogTypeOK, CatalogInv, ChangeListing \/ Delist \/ Hour
  PROVE  CatalogInv'
<1> USE DEF CatalogTypeOK, Pull
<1>1. \A u \in CatalogSyncs : /\ pull'[u].pc = pull[u].pc /\ pull'[u].begun = pull[u].begun
                               /\ pull'[u].unsure = pull[u].unsure
                              
  BY DEF ChangeListing, Delist, Hour, Outdated
<1>2. UNCHANGED <<cursor, doubtful>> /\ row'.seen = row.seen /\ row'.active = row.active
  BY DEF ChangeListing, Delist, Hour
<1>3. hour \in Nat /\ hour' \in Nat /\ hour <= hour'  BY DEF ChangeListing, Delist, Hour
<1>4. CASE Hour
  <2>1. UNCHANGED <<listing, row, pull>>  BY <1>4 DEF Hour
  <2> QED BY <1>2, <1>3, <2>1
          DEF CatalogInv, TimesInOrder, UnsureKnown, FetchedSince, CatalogCurrent, Pulling,
              LatestCursor
<1>5. CASE ChangeListing \/ Delist
  <2>1. hour' = hour  BY <1>5 DEF ChangeListing, Delist
  <2>2. \A u \in CatalogSyncs : pull'[u].got = IF pull[u].got = "latest" THEN "old" ELSE pull[u].got
    BY <1>5 DEF ChangeListing, Delist, Outdated
  <2>3. TimesInOrder'
    <3>1. listing'.changed <= hour /\ listing'.removed <= hour
      <4>1. hour <= hour  BY <1>3
      <4>2. CASE ChangeListing
        BY <4>1, <4>2 DEF CatalogInv, TimesInOrder, ChangeListing
      <4>3. CASE Delist
        BY <4>1, <4>3 DEF CatalogInv, TimesInOrder, Delist
      <4> QED BY <1>5, <4>2, <4>3
    <3> QED BY <1>1, <1>2, <2>1, <3>1 DEF CatalogInv, TimesInOrder, Pulling
  <2>4. UnsureKnown'  BY <1>1, <1>2 DEF CatalogInv, UnsureKnown, Pulling
  <2>5. CASE ChangeListing
    <3>1. listing'.listed /\ listing'.changed = hour  BY <2>5 DEF ChangeListing
    <3>2. FetchedSince'
      BY <1>1, <2>2, <3>1 DEF CatalogInv, TimesInOrder, FetchedSince, Pulling
    <3>3. CatalogCurrent'
      BY <1>2, <3>1 DEF CatalogInv, TimesInOrder, CatalogCurrent, LatestCursor, Modes
    <3> QED BY <2>3, <2>4, <3>2, <3>3 DEF CatalogInv
  <2>6. CASE Delist
    <3>1. ~listing'.listed /\ listing'.removed = hour  BY <2>6 DEF Delist
    <3>2. FetchedSince'
      BY <1>1, <1>2, <2>2, <3>1 DEF CatalogInv, TimesInOrder, FetchedSince, Pulling
    <3>3. CatalogCurrent'
      BY <1>2, <3>1 DEF CatalogInv, TimesInOrder, CatalogCurrent, Modes
    <3> QED BY <2>3, <2>4, <3>2, <3>3 DEF CatalogInv
  <2> QED BY <1>5, <2>5, <2>6
<1> QED BY <1>4, <1>5

(* For any set of origins: a change the catalogue does not show is one the next   *)
(* incremental sync asks for, and a product that is gone stays active only until  *)
(* the next full sync, unless a sync that ran beside another one or lacked         *)
(* something was committed since the last full sync without either.           *)
THEOREM CatalogKeepsUp == CatalogSpec => []CatalogCurrent
<1>1. CatalogTypeOK /\ CatalogInv /\ [CatalogNext]_catalogVars => CatalogInv'
  <2> SUFFICES ASSUME CatalogTypeOK, CatalogInv, [CatalogNext]_catalogVars PROVE CatalogInv'
    OBVIOUS
  <2>1. CASE CatalogNext
    <3>1. CASE \E s \in CatalogSyncs : BeginPull(s)  BY <3>1, BeginPullKeeps
    <3>2. CASE \E s \in CatalogSyncs : FetchProducts(s)  BY <3>2, FetchProductsKeeps
    <3>3. CASE \E s \in CatalogSyncs : CommitPull(s)  BY <3>3, CommitPullKeeps
    <3>4. CASE \E s \in CatalogSyncs : FailPull(s)  BY <3>4, FailPullKeeps
    <3> QED BY <2>1, <3>1, <3>2, <3>3, <3>4, MarketKeeps DEF CatalogNext
  <2>2. CASE UNCHANGED catalogVars
    BY <2>2 DEF catalogVars, CatalogInv, TimesInOrder, UnsureKnown, FetchedSince,
                CatalogCurrent, Pulling, LatestCursor
  <2> QED BY <2>1, <2>2
<1>2. CatalogInv => CatalogCurrent  BY DEF CatalogInv
<1> QED BY <1>1, <1>2, CatalogInvInit, CatalogTypeCorrect, PTL DEF CatalogSpec
=============================================================================
