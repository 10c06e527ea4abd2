----------------------------- MODULE Services_proofs -----------------------------
(***************************************************************************)
(* Proofs about the edit locks of a purchase order, for any users and any lease, *)
(* and about the follow-up of printed orders and the queue of the printer; and    *)
(* the types of the five modules that MC_Services runs.                       *)
(***************************************************************************)
EXTENDS MC_Services, Syncs_proofs

(* A request that has written the lock row, or is about to write the row it has   *)
(* read, is of the owner of that row: a row that is gone does not come back.     *)
WritersOwn ==
  /\ lock.id <= inserted
  /\ \A u \in Users : page[u].pc \in {"save", "delete", "saving", "deleting"} =>
       /\ page[u].id # 0 /\ page[u].id <= inserted
       /\ lock.id = page[u].id => lock.owner = u
  /\ \A u \in Users : page[u].pc \in {"saving", "deleting"} =>
       writer = u /\ lock.id = page[u].id

(* What the owner of the lock shows on the page of purchase orders is the latest  *)
(* version.                                                                *)
OwnersSeeLatest ==
  \A u \in Users \ DetailUsers :
    lock.owner = u /\ page[u].pc \in {"edit", "save", "delete", "saving", "deleting"} =>
      page[u].seen = version

(* A user owns no other lock than a numbered one.                            *)
LEMMA OwnedLock ==
  ASSUME EditTypeOK, NEW u \in Users, lock.owner = u \/ lock.id # 0
  PROVE  /\ lock \in [id : 1..MaxLocks, owner : Users, expires : Nat]
         /\ lock.id \in 1..MaxLocks
BY EditAssumption DEF EditTypeOK, Locks, NoLock

(* Every step keeps the types of the variables.                             *)
LEMMA EditStepTyped ==
  ASSUME EditTypeOK, WritersOwn, [EditNext]_editVars
  PROVE  EditTypeOK'
<1> USE EditAssumption DEF EditTypeOK, Page
<1>1. minute + Lease \in Nat /\ lock.id \in 0..MaxLocks  BY DEF Locks, NoLock
<1>2. ASSUME NEW u \in Users, List(u) \/ Open(u) PROVE EditTypeOK'
  BY <1>2 DEF List, Open
<1>3. ASSUME NEW u \in Users, AskLock(u) PROVE EditTypeOK'
  <2> DEFINE i == IF Stale THEN 0 ELSE lock.id
             e == minute + Lease
  <2>1. page' = [page EXCEPT ![u].pc = "acquire", ![u].id = i, ![u].expires = e]
    BY <1>3 DEF AskLock
  <2>2. i \in 0..MaxLocks /\ e \in Nat  BY <1>1
  <2> HIDE DEF i, e
  <2>3. page' \in [Users -> Page]  BY <2>1, <2>2
  <2> QED BY <1>3, <2>3 DEF AskLock
<1>4. ASSUME NEW u \in Users, TakeLock(u) PROVE EditTypeOK'
  <2>1. page' \in [Users -> Page] /\ writer' \in Users \cup {Nobody}  BY <1>4 DEF TakeLock
  <2>2. page[u].expires \in Nat  OBVIOUS
  <2>3. lock' \in Locks /\ inserted' \in 0..MaxLocks
    <3>1. CASE page[u].id = 0 /\ inserted < MaxLocks /\ inserted' = inserted + 1
               /\ lock' = [id |-> inserted + 1, owner |-> u, expires |-> page[u].expires]
      <4>1. inserted + 1 \in 1..MaxLocks  BY <3>1
      <4> QED BY <2>2, <3>1, <4>1 DEF Locks
    <3>2. CASE page[u].id # 0 /\ lock.id = page[u].id /\ inserted' = inserted
               /\ lock' = [lock EXCEPT !.expires = page[u].expires]
      <4>1. lock \in [id : 1..MaxLocks, owner : Users, expires : Nat]  BY <3>2, OwnedLock
      <4>2. lock' \in [id : 1..MaxLocks, owner : Users, expires : Nat]  BY <2>2, <3>2, <4>1
      <4> QED BY <3>2, <4>2 DEF Locks
    <3>3. CASE UNCHANGED <<lock, inserted>>  BY <3>3
    <3> QED BY <1>4, <3>1, <3>2, <3>3 DEF TakeLock
  <2> QED BY <1>4, <2>1, <2>3 DEF TakeLock
<1>5. ASSUME NEW u \in Users, NEW request \in {"save", "delete"}, Check(u, request)
      PROVE  EditTypeOK'
  <2> DEFINE i == lock.id
  <2>1. page' = [page EXCEPT ![u].pc = request, ![u].id = i]  BY <1>5 DEF Check
  <2>2. i \in 0..MaxLocks  BY <1>1
  <2> HIDE DEF i
  <2>3. page' \in [Users -> Page]  BY <2>1, <2>2
  <2> QED BY <1>5, <2>3 DEF Check
<1>6. ASSUME NEW u \in Users, Renew(u) PROVE EditTypeOK'
  BY <1>1, <1>6 DEF Renew, Doing
<1>7. ASSUME NEW u \in Users, CommitSave(u) PROVE EditTypeOK'
  <2>1. lock.id # 0  BY <1>7 DEF CommitSave, WritersOwn
  <2>2. lock \in [id : 1..MaxLocks, owner : Users, expires : Nat]  BY <2>1, OwnedLock, <1>7
  <2>3. page[u].expires \in Nat /\ version + 1 \in 0..MaxEdits  BY <1>7 DEF CommitSave
  <2>4. lock' \in [id : 1..MaxLocks, owner : Users, expires : Nat]
    BY <1>7, <2>2, <2>3 DEF CommitSave
  <2>5. page' \in [Users -> Page]  BY <1>7, <2>3 DEF CommitSave
  <2> QED BY <1>7, <2>3, <2>4, <2>5 DEF CommitSave, Locks
<1>8. ASSUME NEW u \in Users, CommitDelete(u) \/ RollBack(u) \/ Close(u) PROVE EditTypeOK'
  <2>1. Closed \in Page  BY DEF Closed
  <2>2. lock' \in Locks /\ writer' \in Users \cup {Nobody}
    BY <1>8 DEF CommitDelete, RollBack, Close, Locks
  <2>3. page' \in [Users -> Page]  BY <1>8, <2>1 DEF CommitDelete, RollBack, Close
  <2> QED BY <1>8, <2>2, <2>3 DEF CommitDelete, RollBack, Close
<1>9. CASE Pass  BY <1>9 DEF Pass
<1>10. CASE UNCHANGED editVars  BY <1>10 DEF editVars
<1> QED BY <1>2, <1>3, <1>4, <1>5, <1>6, <1>7, <1>8, <1>9, <1>10 DEF EditNext, UserStep

(* A step of one user leaves the pages of the others.                         *)
LEMMA OthersPages ==
  ASSUME EditTypeOK, NEW u \in Users, UserStep(u)
  PROVE  \A v \in Users \ {u} : page'[v] = page[v]
BY DEF EditTypeOK, UserStep, List, AskLock, TakeLock, Open, Check, Renew, CommitSave,
       CommitDelete, RollBack, Close

(* Every step keeps the requests with the owner of the row they write.          *)
LEMMA WritersStep ==
  ASSUME EditTypeOK, WritersOwn, [EditNext]_editVars
  PROVE  WritersOwn'
<1> USE EditAssumption DEF EditTypeOK, Page
<1>1. lock.id \in Nat  BY DEF Locks, NoLock
<1>2. ASSUME NEW u \in Users, UserStep(u), writer' = writer, lock' = lock, inserted' = inserted,
             page'[u].pc \notin {"save", "delete", "saving", "deleting"}
      PROVE  WritersOwn'
  BY <1>2, OthersPages DEF WritersOwn
<1>3. ASSUME NEW u \in Users, AskLock(u) PROVE WritersOwn'
  <2>1. page'[u].pc = "acquire" /\ (writer = Nobody \/ writer' = writer)
        /\ UNCHANGED <<lock, inserted>>
    BY <1>3 DEF AskLock
  <2> QED BY <1>3, <2>1, OthersPages DEF WritersOwn, UserStep
<1>4. ASSUME NEW u \in Users, TakeLock(u) PROVE WritersOwn'
  <2>1. page[u].pc = "acquire" /\ page'[u].pc \in {"load", "list"} /\ writer \in {u, Nobody}
    BY <1>4 DEF TakeLock
  <2>2. \A v \in Users : page[v].pc \notin {"saving", "deleting"}
    BY <2>1 DEF WritersOwn
  <2>3. \A v \in Users \ {u} : page'[v] = page[v]  BY <1>4, OthersPages DEF UserStep
  <2>4. /\ inserted <= inserted' /\ inserted' \in Nat /\ lock'.id <= inserted'
        /\ \/ lock'.id = lock.id /\ lock'.owner = lock.owner
           \/ lock'.id = inserted + 1
    <3>1. inserted + 1 \in Nat /\ inserted <= inserted + 1 /\ inserted + 1 <= inserted + 1
      OBVIOUS
    <3>2. lock \in Locks  OBVIOUS
    <3>3. [lock EXCEPT !.expires = page[u].expires].id = lock.id
          /\ [lock EXCEPT !.expires = page[u].expires].owner = lock.owner
      BY <3>2 DEF Locks, NoLock
    <3>4. \/ inserted' = inserted /\ lock' \in {lock, [lock EXCEPT !.expires = page[u].expires]}
          \/ inserted' = inserted + 1 /\ lock'.id = inserted + 1
      BY <1>4 DEF TakeLock
    <3>5. \/ inserted' = inserted /\ lock'.id = lock.id /\ lock'.owner = lock.owner
          \/ inserted' = inserted + 1 /\ lock'.id = inserted + 1
      BY <3>3, <3>4
    <3>6. lock.id <= inserted  BY DEF WritersOwn
    <3> QED BY <3>1, <3>5, <3>6
  <2>5. \A v \in Users : page'[v].pc \notin {"saving", "deleting"}  BY <2>1, <2>2, <2>3
  <2>6. ASSUME NEW v \in Users, page'[v].pc \in {"save", "delete", "saving", "deleting"}
        PROVE  /\ page'[v].id # 0 /\ page'[v].id <= inserted'
               /\ lock'.id = page'[v].id => lock'.owner = v
    <3>1. v # u /\ page'[v] = page[v]  BY <2>1, <2>3, <2>6
    <3>2. page[v].id \in Nat /\ page[v].id # 0 /\ page[v].id <= inserted
          /\ (lock.id = page[v].id => lock.owner = v)
      BY <2>6, <3>1 DEF WritersOwn
    <3> QED BY <2>4, <3>1, <3>2
  <2> QED BY <2>4, <2>5, <2>6 DEF WritersOwn
<1>5. ASSUME NEW u \in Users, NEW request \in {"save", "delete"}, Check(u, request)
      PROVE  WritersOwn'
  <2>1. /\ lock.owner = u /\ page'[u].id = lock.id /\ page'[u].pc \in {"save", "delete"}
        /\ UNCHANGED <<lock, inserted, writer>>
    BY <1>5 DEF Check
  <2>2. lock.id # 0  BY <2>1, OwnedLock
  <2> QED BY <1>5, <2>1, <2>2, OthersPages DEF WritersOwn, UserStep
<1>6. ASSUME NEW u \in Users, Renew(u) PROVE WritersOwn'
  <2>1. /\ page[u].pc \in {"save", "delete"} /\ writer = Nobody
        /\ page'[u].id = page[u].id /\ UNCHANGED <<lock, inserted>>
        /\ \/ writer' = u /\ lock.id = page[u].id
           \/ writer' = writer /\ page'[u].pc = "edit"
    BY <1>6 DEF Renew
  <2> QED BY <1>6, <2>1, OthersPages DEF WritersOwn, UserStep
<1>7. ASSUME NEW u \in Users, CommitSave(u) PROVE WritersOwn'
  <2>1. /\ page[u].pc = "saving" /\ page'[u].pc = "edit" /\ inserted' = inserted
        /\ lock' = [lock EXCEPT !.expires = page[u].expires]
    BY <1>7 DEF CommitSave
  <2>2. lock'.id = lock.id /\ lock'.owner = lock.owner  BY <2>1 DEF Locks, NoLock
  <2>3. \A v \in Users \ {u} : page[v].pc \notin {"saving", "deleting"}
    BY <2>1 DEF WritersOwn
  <2> QED BY <1>7, <2>1, <2>2, <2>3, OthersPages DEF WritersOwn, UserStep
<1>8. ASSUME NEW u \in Users, CommitDelete(u) \/ Close(u) PROVE WritersOwn'
  <2>1. /\ page'[u].pc \in {"edit", "list"} /\ inserted' = inserted /\ lock' \in {lock, NoLock}
        /\ writer = Nobody \/ page[u].pc = "deleting"
    BY <1>8 DEF CommitDelete, Close, Closed
  <2>2. \A v \in Users \ {u} : page[v].pc \notin {"saving", "deleting"}
    BY <2>1 DEF WritersOwn
  <2> QED BY <1>8, <2>1, <2>2, OthersPages DEF WritersOwn, UserStep, NoLock
<1>9. ASSUME NEW u \in Users, RollBack(u) PROVE WritersOwn'
  <2>1. /\ page'[u].pc \in {"edit", "list"} /\ UNCHANGED <<lock, inserted>>
        /\ writer # u => writer' = writer
    BY <1>9 DEF RollBack
  <2> QED BY <1>9, <2>1, OthersPages DEF WritersOwn, UserStep
<1>10. ASSUME NEW u \in Users, List(u) \/ Open(u) PROVE WritersOwn'
  <2>1. /\ UNCHANGED <<lock, inserted, writer>>
        /\ page'[u].pc \in {"list", "edit"}
    BY <1>10 DEF List, Open
  <2> QED BY <1>10, <1>2, <2>1 DEF UserStep
<1>11. CASE Pass \/ UNCHANGED editVars
  BY <1>11 DEF Pass, editVars, WritersOwn
<1> QED BY <1>3, <1>4, <1>5, <1>6, <1>7, <1>8, <1>9, <1>10, <1>11 DEF EditNext, UserStep

(* Every step keeps the owner's page on the latest version: a version is added    *)
(* by the owner, and nobody comes to own the lock while the page is open.       *)
LEMMA LatestStep ==
  ASSUME EditTypeOK, WritersOwn, OwnersSeeLatest, [EditNext]_editVars
  PROVE  OwnersSeeLatest'
<1> USE EditAssumption DEF EditTypeOK, Page
<1>1. ASSUME NEW u \in Users, Open(u) PROVE OwnersSeeLatest'
  <2>1. UNCHANGED <<lock, version>> /\ (u \notin DetailUsers => page'[u].seen = version)
    BY <1>1 DEF Open
  <2> QED BY <1>1, <2>1, OthersPages DEF OwnersSeeLatest, UserStep
<1>2. ASSUME NEW u \in Users, List(u) \/ AskLock(u) \/ TakeLock(u) PROVE OwnersSeeLatest'
  <2>1. version' = version /\ page'[u].pc \in {"list", "acquire", "load"}
    BY <1>2 DEF List, AskLock, TakeLock
  <2>2. lock'.owner \in {lock.owner, u}
    <3>1. [lock EXCEPT !.expires = page[u].expires].owner = lock.owner  BY DEF Locks, NoLock
    <3>2. lock' \in {lock, [lock EXCEPT !.expires = page[u].expires]} \/ lock'.owner = u
      BY <1>2 DEF List, AskLock, TakeLock
    <3> QED BY <3>1, <3>2
  <2>3. \A v \in Users \ {u} : page'[v] = page[v]  BY <1>2, OthersPages DEF UserStep
  <2> QED BY <2>1, <2>2, <2>3 DEF OwnersSeeLatest
<1>3. ASSUME NEW u \in Users, RollBack(u) \/ Renew(u) \/ Close(u)
                              \/ \E request \in {"save", "delete"} : Check(u, request)
      PROVE  OwnersSeeLatest'
  <2>1. /\ version' = version /\ page'[u].seen = page[u].seen
        /\ lock' = lock \/ lock' = NoLock
        /\ \/ page'[u].pc = "list"
           \/ page[u].pc \in {"edit", "save", "delete", "saving", "deleting"}
    BY <1>3 DEF RollBack, Renew, Close, Check
  <2>2. \A v \in Users \ {u} : page'[v] = page[v]  BY <1>3, OthersPages DEF UserStep
  <2> QED BY <2>1, <2>2 DEF OwnersSeeLatest, NoLock
<1>4. ASSUME NEW u \in Users, CommitSave(u) PROVE OwnersSeeLatest'
  <2>1. /\ lock.owner = u /\ lock' = [lock EXCEPT !.expires = page[u].expires]
        /\ version' = version + 1 /\ page'[u].seen = version + 1
    BY <1>4 DEF CommitSave, WritersOwn
  <2>2. lock'.owner = u  BY <2>1 DEF Locks, NoLock
  <2> QED BY <2>1, <2>2 DEF OwnersSeeLatest
<1>5. ASSUME NEW u \in Users, CommitDelete(u) PROVE OwnersSeeLatest'
  BY <1>5 DEF CommitDelete, OwnersSeeLatest, NoLock
<1>6. CASE Pass \/ UNCHANGED editVars
  BY <1>6 DEF Pass, editVars, OwnersSeeLatest
<1> QED BY <1>1, <1>2, <1>3, <1>4, <1>5, <1>6 DEF EditNext, UserStep

EditInv == EditTypeOK /\ WritersOwn /\ OwnersSeeLatest

LEMMA EditInvariant == EditSpec => []EditInv
<1>1. EditInit => EditInv
  <2> SUFFICES ASSUME EditInit PROVE EditInv
    OBVIOUS
  <2>1. /\ exists = TRUE /\ version = 0 /\ lock = NoLock /\ inserted = 0 /\ minute = 0
        /\ writer = Nobody /\ page = [u \in Users |-> Closed]
    BY DEF EditInit
  <2>2. 0 \in 0..MaxEdits /\ 0 \in 0..MaxLocks /\ 0 \in 0..MaxMinutes  BY EditAssumption
  <2>3. Closed \in Page  BY <2>2 DEF Closed, Page
  <2>4. page \in [Users -> Page]  BY <2>1, <2>3
  <2>5. EditTypeOK  BY <2>1, <2>2, <2>4 DEF EditTypeOK, Locks
  <2>6. WritersOwn /\ OwnersSeeLatest
    BY <2>1 DEF WritersOwn, OwnersSeeLatest, NoLock, Closed
  <2> QED BY <2>5, <2>6 DEF EditInv
<1>2. EditInv /\ [EditNext]_editVars => EditInv'
  BY EditStepTyped, WritersStep, LatestStep DEF EditInv
<1> QED BY <1>1, <1>2, PTL DEF EditSpec

(* The variables keep their types, for any users and any lease.                *)
THEOREM EditTypeCorrect == EditSpec => []EditTypeOK
<1>1. EditInv => EditTypeOK  BY DEF EditInv
<1> QED BY <1>1, EditInvariant, PTL

(* For any users and any lease: who saves from the page of purchase orders has     *)
(* seen the latest version, though locks expire, are cleaned up by others' requests *)
(* and are taken over while a page is open or a request under way.             *)
THEOREM SavesSeeLatest == EditSpec => EditsSeen
<1>1. EditInv => \A u \in Users \ DetailUsers : CommitSave(u) => page[u].seen = version
  <2> SUFFICES ASSUME EditInv, NEW u \in Users \ DetailUsers, CommitSave(u)
               PROVE  page[u].seen = version
    OBVIOUS
  <2>1. page[u].pc = "saving"  BY DEF CommitSave
  <2>2. lock.owner = u  BY <2>1 DEF EditInv, WritersOwn
  <2> QED BY <2>1, <2>2 DEF EditInv, OwnersSeeLatest
<1> QED BY <1>1, EditInvariant, PTL DEF EditsSeen
-----------------------------------------------------------------------------
(* Every step keeps the types of the variables.                             *)
LEMMA MonitorStepTyped ==
  ASSUME MonitorTypeOK, [MonitorNext]_monitorVars
  PROVE  MonitorTypeOK'
<1> USE MonitorAssumption DEF MonitorTypeOK
<1> DEFINE Scanner == [pc : {"idle", "look", "commit"}, view : Monitors]
<1>1. Fresh \in Monitors /\ NoScanner \in Scanner
  BY DEF Fresh, Monitors, NoScanner
<1>2. \A w \in Watchers : scanner[w] \in Scanner /\ scanner[w].view \in Monitors  OBVIOUS
<1>3. ASSUME NEW w \in Watchers, SelectRun(w) PROVE MonitorTypeOK'
  <2> DEFINE selected == IF window = 0
                         THEN [pc |-> "commit", view |-> [monitor EXCEPT !.status = "expired"]]
                         ELSE [pc |-> "look", view |-> monitor]
  <2>1. selected \in Scanner  BY DEF Monitors
  <2>2. scanner' = [scanner EXCEPT ![w] = selected]  BY <1>3 DEF SelectRun
  <2> HIDE DEF selected
  <2>3. scanner' \in [Watchers -> Scanner]  BY <2>1, <2>2
  <2>4. disturbed' \in BOOLEAN  BY <1>3 DEF SelectRun
  <2> QED BY <1>3, <2>3, <2>4 DEF SelectRun
<1>4. ASSUME NEW w \in Watchers, Look(w) PROVE MonitorTypeOK'
  <2>1. PICK unread \in SUBSET Printers, recovered \in SUBSET Printers,
             message \in {"none", "sent", "lost", "late"} :
          \E blank \in SUBSET (queued \ unread) :
            /\ Report(w, queued \ (unread \cup blank), unread, recovered, message)
            /\ overlooked' = overlooked \cup blank
    BY <1>4 DEF Look
  <2>1a. PICK blank \in SUBSET (queued \ unread) :
            /\ Report(w, queued \ (unread \cup blank), unread, recovered, message)
            /\ overlooked' = overlooked \cup blank
    BY <2>1
  <2> DEFINE pending == queued \ (unread \cup blank)
             incidents == Incidents(w, pending)
             sent == IF message = "sent" THEN incidents ELSE {}
             told == scanner[w].view.notified \cup sent
             status == Outcome(pending, unread)
  <2>2. status \in {"active", "completed"} /\ incidents \subseteq Printers
    BY DEF Outcome, Incidents
  <2>3. scanner[w].view.notified \subseteq Printers  BY <1>2 DEF Monitors
  <2>4. told \subseteq Printers /\ doubted' \subseteq Printers  BY <2>2, <2>3, <2>1a DEF Report
  <2>5. messages' \in [Printers -> 0..2]  BY <2>1a DEF Report
  <2>6. broken' \subseteq Printers /\ overlooked' \subseteq queued  BY <2>1a DEF Report
  <2>7. scanner' = [scanner EXCEPT ![w] = [pc |-> "commit",
                      view |-> [status |-> status, notified |-> told]]]
    BY <2>1a DEF Report
  <2> HIDE DEF pending, incidents, sent, told, status
  <2>8. [status |-> status, notified |-> told] \in Monitors
    BY <2>2, <2>4 DEF Monitors
  <2>9. scanner' \in [Watchers -> Scanner]  BY <2>7, <2>8
  <2> QED BY <1>4, <2>4, <2>5, <2>6, <2>9 DEF Look
<1>5. ASSUME NEW w \in Watchers, CommitScan(w) PROVE MonitorTypeOK'
  <2>1. monitor' \in Monitors /\ scanner' \in [Watchers -> Scanner]
    BY <1>1, <1>2, <1>5 DEF CommitScan
  <2> QED BY <1>5, <2>1 DEF CommitScan
<1>6. ASSUME NEW w \in Watchers, DropScan(w) PROVE MonitorTypeOK'
  <2>1. scanner' \in [Watchers -> Scanner]  BY <1>1, <1>6 DEF DropScan
  <2>2. disturbed' \in BOOLEAN  BY <1>6 DEF DropScan
  <2> QED BY <1>6, <2>1, <2>2 DEF DropScan
<1>7. CASE ReadStats
  <2>1. disturbed' \in BOOLEAN  BY <1>7 DEF ReadStats
  <2>2. reprints' \in 0..MaxReprints  BY <1>7 DEF ReadStats
  <2> QED BY <1>7, <2>1, <2>2 DEF ReadStats
<1>8. CASE WriteStats  BY <1>1, <1>8 DEF WriteStats, NoReprint
<1>9. CASE PrinterChange  BY <1>9 DEF PrinterChange
<1>10. CASE PassMinute  BY <1>10 DEF PassMinute
<1>11. CASE UNCHANGED monitorVars  BY <1>11 DEF monitorVars
<1> QED BY <1>3, <1>4, <1>5, <1>6, <1>7, <1>8, <1>9, <1>10, <1>11 DEF MonitorNext

(* The variables keep their types.                                          *)
THEOREM MonitorTypeCorrect == MonitorSpec => []MonitorTypeOK
<1>1. MonitorInit => MonitorTypeOK
  <2> SUFFICES ASSUME MonitorInit PROVE MonitorTypeOK
    OBVIOUS
  <2> USE MonitorAssumption DEF MonitorInit
  <2>1. Fresh \in Monitors  BY DEF Fresh, Monitors
  <2>2. scanner \in [Watchers -> [pc : {"idle", "look", "commit"}, view : Monitors]]
    BY <2>1 DEF NoScanner
  <2>3. reprint \in [pc : {"idle", "commit"}, view : Monitors]  BY <2>1 DEF NoReprint
  <2>4. reprints \in 0..MaxReprints /\ window \in 0..WindowSize  OBVIOUS
  <2>5. messages \in [Printers -> 0..2]  OBVIOUS
  <2>6. disturbed \in BOOLEAN  BY Zenon
  <2>7. doubted \subseteq Printers /\ overlooked \subseteq queued  OBVIOUS
  <2> QED BY <2>1, <2>2, <2>3, <2>4, <2>5, <2>6, <2>7 DEF MonitorTypeOK
<1> QED BY <1>1, MonitorStepTyped, PTL DEF MonitorSpec
-----------------------------------------------------------------------------
(* Whoever holds a copy of the monitor that says the run is done is right, but for *)
(* queues that looked empty.                                                *)
DoneIsEmpty ==
  /\ monitor.status = "completed" => queued \subseteq overlooked
  /\ \A w \in Watchers : scanner[w].view.status = "completed" => queued \subseteq overlooked
  /\ reprint.view.status = "completed" => queued \subseteq overlooked

(* Undisturbed, one thread at a time holds a copy of the monitor, no copy lacks  *)
(* a report that the column has, and every report that counts is in one.       *)
OneCopy ==
  /\ reprint.pc # "idle" => reprint.view = monitor /\ \A w \in Watchers : ~Scanning(w)
  /\ \A w, v \in Watchers : Scanning(w) /\ Scanning(v) => w = v
  /\ \A w \in Watchers : Scanning(w) => monitor.notified \subseteq scanner[w].view.notified
  /\ \A w \in Watchers : scanner[w].pc = "look" => scanner[w].view = monitor

Told(p) == \/ p \in monitor.notified
           \/ \E w \in Watchers : Scanning(w) /\ p \in scanner[w].view.notified

ToldOnce == \A p \in Printers : messages[p] <= 1 /\ (messages[p] = 1 => Told(p))

MonitorInv == DoneIsEmpty /\ (disturbed \/ (OneCopy /\ ToldOnce))

(* At the start nothing is reported and nobody holds a copy.                   *)
LEMMA MonitorInvInit == MonitorInit => MonitorInv
BY DEF MonitorInit, MonitorInv, DoneIsEmpty, OneCopy, ToldOnce, Told, Scanning, NoScanner,
       NoReprint, Fresh

(* A run that is done has left the queues, in every copy.                       *)
LEMMA DoneStep ==
  ASSUME MonitorTypeOK, DoneIsEmpty, MonitorNext
  PROVE  DoneIsEmpty'
<1> USE DEF MonitorTypeOK, DoneIsEmpty
<1>1. ASSUME NEW w \in Watchers, SelectRun(w) PROVE DoneIsEmpty'
  <2>1. /\ scanner'[w].view.status \in {"expired", monitor.status}
        /\ \A v \in Watchers \ {w} : scanner'[v] = scanner[v]
    BY <1>1 DEF SelectRun, Monitors
  <2> QED BY <1>1, <2>1 DEF SelectRun
<1>2. ASSUME NEW w \in Watchers, Look(w) PROVE DoneIsEmpty'
  <2>1. PICK unread \in SUBSET Printers, recovered \in SUBSET Printers,
             message \in {"none", "sent", "lost", "late"} :
          \E blank \in SUBSET (queued \ unread) :
            /\ Report(w, queued \ (unread \cup blank), unread, recovered, message)
            /\ overlooked' = overlooked \cup blank
    BY <1>2 DEF Look
  <2>1a. PICK blank \in SUBSET (queued \ unread) :
            /\ Report(w, queued \ (unread \cup blank), unread, recovered, message)
            /\ overlooked' = overlooked \cup blank
    BY <2>1
  <2>2. scanner'[w].view.status = "completed" => queued \subseteq overlooked'
    BY <2>1a DEF Outcome, Report
  <2>3. /\ \A v \in Watchers \ {w} : scanner'[v] = scanner[v]
        /\ UNCHANGED <<queued, monitor, reprint>> /\ overlooked \subseteq overlooked'
    BY <1>2, <2>1a DEF Look, Report
  <2> QED BY <2>2, <2>3
<1>3. ASSUME NEW w \in Watchers, CommitScan(w) PROVE DoneIsEmpty'
  BY <1>3 DEF CommitScan, NoScanner, Fresh
<1>4. ASSUME NEW w \in Watchers, DropScan(w) PROVE DoneIsEmpty'
  BY <1>4 DEF DropScan, NoScanner, Fresh
<1>5. CASE ReadStats  BY <1>5 DEF ReadStats
<1>6. CASE WriteStats  BY <1>6 DEF WriteStats, NoReprint, Fresh
<1>7. CASE PrinterChange  BY <1>7 DEF PrinterChange
<1>8. CASE PassMinute  BY <1>8 DEF PassMinute
<1> QED BY <1>1, <1>2, <1>3, <1>4, <1>5, <1>6, <1>7, <1>8 DEF MonitorNext

(* What an undisturbed scan keeps, step by step.                              *)
LEMMA ScanStep ==
  ASSUME MonitorTypeOK, OneCopy, ToldOnce, NEW w \in Watchers,
         SelectRun(w) \/ Look(w) \/ CommitScan(w) \/ DropScan(w), ~disturbed'
  PROVE  OneCopy' /\ ToldOnce'
<1> USE DEF MonitorTypeOK, Scanning
<1>1. CASE SelectRun(w)
  <2>1. /\ reprint.pc = "idle" /\ \A v \in Watchers : ~Scanning(v)
        /\ UNCHANGED <<monitor, reprint, messages>>
    BY <1>1 DEF SelectRun
  <2>2. /\ scanner'[w].pc # "idle" /\ scanner'[w].view.notified = monitor.notified
        /\ scanner'[w].pc = "look" => scanner'[w].view = monitor
    BY <1>1 DEF SelectRun, Monitors
  <2>3. \A v \in Watchers \ {w} : scanner'[v] = scanner[v]  BY <1>1 DEF SelectRun
  <2>4. OneCopy'  BY <2>1, <2>2, <2>3 DEF OneCopy
  <2>5. ToldOnce'  BY <2>1, <2>2, <2>3 DEF ToldOnce, Told
  <2> QED BY <2>4, <2>5
<1>2. CASE Look(w)
  <2>1. PICK unread \in SUBSET Printers, recovered \in SUBSET Printers,
             message \in {"none", "sent", "lost", "late"} :
          \E blank \in SUBSET (queued \ unread) :
            /\ Report(w, queued \ (unread \cup blank), unread, recovered, message)
            /\ overlooked' = overlooked \cup blank
    BY <1>2 DEF Look
  <2>1a. PICK blank \in SUBSET (queued \ unread) :
            /\ Report(w, queued \ (unread \cup blank), unread, recovered, message)
            /\ overlooked' = overlooked \cup blank
    BY <2>1
  <2> DEFINE sent == IF message = "sent" THEN Incidents(w, queued \ (unread \cup blank)) ELSE {}
  <2>2. /\ scanner[w].pc = "look" /\ scanner[w].view = monitor
        /\ UNCHANGED <<monitor, reprint>>
    BY <1>2 DEF Look, OneCopy
  <2>3. /\ scanner'[w].pc = "commit"
        /\ scanner'[w].view.notified = monitor.notified \cup sent
        /\ \A v \in Watchers \ {w} : scanner'[v] = scanner[v]
    BY <2>2, <2>1a DEF Report
  <2>4. reprint.pc = "idle" /\ \A v \in Watchers \ {w} : ~Scanning(v)
    BY <2>2 DEF OneCopy
  <2>5. OneCopy'  BY <2>2, <2>3, <2>4 DEF OneCopy
  <2>6. ASSUME NEW p \in Printers PROVE messages'[p] <= 1 /\ (messages'[p] = 1 => Told(p)')
    <3>1. messages[p] \in 0..2 /\ messages[p] <= 1  BY DEF ToldOnce
    <3>2. messages[p] = 1 => p \in monitor.notified  BY <2>2, <2>4 DEF ToldOnce, Told
    <3>3. CASE p \in doubted'  BY <2>1a, <3>3 DEF Report
    <3>4. CASE p \in sent /\ p \notin doubted'
      <4>1. p \notin monitor.notified  BY <2>2, <3>4 DEF Incidents
      <4>2. messages[p] = 0  BY <3>1, <3>2, <4>1
      <4>3. messages'[p] = 1 /\ p \in scanner'[w].view.notified  BY <2>3, <2>1a, <3>4, <4>2 DEF Report
      <4> QED BY <2>3, <4>3 DEF Told
    <3>5. CASE p \notin sent /\ p \notin doubted'
      <4>1. messages'[p] = messages[p]  BY <2>1a, <3>5 DEF Report
      <4> QED BY <2>2, <3>1, <3>2, <4>1 DEF Told
    <3> QED BY <3>3, <3>4, <3>5
  <2> QED BY <2>5, <2>6 DEF ToldOnce
<1>3. CASE CommitScan(w)
  <2>1. /\ scanner[w].pc = "commit" /\ monitor' = scanner[w].view
        /\ UNCHANGED <<reprint, messages>>
        /\ scanner'[w].pc = "idle" /\ \A v \in Watchers \ {w} : scanner'[v] = scanner[v]
    BY <1>3 DEF CommitScan, NoScanner
  <2>2. /\ reprint.pc = "idle" /\ \A v \in Watchers \ {w} : ~Scanning(v)
        /\ monitor.notified \subseteq monitor'.notified
    BY <2>1 DEF OneCopy
  <2>3. OneCopy'  BY <2>1, <2>2 DEF OneCopy
  <2>4. \A p \in Printers : Told(p) => p \in monitor'.notified  BY <2>1, <2>2 DEF Told
  <2> QED BY <2>1, <2>3, <2>4 DEF ToldOnce, Told
<1>4. CASE DropScan(w)
  <2>1. /\ Scanning(w) /\ scanner[w].view = monitor
        /\ UNCHANGED <<monitor, reprint, messages>>
        /\ scanner'[w].pc = "idle" /\ \A v \in Watchers \ {w} : scanner'[v] = scanner[v]
    BY <1>4 DEF DropScan, NoScanner
  <2>2. reprint.pc = "idle" /\ \A v \in Watchers \ {w} : ~Scanning(v)
    BY <2>1 DEF OneCopy
  <2>3. OneCopy'  BY <2>1, <2>2 DEF OneCopy
  <2>4. \A p \in Printers : Told(p) => p \in monitor.notified  BY <2>1, <2>2 DEF Told
  <2> QED BY <2>1, <2>3, <2>4 DEF ToldOnce, Told
<1> QED BY <1>1, <1>2, <1>3, <1>4

(* The same for a reprint, the printers and the clock.                         *)
LEMMA BesideStep ==
  ASSUME MonitorTypeOK, OneCopy, ToldOnce,
         ReadStats \/ WriteStats \/ PrinterChange \/ PassMinute, ~disturbed'
  PROVE  OneCopy' /\ ToldOnce'
<1>1. CASE ReadStats
  <2>1. /\ \A w \in Watchers : ~Scanning(w)
        /\ UNCHANGED <<monitor, scanner, messages>> /\ reprint'.view = monitor
    BY <1>1 DEF ReadStats
  <2> QED BY <2>1 DEF OneCopy, ToldOnce, Told, Scanning
<1>2. CASE WriteStats
  <2>1. /\ monitor' = monitor /\ reprint'.pc = "idle" /\ UNCHANGED <<scanner, messages>>
    BY <1>2 DEF WriteStats, OneCopy, NoReprint
  <2> QED BY <2>1 DEF OneCopy, ToldOnce, Told, Scanning
<1>3. CASE PrinterChange \/ PassMinute
  <2>1. UNCHANGED <<monitor, scanner, reprint, messages>>
    BY <1>3 DEF PrinterChange, PassMinute
  <2> QED BY <2>1 DEF OneCopy, ToldOnce, Told, Scanning
<1> QED BY <1>1, <1>2, <1>3

(* Every step keeps the invariant; a disturbance stays one.                     *)
LEMMA MonitorInvStep == MonitorTypeOK /\ MonitorInv /\ [MonitorNext]_monitorVars => MonitorInv'
<1> SUFFICES ASSUME MonitorTypeOK, MonitorInv, [MonitorNext]_monitorVars PROVE MonitorInv'
  OBVIOUS
<1>1. CASE MonitorNext
  <2>1. DoneIsEmpty'  BY <1>1, DoneStep DEF MonitorInv
  <2>2. disturbed => disturbed'
    BY <1>1 DEF MonitorNext, SelectRun, Look, CommitScan, DropScan, ReadStats, WriteStats,
                PrinterChange, PassMinute
  <2>3. ASSUME ~disturbed' PROVE OneCopy' /\ ToldOnce'
    <3>1. OneCopy /\ ToldOnce  BY <2>2, <2>3 DEF MonitorInv
    <3> QED BY <1>1, <2>3, <3>1, ScanStep, BesideStep DEF MonitorNext
  <2> QED BY <2>1, <2>3 DEF MonitorInv
<1>2. CASE UNCHANGED monitorVars
  BY <1>2 DEF monitorVars, MonitorInv, DoneIsEmpty, OneCopy, ToldOnce, Told, Scanning
<1> QED BY <1>1, <1>2

(* No printer is reported twice, undisturbed, unless a report of it arrived whose   *)
(* request failed, and a run that the monitor calls completed has left all queues,  *)
(* always, but for those that looked empty to a scan.                          *)
THEOREM PrintersReportedOnce == MonitorSpec => []ReportedOnce
<1>1. MonitorInv => ReportedOnce
  BY DEF MonitorInv, DoneIsEmpty, ToldOnce, ReportedOnce
<1> QED BY <1>1, MonitorInvInit, MonitorInvStep, MonitorTypeCorrect, PTL DEF MonitorSpec
-----------------------------------------------------------------------------
(* The run of the five modules keeps the types of all: each step of it is a step  *)
(* of one and leaves the others' variables.                                  *)
THEOREM ServicesTyped == MCSpec => []TypesOK
<1>1. MCInit => SyncInit /\ StatusInit /\ EditInit /\ CatalogInit /\ MonitorInit
  BY DEF MCInit
<1>2. [MCNext]_mcVars =>
        /\ [SyncNext]_syncVars /\ [StatusNext]_statusVars /\ [EditNext]_editVars
        /\ [CatalogNext]_catalogVars /\ [MonitorNext]_monitorVars
  BY DEF MCNext, MCSync, MCStatus, MCEdits, MCCatalog, MCMonitor, mcVars
<1>3. MCSpec => SyncSpec /\ StatusSpec /\ EditSpec /\ CatalogSpec /\ MonitorSpec
  BY <1>1, <1>2, PTL DEF MCSpec, SyncSpec, StatusSpec, EditSpec, CatalogSpec, MonitorSpec
<1>4. SyncTypeOK /\ StatusTypeOK /\ EditTypeOK /\ CatalogTypeOK /\ MonitorTypeOK => TypesOK
  BY DEF TypesOK
<1> QED BY <1>3, <1>4, SyncTypeCorrect, StatusTypeCorrect, EditTypeCorrect,
           CatalogTypeCorrect, MonitorTypeCorrect, PTL
=================================================================================
