----------------------------- MODULE PurchaseEdits -----------------------------
(***************************************************************************)
(* The edit lock of one purchase order (app/main.py) and the pages that use it *)
(* (frontend/src/pages/PurchaseOrders, frontend/src/pages/PurchaseDetails).    *)
(*                                                                         *)
(* The lock is a row that expires after PURCHASE_EDIT_LOCK_MINUTES, and every   *)
(* request first deletes the row if it has expired.  A request is a            *)
(* transaction under READ COMMITTED: it reads the lock row, then writes it,      *)
(* which waits for another transaction that has written it and not yet          *)
(* committed, and then commits.                                             *)
(***************************************************************************)
EXTENDS Naturals

CONSTANTS
  Nobody,        \* no user
  Users,         \* users, each with one page of this purchase order
  DetailUsers,   \* those who use the list of purchase details
  Lease,         \* PURCHASE_EDIT_LOCK_MINUTES, in ticks
  MaxLocks,      \* bound on the lock rows ever inserted
  MaxEdits,      \* bound on the edits committed
  MaxMinutes     \* bound on the clock

ASSUME EditAssumption ==
  /\ Nobody \notin Users /\ DetailUsers \subseteq Users
  /\ {Lease, MaxLocks, MaxEdits, MaxMinutes} \subseteq Nat

VARIABLES
  exists,    \* is the purchase order still there?
  version,   \* edits committed
  lock,      \* its row in purchase_order_edit_locks; id 0 if it has none
  inserted,  \* lock rows inserted so far
  writer,    \* user whose open transaction has written the lock row
  page,      \* page[u]: where u's page or its request is
  minute     \* the clock

editVars == <<exists, version, lock, inserted, writer, page, minute>>

NoLock == [id |-> 0, owner |-> Nobody, expires |-> 0]
Locks == [id : 1..MaxLocks, owner : Users, expires : Nat] \cup {NoLock}

(* seen: the version the page shows; id: the lock row the request has read;     *)
(* expires: what it will write there.                                      *)
Closed == [pc |-> "list", seen |-> 0, id |-> 0, expires |-> 0]
Page == [pc : {"list", "acquire", "load", "edit", "save", "delete", "saving", "deleting"},
         seen : 0..MaxEdits, id : 0..MaxLocks, expires : Nat]

EditTypeOK ==
  /\ exists \in BOOLEAN /\ version \in 0..MaxEdits
  /\ lock \in Locks /\ inserted \in 0..MaxLocks
  /\ writer \in Users \cup {Nobody}
  /\ page \in [Users -> Page] /\ minute \in 0..MaxMinutes

EditInit ==
  /\ exists = TRUE /\ version = 0 /\ lock = NoLock /\ inserted = 0
  /\ writer = Nobody /\ page = [u \in Users |-> Closed] /\ minute = 0

Stale == lock # NoLock /\ lock.expires <= minute
-----------------------------------------------------------------------------
(* A list of details shows the rows as they were when it was loaded.          *)
List(u) ==
  /\ u \in DetailUsers /\ page[u].pc = "list" /\ exists
  /\ page' = [page EXCEPT ![u].seen = version]
  /\ UNCHANGED <<exists, version, lock, inserted, writer, minute>>

(* _cleanup_expired_purchase_order_locks and the lock row as _acquire_...       *)
(* reads it; a row of another user turns the request down.                   *)
AskLock(u) ==
  /\ page[u].pc = "list" /\ exists
  /\ \/ Stale /\ writer = Nobody /\ writer' = u
     \/ ~Stale /\ lock.owner \in {u, Nobody} /\ UNCHANGED writer
  /\ page' = [page EXCEPT ![u].pc = "acquire", ![u].id = IF Stale THEN 0 ELSE lock.id,
                          ![u].expires = minute + Lease]
  /\ UNCHANGED <<exists, version, lock, inserted, minute>>

(* The rest of _acquire_purchase_order_lock: the row is inserted, or its expiry *)
(* renewed; it raises if another user's row came first, or its own is gone.    *)
TakeLock(u) ==
  /\ page[u].pc = "acquire" /\ writer \in {u, Nobody}
  /\ \/ /\ page[u].id = 0 /\ (lock = NoLock \/ writer = u) /\ inserted < MaxLocks
        /\ inserted' = inserted + 1
        /\ lock' = [id |-> inserted + 1, owner |-> u, expires |-> page[u].expires]
        /\ page' = [page EXCEPT ![u].pc = "load"]
     \/ /\ page[u].id # 0 /\ lock.id = page[u].id
        /\ lock' = [lock EXCEPT !.expires = page[u].expires]
        /\ page' = [page EXCEPT ![u].pc = "load"]
        /\ UNCHANGED inserted
     \/ /\ writer = Nobody /\ lock.id # page[u].id
        /\ page' = [page EXCEPT ![u].pc = "list"]
        /\ UNCHANGED <<lock, inserted>>
  /\ writer' = IF writer = u THEN Nobody ELSE writer
  /\ UNCHANGED <<exists, version, minute>>

(* Mutant: the page of purchase orders shows what its list had, too.         *)
OpenUnloaded(u) ==
  /\ page[u].pc = "load"
  /\ page' = [page EXCEPT ![u].pc = "edit"]
  /\ UNCHANGED <<exists, version, lock, inserted, writer, minute>>

(* openDetail loads the purchase order once it has the lock; openEdit edits the  *)
(* row of its list.                                                        *)
Open(u) ==
  /\ page[u].pc = "load"
  /\ page' = [page EXCEPT ![u].pc = IF exists THEN "edit" ELSE "list",
                          ![u].seen = IF u \in DetailUsers THEN @ ELSE version]
  /\ UNCHANGED <<exists, version, lock, inserted, writer, minute>>
-----------------------------------------------------------------------------
(* update_purchase_order, update_purchase_order_item, delete_purchase_order:    *)
(* the clean-up and the check of _ensure_purchase_order_lock_owner ...        *)
Check(u, request) ==
  /\ page[u].pc = "edit" /\ exists
  /\ ~Stale /\ lock.owner = u
  /\ page' = [page EXCEPT ![u].pc = request, ![u].id = lock.id]
  /\ UNCHANGED <<exists, version, lock, inserted, writer, minute>>

Doing(request) == IF request = "save" THEN "saving" ELSE "deleting"

(* Mutant: the expiry is written to whatever row the purchase order has.      *)
RenewAny(u) ==
  /\ page[u].pc \in {"save", "delete"} /\ writer = Nobody /\ lock # NoLock
  /\ writer' = u
  /\ page' = [page EXCEPT ![u].pc = Doing(@), ![u].expires = minute + Lease]
  /\ UNCHANGED <<exists, version, lock, inserted, minute>>

(* ... then its new expiry, to the row it has read: the update raises if that    *)
(* row was cleaned up meanwhile.                                           *)
Renew(u) ==
  /\ page[u].pc \in {"save", "delete"} /\ writer = Nobody
  /\ \/ /\ lock.id = page[u].id
        /\ writer' = u
        /\ page' = [page EXCEPT ![u].pc = Doing(@), ![u].expires = minute + Lease]
     \/ /\ lock.id # page[u].id
        /\ page' = [page EXCEPT ![u].pc = "edit"]
        /\ UNCHANGED writer
  /\ UNCHANGED <<exists, version, lock, inserted, minute>>

CommitSave(u) ==
  /\ page[u].pc = "saving" /\ version < MaxEdits
  /\ version' = version + 1
  /\ lock' = [lock EXCEPT !.expires = page[u].expires]
  /\ writer' = Nobody
  /\ page' = [page EXCEPT ![u].pc = "edit", ![u].seen = version + 1]
  /\ UNCHANGED <<exists, inserted, minute>>

(* The lock goes with the purchase order (ON DELETE CASCADE).                *)
CommitDelete(u) ==
  /\ page[u].pc = "deleting"
  /\ exists' = FALSE /\ lock' = NoLock /\ writer' = Nobody
  /\ page' = [page EXCEPT ![u] = Closed]
  /\ UNCHANGED <<version, inserted, minute>>

(* A request is refused for another reason, or its connection breaks: it is     *)
(* rolled back.                                                           *)
RollBack(u) ==
  /\ page[u].pc \in {"acquire", "save", "delete", "saving", "deleting"}
  /\ writer' = IF writer = u THEN Nobody ELSE writer
  /\ page' = [page EXCEPT ![u].pc = IF @ = "acquire" THEN "list" ELSE "edit"]
  /\ UNCHANGED <<exists, version, lock, inserted, minute>>

(* closeDetail, closeEdit and _release_purchase_order_lock: an expired lock      *)
(* stays for the next clean-up, another user's is left alone.                *)
Close(u) ==
  /\ page[u].pc = "edit" /\ writer = Nobody
  /\ lock' = IF lock.owner = u /\ ~Stale THEN NoLock ELSE lock
  /\ page' = [page EXCEPT ![u].pc = "list"]
  /\ UNCHANGED <<exists, version, inserted, writer, minute>>

Pass ==
  /\ minute < MaxMinutes /\ minute' = minute + 1
  /\ UNCHANGED <<exists, version, lock, inserted, writer, page>>

UserStep(u) ==
  \/ List(u) \/ AskLock(u) \/ TakeLock(u) \/ Open(u)
  \/ \E request \in {"save", "delete"} : Check(u, request)
  \/ Renew(u) \/ CommitSave(u) \/ CommitDelete(u) \/ RollBack(u) \/ Close(u)

EditNext == (\E u \in Users : UserStep(u)) \/ Pass

EditSpec == EditInit /\ [][EditNext]_editVars
-----------------------------------------------------------------------------
(* Nobody's edit is overwritten by somebody who has not seen it: what is saved  *)
(* from the page of purchase orders was edited from the latest version, however *)
(* locks expired and were cleaned up, renewed and taken over meanwhile.  From    *)
(* the list of details it need not be.                                      *)
EditsSeen ==
  [][\A u \in Users \ DetailUsers : CommitSave(u) => page[u].seen = version]_editVars
=============================================================================
