----------------------------- MODULE ShipmentCreate -----------------------------
(***************************************************************************)
(* Parcels created at a marketplace or at Wanbang for the orders of one       *)
(* account (app/sync_engine.py,                                             *)
(* submit_platform_shipments_and_refresh_logistics).                       *)
(*                                                                         *)
(* A submission goes through its orders one by one: it looks for a parcel of  *)
(* the order, takes the account's advisory lock for the remote call, releases  *)
(* it, and commits the parcels of all its orders after the last one, or earlier *)
(* if the account's token is refreshed on the way.  Two pipeline runs may      *)
(* submit at the same time, and a run repeats its submission until the labels  *)
(* are ready.  The parcels are those their row identifies: not Ozon's pending   *)
(* postings, where a repetition names the same posting.                     *)
(***************************************************************************)
EXTENDS Naturals

CONSTANTS
  Free,         \* the lock of nobody
  Submitters,   \* pipeline runs
  Parcelled,    \* eligible orders of the account
  MaxParcels    \* bound on the parcels created for one order

ASSUME ShipmentAssumption == Free \notin Submitters /\ MaxParcels \in Nat \ {0}

VARIABLES
  shipment,    \* shipment[o]: parcel in the latest committed shipments row, 0 if none
  parcels,     \* parcels[o]: parcels that exist for o, numbered from 1
  createLock,  \* advisory lock "shipment_create" of the account
  sub,         \* sub[s]: where submission s is
  blind,       \* orders whose row does not show the look that there is a parcel
  unsure,      \* history: orders a parcel of which was created without its record,
               \* or recorded only after another submission had looked
  vague        \* history: orders whose row did not stop a submission that looked

shipmentVars == <<shipment, parcels, createLock, sub, blind, unsure, vague>>

Parcels == 0..MaxParcels
NoParcel == [o \in Parcelled |-> 0]

(* todo: orders still to look at; at: those whose turn it is, one at most;     *)
(* made: the parcels of this session that are not committed.                *)
Waiting == [pc |-> "waiting", todo |-> {}, at |-> {}, made |-> NoParcel]
Submission == [pc : {"waiting", "look", "lock", "create", "settle"}, todo : SUBSET Parcelled,
               at : SUBSET Parcelled, made : [Parcelled -> Parcels]]

ShipmentTypeOK ==
  /\ shipment \in [Parcelled -> Parcels]
  /\ parcels \in [Parcelled -> Parcels]
  /\ createLock \in Submitters \cup {Free}
  /\ sub \in [Submitters -> Submission]
  /\ blind \subseteq Parcelled /\ unsure \subseteq Parcelled /\ vague \subseteq Parcelled

ShipmentInit ==
  /\ shipment = NoParcel /\ parcels = NoParcel
  /\ createLock = Free
  /\ sub = [s \in Submitters |-> Waiting]
  /\ blind = {} /\ unsure = {} /\ vague = {}

Made(s) == {o \in Parcelled : sub[s].made[o] # 0}

Begin(s) ==
  /\ sub[s].pc = "waiting"
  /\ sub' = [sub EXCEPT ![s] = [Waiting EXCEPT !.pc = "look", !.todo = Parcelled]]
  /\ UNCHANGED <<shipment, parcels, createLock, blind, unsure, vague>>

(* Mutant: a parcel is looked for only by its tracking number, which the      *)
(* platform gives later.                                                   *)
HasExistingTracked(o) == FALSE

(* _has_existing_platform_shipment, in the order's latest shipments row.  Some    *)
(* rows do not count: Joom's without a tracking number, those of status failed or  *)
(* error, and at Wanbang those of another carrier.                          *)
HasExisting(o) == shipment[o] # 0 /\ o \notin blind

Skipped(s) == [sub[s] EXCEPT !.pc = "look", !.at = {}]

(* The look, before the lock.                                              *)
Look(s) ==
  /\ sub[s].pc = "look"
  /\ \E o \in sub[s].todo :
       /\ sub' = [sub EXCEPT ![s] =
                    [@ EXCEPT !.todo = sub[s].todo \ {o},
                              !.pc = IF HasExisting(o) THEN "look" ELSE "lock",
                              !.at = IF HasExisting(o) THEN {} ELSE {o}]]
       /\ vague' = vague \cup ({o} \cap blind)
  /\ UNCHANGED <<shipment, parcels, createLock, blind, unsure>>

(* sync_job_lock: not waited for; who does not get it passes the order over.  *)
TakeCreateLock(s) ==
  /\ sub[s].pc = "lock"
  /\ \/ /\ createLock = Free
        /\ createLock' = s
        /\ sub' = [sub EXCEPT ![s].pc = "create"]
     \/ /\ createLock # Free
        /\ sub' = [sub EXCEPT ![s] = Skipped(s)]
        /\ UNCHANGED createLock
  /\ UNCHANGED <<shipment, parcels, blind, unsure, vague>>

(* create_platform_shipment, create_wanbang_shipment_for_order: the parcel is  *)
(* created and answered, or created while the answer, or a later request of   *)
(* the same operation, is lost or names nothing, or not created.             *)
Create(s) ==
  /\ sub[s].pc = "create"
  /\ \E o \in sub[s].at :
       \/ /\ parcels[o] < MaxParcels
          /\ parcels' = [parcels EXCEPT ![o] = @ + 1]
          /\ \/ /\ sub' = [sub EXCEPT ![s] = [@ EXCEPT !.pc = "settle",
                                                       !.made[o] = parcels[o] + 1]]
                /\ UNCHANGED unsure
             \/ /\ sub' = [sub EXCEPT ![s].pc = "settle"]
                /\ unsure' = unsure \cup {o}
       \/ /\ sub' = [sub EXCEPT ![s].pc = "settle"]
          /\ UNCHANGED <<parcels, unsure>>
  /\ UNCHANGED <<shipment, createLock, blind, vague>>

(* The end of the locked block, whether or not it raised: the lock goes, and   *)
(* the row of the parcel, if any, stays in the session.                     *)
Settle(s) ==
  /\ sub[s].pc = "settle"
  /\ createLock' = Free
  /\ sub' = [sub EXCEPT ![s] = Skipped(s)]
  /\ UNCHANGED <<shipment, parcels, blind, unsure, vague>>

(* Orders of its parcels that another submission has looked at and found none. *)
LookedAt(s) == {o \in Made(s) : \E u \in Submitters \ {s} : o \in sub[u].at}

(* Mutant: only the last order of the submission is committed.             *)
CommitLast(s) ==
  /\ sub[s].pc = "look" /\ sub[s].todo = {}
  /\ \E last \in SUBSET Made(s) :
       /\ Made(s) # {} => \E o \in Made(s) : last = {o}
       /\ shipment' = [o \in Parcelled |-> IF o \in last THEN sub[s].made[o] ELSE shipment[o]]
  /\ unsure' = unsure \cup LookedAt(s)
  /\ sub' = [sub EXCEPT ![s] = Waiting]
  /\ UNCHANGED <<parcels, createLock, blind, vague>>

(* The rows of the session, committed, with what the answers said of the parcels. *)
Recorded(s) == [o \in Parcelled |-> IF o \in Made(s) THEN sub[s].made[o] ELSE shipment[o]]
Answered(s) == \E few \in SUBSET Made(s) : blind' = (blind \ Made(s)) \cup few

(* ensure_access_token, called before the remote call of a marketplace with     *)
(* OAuth: a refresh, also one that fails, commits the session.                *)
CommitEarly(s) ==
  /\ sub[s].pc = "create" /\ Made(s) # {}
  /\ shipment' = Recorded(s)
  /\ unsure' = unsure \cup LookedAt(s)
  /\ sub' = [sub EXCEPT ![s].made = NoParcel]
  /\ Answered(s)
  /\ UNCHANGED <<parcels, createLock, vague>>

(* One commit for all orders.                                              *)
Commit(s) ==
  /\ sub[s].pc = "look" /\ sub[s].todo = {}
  /\ shipment' = Recorded(s)
  /\ unsure' = unsure \cup LookedAt(s)
  /\ sub' = [sub EXCEPT ![s] = Waiting]
  /\ Answered(s)
  /\ UNCHANGED <<parcels, createLock, vague>>

(* refresh_order_logistics_for_rows: the tracking number comes, or the platform  *)
(* gives the parcel another status or carrier.                              *)
Refresh(o) ==
  /\ shipment[o] # 0
  /\ blind' \in {blind \cup {o}, blind \ {o}}
  /\ UNCHANGED <<shipment, parcels, createLock, sub, unsure, vague>>

(* The run dies or is cancelled: its connection and its lock go, and so do     *)
(* the uncommitted rows.                                                   *)
Abort(s) ==
  /\ sub[s].pc # "waiting"
  /\ unsure' = unsure \cup Made(s)
  /\ createLock' = IF createLock = s THEN Free ELSE createLock
  /\ sub' = [sub EXCEPT ![s] = Waiting]
  /\ UNCHANGED <<shipment, parcels, blind, vague>>

SubmissionStep(s) ==
  \/ Begin(s) \/ Look(s) \/ TakeCreateLock(s) \/ CommitEarly(s) \/ Create(s) \/ Settle(s)
  \/ Commit(s) \/ Abort(s)

ShipmentNext == (\E s \in Submitters : SubmissionStep(s)) \/ (\E o \in Parcelled : Refresh(o))

ShipmentSpec == ShipmentInit /\ [][ShipmentNext]_shipmentVars
-----------------------------------------------------------------------------
(* A parcel that was created is recorded, or in a session that will commit it, *)
(* or its answer or its session was lost.                                  *)
ParcelKept ==
  \A o \in Parcelled : parcels[o] > 0 =>
    shipment[o] # 0 \/ o \in unsure \/ \E s \in Submitters : o \in Made(s)

(* A further parcel is created for an order only if the record of an earlier   *)
(* one was lost or is in another session still, or came after the look, or was   *)
(* there and did not count: while answers and rows say what they should, the     *)
(* submissions of one run create none, however often it repeats them.        *)
NoSecondParcel ==
  [][\A s \in Submitters, o \in Parcelled :
       parcels[o] > 0 /\ parcels'[o] > parcels[o] /\ o \in sub[s].at /\ sub[s].pc = "create"
         => \/ o \in unsure \cup vague
            \/ \E u \in Submitters \ {s} : o \in Made(u)]_shipmentVars
=============================================================================
