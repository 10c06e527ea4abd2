------------------------------- MODULE Outbound -------------------------------
(***************************************************************************)
(* How orders leave the warehouse: parcels scanned at the door                  *)
(* (app/main.py, create_outbound_scan) beside everything that moves orders in   *)
(* one transaction: the button "mark shipped", the import of the outbound        *)
(* sheet (app/order_outbound_import.py), purchase and its deletion, a            *)
(* cancelled order's snapshot. A scan commits twice, its record first and the    *)
(* order afterwards; no row is locked between reading an order and writing it. *)
(***************************************************************************)
EXTENDS FiniteSets

CONSTANTS
  OutOrders,     \* orders to be purchased and sent
  TrackingNos,   \* tracking numbers; orders sent in one parcel share one
  Scanners,      \* browsers with the scan page open: each scans one at a time
  Batches        \* transactions over several orders that can run at a time

(* buying, picking; shipped stands for every later status as well.          *)
OutStages == {"buying", "picking", "shipped", "voided"}

VARIABLES
  carries,    \* order -> its tracking number
  stage,      \* order -> biz_status
  scan,       \* scanner -> the request it waits for
  batch,      \* batch -> what it has read of which orders, and what it writes
  scanned,    \* records with result success: order, and who scanned it
  torn,       \* records whose request died between its two commits
  overtaken,  \* orders of which a batch overwrote a newer status than it had read
  beside      \* numbers two requests have looked for before either left a record

outVars == <<carries, stage, scan, batch, scanned, torn, overtaken, beside>>

NoScan == [pc |-> "idle"]
Scan == {NoScan} \cup
  [pc : {"found", "clear", "recorded"}, order : OutOrders, seen : OutStages]

(* A record of outbound_scan_records whose result is success.               *)
ScanRecord == [order : OutOrders, by : Scanners]

NoRows == [o \in {} |-> "buying"]
NoBatch == [seen |-> NoRows, to |-> NoRows]
Batch == UNION {[seen : [S -> OutStages], to : [S -> OutStages]] : S \in SUBSET OutOrders}

OutTypeOK ==
  /\ carries \in [OutOrders -> TrackingNos]
  /\ stage \in [OutOrders -> OutStages]
  /\ scan \in [Scanners -> Scan]
  /\ batch \in [Batches -> Batch]
  /\ scanned \subseteq ScanRecord /\ torn \subseteq ScanRecord
  /\ overtaken \subseteq OutOrders /\ beside \subseteq TrackingNos

OutInit ==
  /\ carries \in [OutOrders -> TrackingNos]
  /\ stage = [o \in OutOrders |-> "buying"]
  /\ scan = [s \in Scanners |-> NoScan]
  /\ batch = [b \in Batches |-> NoBatch]
  /\ scanned = {} /\ torn = {} /\ overtaken = {} /\ beside = {}
-----------------------------------------------------------------------------
(* A scan.                                                                  *)

scanVars == <<carries, batch, overtaken>>

(* Mutant: a number counts as scanned only for the order that was found.       *)
NumberScannedForOrder(o) == \E r \in scanned : r.order = o

(* _has_successful_outbound_scan: a success of that number, whatever the order. *)
NumberScanned(o) == \E r \in scanned : carries[r.order] = carries[o]

(* _find_order_by_tracking_number: one of the orders that carry it (the code     *)
(* takes the one changed last), with the status it has at that moment. Empty     *)
(* and unknown numbers leave a record of another result and nothing else.     *)
FindOrder(s) ==
  /\ scan[s] = NoScan
  /\ \E o \in OutOrders :
       scan' = [scan EXCEPT ![s] = [pc |-> "found", order |-> o, seen |-> stage[o]]]
  /\ UNCHANGED <<scanVars, stage, scanned, torn, beside>>

(* Answers "duplicate" and "invalid", or goes on: only orders being picked may   *)
(* be scanned out, judged by the status that was read with the order.        *)
LookUp(s) ==
  LET o == scan[s].order
      passes == ~NumberScanned(o) /\ scan[s].seen = "picking"
  IN /\ scan[s].pc = "found"
     /\ scan' = [scan EXCEPT ![s] = IF passes THEN [@ EXCEPT !.pc = "clear"] ELSE NoScan]
     /\ beside' = IF /\ passes
                     /\ \E t \in Scanners \ {s} : /\ scan[t].pc = "clear"
                                                  /\ carries[scan[t].order] = carries[o]
                  THEN beside \cup {carries[o]} ELSE beside
     /\ UNCHANGED <<scanVars, stage, scanned, torn>>

(* _create_outbound_scan_record commits the success on its own.                *)
Record(s) ==
  /\ scan[s].pc = "clear"
  /\ scanned' = scanned \cup {[order |-> scan[s].order, by |-> s]}
  /\ scan' = [scan EXCEPT ![s].pc = "recorded"]
  /\ UNCHANGED <<scanVars, stage, torn, beside>>

(* The second commit: the order is shipped, whatever it has become meanwhile.   *)
ShipScanned(s) ==
  /\ scan[s].pc = "recorded"
  /\ stage' = [stage EXCEPT ![scan[s].order] = "shipped"]
  /\ scan' = [scan EXCEPT ![s] = NoScan]
  /\ UNCHANGED <<scanVars, scanned, torn, beside>>

(* The process dies, or a statement of the request fails.                     *)
DieScanning(s) ==
  /\ scan[s] # NoScan
  /\ scan' = [scan EXCEPT ![s] = NoScan]
  /\ torn' = IF scan[s].pc = "recorded"
             THEN torn \cup {[order |-> scan[s].order, by |-> s]} ELSE torn
  /\ UNCHANGED <<scanVars, stage, scanned, beside>>
-----------------------------------------------------------------------------
(* Transactions that move several orders: read, decide, commit.               *)

Reads(b, orders, targets) ==
  /\ batch[b] = NoBatch /\ orders # {}
  /\ \E to \in [orders -> targets] :
       batch' = [batch EXCEPT ![b] = [seen |-> [o \in orders |-> stage[o]], to |-> to]]
  /\ UNCHANGED <<carries, stage, scan, scanned, torn, overtaken, beside>>

Those(orders, status) == {o \in orders : stage[o] = status}

(* batch_to_picking: all must wait for purchase; those without a matching        *)
(* logistics rule, and those that need no label, are shipped instead.        *)
ToPicking(b) ==
  \E S \in SUBSET OutOrders :
    /\ S \subseteq Those(S, "buying")
    /\ Reads(b, S, {"picking", "shipped"})

(* batch_mark_shipped: all must be in picking.                               *)
MarkShipped(b) ==
  \E S \in SUBSET OutOrders : S \subseteq Those(S, "picking") /\ Reads(b, S, {"shipped"})

(* _matching_orders: every order with one of the numbers.                    *)
Matching(numbers) == {o \in OutOrders : carries[o] \in numbers}

(* run_order_outbound_import: of the orders with the sheet's numbers, those in   *)
(* picking; numbers with two dates are left out beforehand.                   *)
ImportShipped(b) ==
  \E numbers \in SUBSET TrackingNos : Reads(b, Those(Matching(numbers), "picking"), {"shipped"})

(* A deleted purchase order gives back the orders it was the last source of that *)
(* are still being picked.                                                  *)
PurchaseDeleted(b) ==
  \E sources \in SUBSET OutOrders : Reads(b, Those(sources, "picking"), {"buying"})

(* upsert_order with the snapshot of a cancelled order.                       *)
Cancelled(b) == \E o \in OutOrders : stage[o] # "voided" /\ Reads(b, {o}, {"voided"})

CommitBatch(b) ==
  LET rows == DOMAIN batch[b].seen IN
  /\ batch[b] # NoBatch
  /\ stage' = [o \in OutOrders |-> IF o \in rows THEN batch[b].to[o] ELSE stage[o]]
  /\ overtaken' = overtaken \cup {o \in rows : stage[o] # batch[b].seen[o]}
  /\ batch' = [batch EXCEPT ![b] = NoBatch]
  /\ UNCHANGED <<carries, scan, scanned, torn, beside>>

(* A dry run, an IntegrityError, a process that dies: rolled back.             *)
RollBackBatch(b) ==
  /\ batch[b] # NoBatch
  /\ batch' = [batch EXCEPT ![b] = NoBatch]
  /\ UNCHANGED <<carries, stage, scan, scanned, torn, overtaken, beside>>

ScanStep(s) == FindOrder(s) \/ LookUp(s) \/ Record(s) \/ ShipScanned(s) \/ DieScanning(s)

BatchStep(b) ==
  \/ ToPicking(b) \/ MarkShipped(b) \/ ImportShipped(b) \/ PurchaseDeleted(b)
  \/ Cancelled(b) \/ CommitBatch(b) \/ RollBackBatch(b)

OutNext == (\E s \in Scanners : ScanStep(s)) \/ (\E b \in Batches : BatchStep(b))

OutSpec == OutInit /\ [][OutNext]_outVars
-----------------------------------------------------------------------------
(* The request is between the record and the order.                           *)
Finishing(r) == scan[r.by].pc = "recorded" /\ scan[r.by].order = r.order

(* What the outbound records say is so ("该货运单号已扫码出库"): an order whose scan  *)
(* succeeded has left or is cancelled, whatever purchase, import and other scans *)
(* do to it, unless its request died between its two commits or a batch wrote    *)
(* an order back that had moved since it was read; and a tracking number is      *)
(* scanned out once, whichever of its orders is found, unless two scanners       *)
(* looked for it at the same time.                                           *)
ScannedIsOut ==
  /\ \A r \in scanned : \/ stage[r.order] \in {"shipped", "voided"}
                        \/ Finishing(r) \/ r \in torn \/ r.order \in overtaken
  /\ \A r, q \in scanned :
       r # q /\ carries[r.order] = carries[q.order] => carries[r.order] \in beside
=============================================================================
