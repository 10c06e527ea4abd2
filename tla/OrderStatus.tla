------------------------------ MODULE OrderStatus ------------------------------
(***************************************************************************)
(* The business status a snapshot of the marketplace gives an order            *)
(* (app/sync_engine.py, _platform_snapshot_biz_status and what it calls), for  *)
(* every kind of order, and an order whose snapshots may arrive out of order:  *)
(* syncs of two processes overlap, and each saves what it fetched.           *)
(***************************************************************************)
EXTENDS Naturals

CONSTANT OrderKinds   \* kinds of order to consider, a subset of AllKinds

(* How the shop handles the order: ordinary ones, those of two platforms with   *)
(* statuses of their own, orders the platform's warehouse fulfils (by the       *)
(* account's fbo_fbp_download_mode), Joom's warehouse, Joom orders with a BSI    *)
(* draft, and Joom orders shipped offline.                                  *)
AllKinds == {"fbs", "wildberries", "allegro", "fbo_none", "fbo_unshipped",
             "fbo_completed", "fbj", "bsi", "offline"}

ASSUME StatusAssumption == OrderKinds \subseteq AllKinds

(* _BIZ_STATUS_ORDER                                                       *)
BizRank == [pending |-> 0, printing |-> 1, buying |-> 2, picking |-> 3, shipped |-> 4,
            delivered |-> 5, completed |-> 6, voided |-> 6]
BizStatuses == DOMAIN BizRank

(* What the marketplace says: cancelled stands for VOIDED_PLATFORM_STATUSES,    *)
(* delivering for those of an order on its way, shipped, complete and delivered *)
(* for the members of DELIVERED_PLATFORM_STATUSES that some rule singles out.  *)
PlatformRank == [awaiting |-> 0, sent |-> 1, delivering |-> 1, shipped |-> 2,
                 picked_up |-> 2, delivered |-> 2, complete |-> 3, cancelled |-> 4]
PlatformStatuses == DOMAIN PlatformRank

VARIABLES
  kind,     \* how the order is handled
  biz,      \* column biz_status
  latest,   \* the order's status at the marketplace
  early     \* an earlier status, that a sync has fetched and not saved yet

statusVars == <<kind, biz, latest, early>>

StatusTypeOK ==
  /\ kind \in OrderKinds /\ biz \in BizStatuses
  /\ latest \in PlatformStatuses /\ early \in PlatformStatuses
-----------------------------------------------------------------------------
(* Mutant: the latest candidate wins.                                       *)
AdvanceAlways(current, candidate) == candidate

(* _advance_biz_status: forward only, and not past picking.                 *)
AdvanceStatus(current, candidate) ==
  IF \/ current = "picking" /\ candidate = "shipped"
     \/ BizRank[candidate] < BizRank[current]
  THEN current ELSE candidate

(* _compute_biz_status: the candidate of the first rule that applies.         *)
Candidate(k, ps) ==
  CASE ps = "cancelled" -> "voided"
    [] k = "wildberries" /\ ps = "complete" -> "pending"
    [] k = "allegro" /\ ps = "picked_up" -> "delivered"
    [] ps \in {"shipped", "complete", "delivered"} -> "delivered"
    [] k = "fbo_completed" -> "completed"
    [] k \in {"fbs", "wildberries", "allegro", "fbo_unshipped", "bsi", "fbj"}
         /\ ps = "delivering" -> "shipped"
    [] OTHER -> "pending"

Compute(k, ps, current) ==
  IF k = "allegro" /\ ps = "sent"
  THEN IF current \in {"completed", "voided"} THEN current ELSE "shipped"
  ELSE AdvanceStatus(current, Candidate(k, ps))

(* joom_offline_shipping_target_status, for an order with a tracking number.   *)
OfflineTarget(ps, current) ==
  LET target == CASE ps = "cancelled" -> "voided"
                  [] ps = "complete" -> "completed"
                  [] ps = "delivered" -> "delivered"
                  [] ps = "shipped" -> "shipped"
                  [] OTHER -> current
  IN IF BizRank[current] > BizRank[target] THEN current ELSE target

(* _platform_snapshot_biz_status                                           *)
Snapshot(k, ps, current) ==
  CASE k \in {"bsi", "fbj"} /\ ps = "cancelled" -> Compute(k, ps, current)
    [] k = "bsi" -> current
    [] k = "fbj" -> IF current \in {"shipped", "delivered", "completed"} THEN current
                                                                    ELSE "pending"
    [] k = "offline" -> OfflineTarget(ps, current)
    [] OTHER -> Compute(k, ps, current)
-----------------------------------------------------------------------------
StatusInit ==
  /\ kind \in OrderKinds
  /\ biz = "pending" /\ latest = "awaiting" /\ early = "awaiting"

(* The marketplace moves the order on, or cancels it; a sync may still hold    *)
(* what it was.                                                            *)
Proceed ==
  /\ \E ps \in PlatformStatuses :
       PlatformRank[ps] > PlatformRank[latest] /\ latest' = ps
  /\ early' \in {early, latest}
  /\ UNCHANGED <<kind, biz>>

(* upsert_order, refresh_order_logistics_for_rows: with a current snapshot, or *)
(* one of an overlapping sync that fetched it earlier.                      *)
ApplySnapshot ==
  /\ \E ps \in {latest, early} : biz' = Snapshot(kind, ps, biz)
  /\ UNCHANGED <<kind, latest, early>>

(* The shop's own work: printing, purchase, picking, the confirmed export of   *)
(* an order that needs none of them.                                        *)
Work ==
  /\ biz' \in CASE biz = "pending" -> {"printing", "shipped"}
                [] biz = "printing" -> {"buying"}
                [] biz = "buying" -> {"picking"}
                [] biz = "picking" -> {"shipped", "buying"}
                [] OTHER -> {}
  /\ UNCHANGED <<kind, latest, early>>

StatusNext == Proceed \/ ApplySnapshot \/ Work

StatusSpec == StatusInit /\ [][StatusNext]_statusVars
-----------------------------------------------------------------------------
(* "二次命中时只向前推进，不从配货中/已发货等状态回退到待处理": whatever snapshots arrive,  *)
(* in whatever order, one never throws away work the shop has done on an order *)
(* to be printed, purchased, picked or shipped (Joom's own warehouse needs none *)
(* of that, and its orders do go back); and a cancelled order that is voided is  *)
(* not worked on again: an old snapshot of before the cancellation, saved last,  *)
(* leaves it voided. Three kinds may come back: two are fulfilled by the         *)
(* platform, and for an offline shipment completed and voided rank equal.     *)
WorkKept ==
  [][/\ kind # "fbj" /\ ApplySnapshot /\ biz # "pending" => biz' # "pending"
     /\ biz = "voided" => biz' = "voided" \/ kind \in {"fbj", "fbo_completed", "offline"}]_statusVars
=============================================================================
