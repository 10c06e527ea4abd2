------------------------------- MODULE MC_Orders -------------------------------
(***************************************************************************)
(* The modules an order passes through, in one run.  They share no             *)
(* variable, so whatever one of them can do beside the others it can do        *)
(* while they stand still: part chooses, in the initial state, which moves.   *)
(*   "chains"  both chains of the pipeline over one order                    *)
(*   "batch"   one chain over all orders, which are recent; none is picked by     *)
(*             hand                                                        *)
(*   "drafts"  BsiDrafts      "parcels"  ShipmentCreate   "scans"  Outbound   *)
(***************************************************************************)
EXTENDS OrderPipeline, BsiDrafts, ShipmentCreate, Outbound, TLC

CONSTANT Lone   \* the only chain of part "batch"

ASSUME LoneAssumption == Lone \in Chains

VARIABLE part

mcVars == <<part, pipelineVars, draftVars, shipmentVars, outVars>>

Inert == order = [o \in Orders |-> [biz |-> "shipped", kind |-> "plain",
                                    recent |-> TRUE, printed |-> TRUE, purchase |-> 0]]

(* Tracking numbers are alike, and so are orders: one order has this number.   *)
SomeNo == CHOOSE n \in TrackingNos : TRUE

MCInit ==
  /\ PipelineInit /\ DraftInit /\ ShipmentInit /\ OutInit
  /\ \/ part = "chains" /\ Cardinality(InStage("pending")) = 1
     \/ /\ part = "batch" /\ InStage("shipped") = {} /\ Of("plain") # {}
        /\ \A o \in Orders : order[o].recent
     \/ part \in {"drafts", "parcels", "scans"} /\ Inert
  /\ carries[CHOOSE o \in OutOrders : TRUE] = SomeNo
  /\ part # "scans" => \A o \in OutOrders : carries[o] = SomeNo

MCPipeline ==
  /\ \/ part = "chains" /\ \E c \in Chains : ChainStep(c)
     \/ part = "batch" /\ ChainStep(Lone)
     \/ part = "chains" /\ OperatorStep
     \/ part = "batch" /\ OperatorStep /\ UNCHANGED byHand
  /\ UNCHANGED <<part, draftVars, shipmentVars, outVars>>

MCDrafts ==
  part = "drafts" /\ DraftNext /\ UNCHANGED <<part, pipelineVars, shipmentVars, outVars>>

MCParcels ==
  part = "parcels" /\ ShipmentNext /\ UNCHANGED <<part, pipelineVars, draftVars, outVars>>

MCScans ==
  part = "scans" /\ OutNext /\ UNCHANGED <<part, pipelineVars, draftVars, shipmentVars>>

MCNext == MCPipeline \/ MCDrafts \/ MCParcels \/ MCScans

MCSpec == MCInit /\ [][MCNext]_mcVars

(* The type invariants of the modules.                                *)
TypesOK == PipelineTypeOK /\ DraftTypeOK /\ ShipmentTypeOK /\ OutTypeOK

Symmetry == Permutations(Orders)
=============================================================================
