------------------------------ MODULE MC_Services ------------------------------
(***************************************************************************)
(* Five modules in one run.  They share no variable, so whatever one of them     *)
(* can do beside the others it can do while they stand still: part chooses, in    *)
(* the initial state, which of them moves.                                   *)
(***************************************************************************)
EXTENDS OrderSync, OrderStatus, PurchaseEdits, CatalogSync, PostPrintMonitor, TLC

VARIABLE part

mcVars == <<part, syncVars, statusVars, editVars, catalogVars, monitorVars>>

MCInit ==
  /\ part \in {"sync", "status", "edits", "catalog", "monitor"}
  /\ SyncInit /\ StatusInit /\ EditInit /\ CatalogInit /\ MonitorInit
  /\ part # "status" => kind = "fbs"

MCSync ==
  part = "sync" /\ SyncNext
    /\ UNCHANGED <<part, statusVars, editVars, catalogVars, monitorVars>>

MCStatus ==
  part = "status" /\ StatusNext
    /\ UNCHANGED <<part, syncVars, editVars, catalogVars, monitorVars>>

MCEdits ==
  part = "edits" /\ EditNext
    /\ UNCHANGED <<part, syncVars, statusVars, catalogVars, monitorVars>>

MCCatalog ==
  part = "catalog" /\ CatalogNext
    /\ UNCHANGED <<part, syncVars, statusVars, editVars, monitorVars>>

MCMonitor ==
  part = "monitor" /\ MonitorNext
    /\ UNCHANGED <<part, syncVars, statusVars, editVars, catalogVars>>

MCNext == MCSync \/ MCStatus \/ MCEdits \/ MCCatalog \/ MCMonitor

MCSpec == MCInit /\ [][MCNext]_mcVars

(* Neither processes nor printers are told apart.                           *)
Symmetry == Permutations(SyncProcs) \cup Permutations(Printers) \cup Permutations(Watchers)

(* The type invariants of the five modules.                                 *)
TypesOK == SyncTypeOK /\ StatusTypeOK /\ EditTypeOK /\ CatalogTypeOK /\ MonitorTypeOK
=============================================================================
