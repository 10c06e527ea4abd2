-------------------------- MODULE MC_FollowUpExport --------------------------
(* Symmetry for checking FollowUpExport with TLC: workers and items are      *)
(* interchangeable, job ids are ordered and are not.                       *)
EXTENDS FollowUpExport, TLC

Symmetry == Permutations(Workers) \cup Permutations(Items)
=============================================================================
