----------------------------- MODULE MC_TaskRuns -----------------------------
(* Model values and symmetry for checking TaskRuns with TLC.               *)
EXTENDS TaskRuns, TLC

(* The processes are interchangeable wherever Init treats them alike.      *)
Symmetry == Permutations(Procs)
=============================================================================
