-------------------------- MODULE MCCaseLifecycle --------------------------
(* Symmetry for the runs of CaseLifecycle that check no liveness. *)
EXTENDS CaseLifecycle, TLC

Symmetric ==
  Permutations(Cases) \cup Permutations(Logs) \cup Permutations(Jobs)
    \cup Permutations(Callers)
=============================================================================
