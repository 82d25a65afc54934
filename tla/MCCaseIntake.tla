---------------------------- MODULE MCCaseIntake ----------------------------
(* Symmetry for the run of CaseIntake that checks no liveness. *)
EXTENDS CaseIntake, TLC

Symmetric == Permutations(Customers) \cup Permutations(Requests)
               \cup Permutations(Docs \ Forged) \cup Permutations(Codes)
=============================================================================
