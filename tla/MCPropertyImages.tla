-------------------------- MODULE MCPropertyImages --------------------------
(* Symmetry for the run of PropertyImages that checks no liveness. *)
EXTENDS PropertyImages, TLC

Symmetric == Permutations(Images) \cup Permutations(Calls)
=============================================================================
