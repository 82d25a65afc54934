-------------------------- MODULE MCNotifications --------------------------
(* Symmetry for the runs of Notifications that check no liveness. *)
EXTENDS Notifications, TLC

Symmetric ==
  Permutations(Logs) \cup Permutations(Jobs)
    \cup Permutations(Callers) \cup Permutations(Workers)
=============================================================================
