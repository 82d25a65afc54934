----------------------------- MODULE MCOtpAuth -----------------------------
(* Symmetry for the run of OtpAuth that checks no liveness. *)
EXTENDS MCOtpSerial, TLC

Symmetric == Permutations(Handlers) \cup Permutations(Codes)
=============================================================================
