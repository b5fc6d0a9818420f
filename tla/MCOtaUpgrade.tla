---------------------------- MODULE MCOtaUpgrade ----------------------------
(* Instances of OtaUpgrade for TLC. *)
EXTENDS OtaUpgrade, TLC

CONSTANTS w1, w2

WorkerSymmetry == Permutations(Workers)

=============================================================================
