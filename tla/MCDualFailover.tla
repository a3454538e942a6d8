--------------------------- MODULE MCDualFailover ---------------------------
(* Bounds of the model-checking runs of DualFailover. *)
EXTENDS DualFailover, TLC

WorkerSymmetry == Permutations(Workers)
=============================================================================
