--------------------------- MODULE MCControlPlane ---------------------------
(* Bounds of the model-checking runs of ControlPlane. *)
EXTENDS ControlPlane, TLC

NameSymmetry == Permutations(Challenges) \cup Permutations(Times)
=============================================================================
