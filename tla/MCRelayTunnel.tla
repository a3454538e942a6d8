--------------------------- MODULE MCRelayTunnel ---------------------------
(* Bounds of the model-checking runs of RelayTunnel. *)
EXTENDS RelayTunnel, TLC

ClientSymmetry == Permutations(Clients)
=============================================================================
