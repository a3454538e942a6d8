---------------------------- MODULE MCRelayMux ----------------------------
(* Bounds of the model-checking runs of RelayMux. *)
EXTENDS RelayMux, TLC

CONSTANTS a, b

\* Three chunks fill the writer, a channel of one and the reader's hands.
MCMaxChunks == a :> 1 @@ b :> 3
=============================================================================
