------------------------- MODULE MCServiceProcesses -------------------------
(* Bounds of the model-checking runs of ServiceProcesses. *)
EXTENDS ServiceProcesses, TLC

CONSTANTS s1, s2, x1, trimmed2

\* One of the services comes from the configuration.
MCConfigSlug == s1 :> x1

\* The other one is simulated.
MCExecutables == s1 :> {"program"} @@ s2 :> {"simulated"}

\* No identifier has spaces around it, or that of the second service has.
MCNoSpaces == s1 :> s1 @@ s2 :> s2
MCSpaces == s1 :> s1 @@ s2 :> trimmed2
=============================================================================
