------------------------------ MODULE ClientParts ------------------------------
(***************************************************************************)
(* The parts of the client that share no state, side by side: a behaviour  *)
(* picks one of them at the start and is one of its behaviours.            *)
(***************************************************************************)
EXTENDS ConnectPath, BrowserHost, ApplicationSessions, DeviceKeyStore,
        FailoverController, StreamCopy, ReleaseUpdate, ClientTransport

VARIABLE part

policyVars == <<connect, hostVars, sessionVars, releaseVars>>

runtimeVars == <<keyVars, controllerVars, copyVars>>

vars == <<part, policyVars, runtimeVars, transportVars>>

\* The transport is over and done with, so that nothing is asked of its threads.
TransportRests ==
  /\ phase = [l \in Layer |-> "stopped"]
  /\ state = [l \in Layer |-> "Stopped"]
  /\ shutdown = [l \in Layer |-> TRUE]
  /\ listener = [l \in Layer |-> "ended"]
  /\ worker = [l \in Layer |-> [r \in Requests |-> "done"]]
  /\ link = [r \in Requests |-> "none"]
  /\ upstream = TRUE
  /\ snap = Unread

Init ==
  /\ part \in {"connect", "host", "sessions", "keys", "controller", "copy", "release", "transport"}
  /\ IF part = "connect" THEN ConnectInit ELSE connect = [at |-> "idle"]
  /\ HostInit
  /\ IF part = "sessions" THEN SessionsInit
     ELSE /\ profile = DefaultProfile /\ status = None /\ sessions = <<>> /\ gui = Waiting
  /\ KeyInit
  /\ IF part = "controller" THEN ControllerInit
     ELSE /\ provider = [r \in Role |-> "Stopped"] /\ active = "None"
          /\ failures = [r \in Role |-> 0]
          /\ failedOver = 0 /\ now = 0 /\ entered = 0
  /\ CopyInit
  /\ IF part = "release" THEN ReleaseInit
     ELSE installed = [version |-> <<1>>, platform |-> None] /\ past = {}
  /\ IF part = "transport" THEN TransportInit ELSE TransportRests

PolicyNext ==
  \/ /\ part = "connect" /\ ConnectNext
     /\ UNCHANGED <<hostVars, sessionVars, releaseVars>>
  \/ /\ part = "host" /\ HostNext
     /\ UNCHANGED <<connect, sessionVars, releaseVars>>
  \/ /\ part = "sessions" /\ SessionsNext
     /\ UNCHANGED <<connect, hostVars, releaseVars>>
  \/ /\ part = "release" /\ InstallRelease
     /\ UNCHANGED <<connect, hostVars, sessionVars>>

RuntimeNext ==
  \/ /\ part = "keys" /\ KeyNext
     /\ UNCHANGED <<controllerVars, copyVars>>
  \/ /\ part = "controller" /\ ControllerNext
     /\ UNCHANGED <<keyVars, copyVars>>
  \/ /\ part = "copy" /\ CopyNext
     /\ UNCHANGED <<keyVars, controllerVars>>

Next ==
  \/ PolicyNext /\ UNCHANGED <<part, runtimeVars, transportVars>>
  \/ RuntimeNext /\ UNCHANGED <<part, policyVars, transportVars>>
  \/ /\ part = "transport" /\ TransportNext
     /\ UNCHANGED <<part, policyVars, runtimeVars>>

Spec == Init /\ [][Next]_vars

FairSpec == Spec /\ TransportFairness
=================================================================================
