--------------------------- MODULE ClientTransport ---------------------------
(***************************************************************************)
(* The client's transport as main.rs composes it for a profile without a   *)
(* fallback relay: the base is started, then the bridge in front of it;    *)
(* the session code sees both through one status; the owner drops the      *)
(* bridge before the base.  The sidecar and the destinations behind it are *)
(* the environment.                                                        *)
(***************************************************************************)
EXTENDS RestrictedHttpConnect

VARIABLE snap  \* the reader of the status: base's state once read, what it hands out

transportVars == <<proxyVars, link, upstream, snap>>

Unread == [base |-> "unread", serving |-> FALSE, endpoint |-> FALSE]

TransportInit ==
  /\ ProxyInit
  /\ upstream = TRUE
  /\ link = [r \in Requests |-> "none"]
  /\ snap = Unread

---------------------------------------------------------------------------
(* start_client_transport and the drop of its owner.                       *)

StartClientTransport ==
  /\ \/ BaseStart
     \/ phase["base"] = "running" /\ BridgeStart
  /\ UNCHANGED snap

\* The bridge goes first, whether the owner is dropped or its start failed;
\* the base follows when the bridge is gone.
DropBridge == phase["bridge"] \in {"running", "failed"} /\ Shutdown("bridge")

DropBase ==
  /\ \/ phase["base"] = "failed"
     \/ phase["base"] = "running" /\ phase["bridge"] = "stopped"
  /\ Shutdown("base")

DropOwner == (DropBridge \/ DropBase) /\ UNCHANGED <<link, upstream, snap>>

StopLayers == (BridgeStop \/ BaseStop) /\ UNCHANGED snap

---------------------------------------------------------------------------
(* ClientTransportStatus::snapshot, two loads one after the other.         *)

CombineTransportStates(base, bridge) ==
  CASE "Offline" \in {base, bridge} -> "Offline"
    [] "Stopped" \in {base, bridge} -> "Stopped"
    [] "Starting" \in {base, bridge} -> "Starting"
    [] OTHER -> "Ready"

Combined == CombineTransportStates(state["base"], state["bridge"])

\* serving remembers, for the properties, that both layers were Ready just now.
SnapshotBase ==
  /\ phase["bridge"] = "running" /\ snap.base = "unread"
  /\ snap' = [base |-> state["base"], serving |-> Combined = "Ready", endpoint |-> FALSE]
  /\ UNCHANGED <<proxyVars, link, upstream>>

SnapshotBridge ==
  /\ snap.base # "unread" /\ ~snap.endpoint
  /\ snap' = IF CombineTransportStates(snap.base, state["bridge"]) = "Ready"
             THEN [snap EXCEPT !.endpoint = TRUE]
             ELSE Unread
  /\ UNCHANGED <<proxyVars, link, upstream>>

SnapshotDone ==
  /\ snap.endpoint
  /\ snap' = Unread
  /\ UNCHANGED <<proxyVars, link, upstream>>

---------------------------------------------------------------------------
(* The environment: the renderer's connections, the sidecar, accept().     *)

\* The renderer connects once the status has told it the endpoint; the owner's
\* own probe and other local programs connect at any time.
ClientConnects(r) == BridgeAccepts(r) /\ UNCHANGED snap

UpstreamFails ==
  /\ upstream
  /\ upstream' = FALSE
  /\ UNCHANGED <<proxyVars, link, snap>>

UpstreamReturns ==
  /\ ~upstream
  /\ upstream' = TRUE
  /\ UNCHANGED <<proxyVars, link, snap>>

AcceptError == (BaseAcceptFails \/ BridgeAcceptFails) /\ UNCHANGED snap

\* A copy loop notices the flag within its poll timeout, and that the other
\* end is gone.
RelayEnds(r) ==
  /\ \/ BridgeRelayEnds(r)
     \/ BaseRelayEnds(r)
  /\ UNCHANGED snap

RelayMustEnd(r) ==
  /\ \/ shutdown["bridge"] /\ BridgeRelayEnds(r)
     \/ (shutdown["base"] \/ link[r] = "left") /\ BaseRelayEnds(r)
  /\ UNCHANGED snap

WorkerSteps(r) == (BaseWorker(r) \/ BridgeWorker(r)) /\ UNCHANGED snap

TransportNext ==
  \/ StartClientTransport
  \/ DropOwner
  \/ StopLayers
  \/ SnapshotBase
  \/ SnapshotBridge
  \/ SnapshotDone
  \/ UpstreamFails
  \/ UpstreamReturns
  \/ AcceptError
  \/ \E r \in Requests : ClientConnects(r) \/ WorkerSteps(r) \/ RelayEnds(r)

TransportSpec == TransportInit /\ [][TransportNext]_transportVars

\* Every thread that can run does, timeouts fire and a relay that must end
\* ends.  Nothing is assumed of clients, the sidecar or the moment of the drop.
TransportFairness ==
  /\ WF_transportVars(StartClientTransport)
  /\ WF_transportVars(StopLayers)
  /\ WF_transportVars(DropBase /\ UNCHANGED <<link, upstream, snap>>)
  /\ \A r \in Requests :
       /\ WF_transportVars(BaseWorker(r) /\ UNCHANGED snap)
       /\ WF_transportVars(BridgeWorker(r) /\ UNCHANGED snap)
       /\ WF_transportVars(RelayMustEnd(r))

---------------------------------------------------------------------------
(* What the composition promises.                                          *)

\* An endpoint that the status hands out was, when the reader began, that of
\* two layers which both served: since a layer never comes back to Ready, the
\* two loads cannot be put together from moments that did not exist.
EndpointWasServed == snap.endpoint => snap.serving

\* The base outlives the bridge, and a stopped layer stays stopped: no worker
\* is left in it that could store into its state or still hold a connection.
StopIsBarrier ==
  /\ phase["base"] \in {"joining", "stopped"} => phase["bridge"] \in {"new", "stopped"}
  /\ \A l \in Layer : phase[l] = "stopped" =>
       /\ state[l] = "Stopped"
       /\ ~Listening(l)
       /\ \A r \in Requests : worker[l][r] \in Resting

\* A dropped owner takes both layers down, whatever their workers wait for.
DropTerminates ==
  phase["bridge"] = "joining" ~> (\A l \in Layer : phase[l] = "stopped")

\* A client that was accepted gets a tunnel or an answer, and a tunnel ends
\* with the layers.
ClientsAnswered ==
  \A r \in Requests :
    /\ worker["bridge"][r] \notin Resting ~> worker["bridge"][r] \in {"relaying", "done"}
    /\ shutdown["bridge"] ~> worker["bridge"][r] \in Resting
=============================================================================
