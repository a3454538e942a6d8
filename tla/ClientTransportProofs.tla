------------------------- MODULE ClientTransportProofs -------------------------
(***************************************************************************)
(* The safety of the client's transport, for any set of clients and any    *)
(* slow destinations.  The invariant orders the two layers' lives and says *)
(* what the owner, the listener and the reader of the status rely on.      *)
(***************************************************************************)
EXTENDS ClientTransport, TLAPS

WorkerAt == {"none", "accepted", "checking", "reading", "dialing",
             "negotiating", "awaiting", "relaying", "done"}

LayerTypeOK ==
  /\ phase \in [Layer -> {"new", "probing", "spawned", "running", "failed", "joining", "stopped"}]
  /\ state \in [Layer -> TransportState]
  /\ shutdown \in [Layer -> BOOLEAN]
  /\ listener \in [Layer -> {"none", "accepting", "ended"}]
  /\ worker \in [Layer -> [Requests -> WorkerAt]]
  /\ snap \in [base : TransportState \cup {"unread"}, serving : BOOLEAN, endpoint : BOOLEAN]

\* The bridge starts after the base and ends before it; a layer's flag is set
\* when its owner stops it, and no listener is there before it is spawned.
LifeInv ==
  /\ phase["bridge"] # "new" => phase["base"] \in {"running", "joining", "stopped"}
  /\ \A l \in Layer :
       /\ shutdown[l] => phase[l] \in {"joining", "stopped"}
       /\ phase[l] \in {"new", "probing", "failed"} => listener[l] = "none"

\* A base that was read as Ready was read while the bridge ran, so that a bridge
\* that is Ready now was Ready then.
SnapInv ==
  /\ snap.base # "unread" => phase["bridge"] \in {"running", "joining", "stopped"}
  /\ snap.base = "Ready" /\ state["bridge"] = "Ready" => snap.serving
  /\ EndpointWasServed

TransportInv == LayerTypeOK /\ LifeInv /\ StopIsBarrier /\ SnapInv

\* Nothing runs before the first start.
LEMMA TransportInvInit == TransportInit => TransportInv
BY DEF TransportInit, ProxyInit, Unread, TransportInv, LayerTypeOK, LifeInv, StopIsBarrier,
       SnapInv, EndpointWasServed, Layer, TransportState, WorkerAt,
       Listening, Resting

\* What any step of a worker may do to its layer: move the worker, and take the
\* layer offline.
WorkerEffect(l, r) ==
  /\ worker[l][r] \notin Resting
  /\ \E pc \in WorkerAt : Move(l, r, pc)
  /\ state' = state \/ SetState(l, "Offline")
  /\ UNCHANGED <<phase, shutdown, listener, snap>>

\* A worker that is at work is in a layer that is not at rest, so that what it
\* does disturbs neither the barrier nor the status.
LEMMA WorkerEffectKeepsInv ==
  ASSUME TransportInv, NEW l \in Layer, NEW r \in Requests, WorkerEffect(l, r)
  PROVE  TransportInv'
<1>1. LayerTypeOK'
  BY DEF TransportInv, LayerTypeOK, WorkerEffect, Move, SetState, TransportState
<1>2. LifeInv'
  BY DEF TransportInv, LifeInv, WorkerEffect, Listening
<1>3. StopIsBarrier'
  <2>1. phase[l] # "stopped"
    BY DEF TransportInv, StopIsBarrier, WorkerEffect
  <2>2. \A k \in Layer : k # l => worker'[k] = worker[k] /\ state'[k] = state[k]
    BY DEF TransportInv, LayerTypeOK, WorkerEffect, Move, SetState
  <2> QED
    BY <2>1, <2>2 DEF TransportInv, StopIsBarrier, WorkerEffect, Listening
<1>4. SnapInv'
  <2>1. state'["bridge"] = "Ready" => state["bridge"] = "Ready"
    BY DEF TransportInv, LayerTypeOK, WorkerEffect, SetState, Layer
  <2> QED
    BY <2>1 DEF TransportInv, SnapInv, EndpointWasServed, WorkerEffect
<1> QED
  BY <1>1, <1>2, <1>3, <1>4 DEF TransportInv

\* The base's worker, once it has its connection, has no other effect.
LEMMA BaseWorkerEffect ==
  ASSUME NEW r \in Requests,
         \/ BaseGreets(r) \/ BaseRefuses(r) \/ BaseServes(r) \/ BaseReads(r) \/ BaseDials(r)
         \/ BaseLosesUpstream(r) \/ BaseRequestLost(r) \/ BaseReplies(r) \/ BaseRelayEnds(r),
         UNCHANGED snap
  PROVE  WorkerEffect("base", r)
<1> USE DEF WorkerEffect, BaseStep, Move, Quiet, WorkerAt, Resting
<1>1. CASE BaseGreets(r)          BY <1>1 DEF BaseGreets
<1>2. CASE BaseRefuses(r)         BY <1>2 DEF BaseRefuses
<1>3. CASE BaseServes(r)          BY <1>3 DEF BaseServes
<1>4. CASE BaseReads(r)           BY <1>4 DEF BaseReads
<1>5. CASE BaseDials(r)           BY <1>5 DEF BaseDials
<1>6. CASE BaseLosesUpstream(r)   BY <1>6 DEF BaseLosesUpstream
<1>7. CASE BaseRequestLost(r)     BY <1>7 DEF BaseRequestLost
<1>8. CASE BaseReplies(r)         BY <1>8 DEF BaseReplies
<1>9. CASE BaseRelayEnds(r)       BY <1>9 DEF BaseRelayEnds
<1> QED
  BY <1>1, <1>2, <1>3, <1>4, <1>5, <1>6, <1>7, <1>8, <1>9

\* Nor has the bridge's.
LEMMA BridgeWorkerEffect ==
  ASSUME NEW r \in Requests, BridgeWorker(r) \/ BridgeRelayEnds(r), UNCHANGED snap
  PROVE  WorkerEffect("bridge", r)
<1> USE DEF WorkerEffect, BridgeStep, Move, WorkerAt, Resting
<1>1. CASE BridgeUnavailable(r)   BY <1>1 DEF BridgeUnavailable
<1>2. CASE BridgeServes(r)        BY <1>2 DEF BridgeServes
<1>3. CASE BridgeRejects(r)       BY <1>3 DEF BridgeRejects
<1>4. CASE BridgeAdmits(r)        BY <1>4 DEF BridgeAdmits
<1>5. CASE BridgeDials(r)         BY <1>5 DEF BridgeDials
<1>6. CASE BridgeLosesBase(r)     BY <1>6 DEF BridgeLosesBase, BaseIsGone, BaseIsSilent
<1>7. CASE BridgeSends(r)         BY <1>7 DEF BridgeSends
<1>8. CASE BridgeRefused(r)       BY <1>8 DEF BridgeRefused
<1>9. CASE BridgeGranted(r)       BY <1>9 DEF BridgeGranted
<1>10. CASE BridgeRelayEnds(r)    BY <1>10 DEF BridgeRelayEnds
<1> QED
  BY <1>1, <1>2, <1>3, <1>4, <1>5, <1>6, <1>7, <1>8, <1>9, <1>10 DEF BridgeWorker

\* A step of start_proxy; the bridge takes it only while the base runs.
LEMMA StartKeepsInv ==
  ASSUME TransportInv, NEW l \in Layer,
         l = "bridge" => phase["base"] = "running",
         Start(l) \/ StartFails(l) \/ SpawnListener(l) \/ PublishReady(l),
         UNCHANGED snap
  PROVE  TransportInv'
<1> USE DEF TransportInv, LayerTypeOK, LifeInv, StopIsBarrier, SnapInv,
            EndpointWasServed, Layer, TransportState, Listening, SetState
<1>1. CASE Start(l)           BY <1>1 DEF Start
<1>2. CASE StartFails(l)      BY <1>2 DEF StartFails
<1>3. CASE SpawnListener(l)   BY <1>3 DEF SpawnListener
<1>4. CASE PublishReady(l)    BY <1>4 DEF PublishReady
<1> QED
  BY <1>1, <1>2, <1>3, <1>4

\* The listener takes a connection, or ends because the flag is set.
LEMMA AcceptKeepsInv ==
  ASSUME TransportInv, NEW l \in Layer, NEW r \in Requests, Accept(l, r), UNCHANGED snap
  PROVE  TransportInv'
<1> USE DEF Accept, Listening
<1>1. LayerTypeOK'
  <2>1. \E pc \in WorkerAt : Move(l, r, pc)
    BY DEF WorkerAt
  <2>2. worker' \in [Layer -> [Requests -> WorkerAt]]
    BY <2>1 DEF TransportInv, LayerTypeOK, Move
  <2>3. listener' \in [Layer -> {"none", "accepting", "ended"}]
    BY DEF TransportInv, LayerTypeOK
  <2> QED
    BY <2>2, <2>3 DEF TransportInv, LayerTypeOK
<1>2. LifeInv'
  BY DEF TransportInv, LayerTypeOK, LifeInv
<1>3. StopIsBarrier'
  <2>1. phase[l] # "stopped"
    BY DEF TransportInv, StopIsBarrier
  <2>2. \A k \in Layer : k # l => worker'[k] = worker[k] /\ listener'[k] = listener[k]
    BY DEF TransportInv, LayerTypeOK, Move
  <2> QED
    BY <2>1, <2>2 DEF TransportInv, StopIsBarrier
<1>4. SnapInv'
  BY DEF TransportInv, LayerTypeOK, LifeInv, SnapInv, EndpointWasServed
<1> QED
  BY <1>1, <1>2, <1>3, <1>4 DEF TransportInv

\* accept() fails: the layer goes offline unless it is being stopped.
LEMMA AcceptFailsKeepsInv ==
  ASSUME TransportInv, NEW l \in Layer, AcceptFails(l), UNCHANGED snap
  PROVE  TransportInv'
BY DEF AcceptFails, TransportInv, LayerTypeOK, LifeInv, StopIsBarrier,
       SnapInv, EndpointWasServed, Layer, TransportState, Listening, SetState

\* The owner drops a layer: the bridge, or the base once the bridge is gone or was
\* never started.
LEMMA DropKeepsInv ==
  ASSUME TransportInv, DropBridge \/ DropBase, UNCHANGED snap
  PROVE  TransportInv'
<1> USE DEF Shutdown, TransportInv, LayerTypeOK, LifeInv, StopIsBarrier,
            SnapInv, EndpointWasServed, Layer, TransportState, Listening
<1>1. CASE DropBridge   BY <1>1 DEF DropBridge
<1>2. CASE DropBase     BY <1>2 DEF DropBase
<1> QED
  BY <1>1, <1>2

\* The joins of a layer that is being dropped.
LEMMA StopKeepsInv ==
  ASSUME TransportInv, NEW l \in Layer, WakeListener(l) \/ JoinedAndStopped(l), UNCHANGED snap
  PROVE  TransportInv'
<1> USE DEF TransportInv, LayerTypeOK, LifeInv, StopIsBarrier,
            SnapInv, EndpointWasServed, Layer, TransportState, Listening, SetState
<1>1. CASE WakeListener(l)       BY <1>1 DEF WakeListener
<1>2. CASE JoinedAndStopped(l)   BY <1>2 DEF JoinedAndStopped
<1> QED
  BY <1>1, <1>2

\* The reader of the status: its first load is of two layers that run.
LEMMA SnapshotKeepsInv ==
  ASSUME TransportInv, SnapshotBase \/ SnapshotBridge \/ SnapshotDone
  PROVE  TransportInv'
<1> USE DEF proxyVars, TransportInv, LayerTypeOK, LifeInv, StopIsBarrier,
            SnapInv, EndpointWasServed, Layer, TransportState, Listening, Unread,
            CombineTransportStates, Combined
<1>1. CASE SnapshotBase     BY <1>1 DEF SnapshotBase
<1>2. CASE SnapshotBridge   BY <1>2 DEF SnapshotBridge
<1>3. CASE SnapshotDone     BY <1>3 DEF SnapshotDone
<1> QED
  BY <1>1, <1>2, <1>3

\* Nothing that only the sidecar or the link shows is looked at.
LEMMA ElsewhereKeepsInv ==
  ASSUME TransportInv, UNCHANGED <<proxyVars, snap>>
  PROVE  TransportInv'
BY DEF TransportInv, LayerTypeOK, LifeInv, StopIsBarrier, SnapInv,
       EndpointWasServed, Listening, proxyVars

\* Every step of the transport keeps the invariant.
LEMMA TransportInvStep == TransportInv /\ [TransportNext]_transportVars => TransportInv'
<1> SUFFICES ASSUME TransportInv, [TransportNext]_transportVars PROVE TransportInv'
  OBVIOUS
<1>1. CASE StartClientTransport
  BY <1>1, StartKeepsInv DEF StartClientTransport, BaseStart, BridgeStart, Layer
<1>2. CASE DropOwner
  BY <1>2, DropKeepsInv DEF DropOwner
<1>3. CASE StopLayers
  BY <1>3, StopKeepsInv DEF StopLayers, BaseStop, BridgeStop, Layer
<1>4. CASE SnapshotBase \/ SnapshotBridge \/ SnapshotDone
  BY <1>4, SnapshotKeepsInv
<1>5. CASE UpstreamFails \/ UpstreamReturns
  BY <1>5, ElsewhereKeepsInv DEF UpstreamFails, UpstreamReturns
<1>6. CASE AcceptError
  BY <1>6, AcceptFailsKeepsInv DEF AcceptError, BaseAcceptFails, BridgeAcceptFails, Layer
<1>7. ASSUME NEW r \in Requests, ClientConnects(r) \/ WorkerSteps(r) \/ RelayEnds(r)
      PROVE  TransportInv'
  <2>1. CASE ClientConnects(r)
    BY <2>1, AcceptKeepsInv DEF ClientConnects, BridgeAccepts, Layer
  <2>2. CASE BaseAccepts(r) /\ UNCHANGED snap
    BY <2>2, AcceptKeepsInv DEF BaseAccepts, Layer
  <2>3. CASE /\ \/ BaseGreets(r) \/ BaseRefuses(r) \/ BaseServes(r) \/ BaseReads(r) \/ BaseDials(r)
                \/ BaseLosesUpstream(r) \/ BaseRequestLost(r) \/ BaseReplies(r) \/ BaseRelayEnds(r)
             /\ UNCHANGED snap
    BY <2>3, BaseWorkerEffect, WorkerEffectKeepsInv DEF Layer
  <2>4. CASE (BridgeWorker(r) \/ BridgeRelayEnds(r)) /\ UNCHANGED snap
    BY <2>4, BridgeWorkerEffect, WorkerEffectKeepsInv DEF Layer
  <2> QED
    BY <1>7, <2>1, <2>2, <2>3, <2>4 DEF WorkerSteps, RelayEnds, BaseWorker
<1>8. CASE UNCHANGED transportVars
  BY <1>8, ElsewhereKeepsInv DEF transportVars
<1> QED
  BY <1>1, <1>2, <1>3, <1>4, <1>5, <1>6, <1>7, <1>8 DEF TransportNext

\* The invariant holds in every reachable state, whatever clients, sidecar and owner do.
THEOREM TransportInvHolds == TransportSpec => []TransportInv
BY TransportInvInit, TransportInvStep, PTL DEF TransportSpec

\* The base outlives the bridge, and a stopped layer has no thread left that could
\* store into its state or hold a connection.
THEOREM TransportStopIsBarrier == TransportSpec => []StopIsBarrier
BY TransportInvHolds, PTL DEF TransportInv

\* The two loads of the status never make up an endpoint of layers that did not
\* both serve.
THEOREM TransportEndpointServed == TransportSpec => []EndpointWasServed
BY TransportInvHolds, PTL DEF TransportInv, SnapInv
================================================================================
