----------------------- MODULE RestrictedHttpConnect -----------------------
(***************************************************************************)
(* The bridge: an HTTP CONNECT proxy on loopback for the renderer, in      *)
(* front of the base layer (restricted_http_connect.rs).                   *)
(***************************************************************************)
EXTENDS RestrictedSocks5

BridgeStep(r, from, to) ==
  /\ worker["bridge"][r] = from
  /\ Move("bridge", r, to)
  /\ UNCHANGED <<phase, shutdown, listener, upstream>>

BridgeAccepts(r) == Accept("bridge", r) /\ UNCHANGED <<link, upstream>>

\* 503 before a byte of the request is read.
BridgeUnavailable(r) ==
  /\ BridgeStep(r, "accepted", "done")
  /\ state["bridge"] # "Ready"
  /\ UNCHANGED <<state, link>>

BridgeServes(r) ==
  /\ BridgeStep(r, "accepted", "reading")
  /\ state["bridge"] = "Ready"
  /\ UNCHANGED <<state, link>>

\* 431, 405, 400 and 403: the client's fault, and only its own.
BridgeRejects(r) ==
  /\ BridgeStep(r, "reading", "done")
  /\ UNCHANGED <<state, link>>

BridgeAdmits(r) ==
  /\ BridgeStep(r, "reading", "dialing")
  /\ UNCHANGED <<state, link>>

BridgeDials(r) ==
  /\ BridgeStep(r, "dialing", "negotiating")
  /\ Listening("base")
  /\ SetLink(r, "dialed")
  /\ UNCHANGED state

\* Mutant of BaseIsGone: no read timeout while the greeting is outstanding.
DialIsRefused(r) == ~Listening("base") /\ worker["bridge"][r] = "dialing"

\* Nobody listens, or the listener went before it took the connection.
BaseIsGone(r) ==
  /\ ~Listening("base")
  /\ \/ worker["bridge"][r] = "dialing"
     \/ worker["bridge"][r] = "negotiating" /\ worker["base"][r] \in Resting /\ link[r] = "dialed"

\* The base's worker is itself waiting for a sidecar that says nothing.
BaseIsSilent(r) ==
  /\ worker["bridge"][r] = "awaiting" /\ link[r] = "requested"
  /\ worker["base"][r] \in {"dialing", "awaiting"} /\ Unanswered(r)

\* No connection, no greeting, a reply cut short or none in time: 502, and
\* the whole bridge is offline.
BridgeLosesBase(r) ==
  /\ \/ BaseIsGone(r)
     \/ BaseIsSilent(r)
     \/ worker["bridge"][r] = "awaiting" /\ link[r] = "reset"
  /\ Move("bridge", r, "done")
  /\ SetState("bridge", "Offline")
  /\ SetLink(r, "left")
  /\ UNCHANGED <<phase, shutdown, listener, upstream>>

\* A base that refused already may be written to all the same.
BridgeSends(r) ==
  /\ BridgeStep(r, "negotiating", "awaiting")
  /\ link[r] \in {"greeted", "refused", "reset"}
  /\ IF link[r] = "greeted" THEN SetLink(r, "requested") ELSE UNCHANGED link
  /\ UNCHANGED state

\* The request cannot be written, or the base refuses it: 502, nothing else.
BridgeRefused(r) ==
  /\ \/ BridgeStep(r, "negotiating", "done") /\ link[r] \in {"refused", "reset"}
     \/ BridgeStep(r, "awaiting", "done") /\ link[r] = "refused"
  /\ SetLink(r, "left")
  /\ UNCHANGED state

\* Mutant of BridgeGranted: a success revives a bridge that went offline.
GrantRevives(r) ==
  /\ BridgeStep(r, "awaiting", "relaying")
  /\ link[r] = "granted"
  /\ SetState("bridge", "Ready")
  /\ UNCHANGED link

BridgeGranted(r) ==
  /\ BridgeStep(r, "awaiting", "relaying")
  /\ link[r] = "granted"
  /\ UNCHANGED <<state, link>>

\* Both copy loops end: an end closed, or the flag is set.
BridgeRelayEnds(r) ==
  /\ BridgeStep(r, "relaying", "done")
  /\ SetLink(r, "left")
  /\ UNCHANGED state

BridgeStart ==
  /\ \/ Start("bridge")
     \/ StartFails("bridge")
     \/ SpawnListener("bridge") /\ Listening("base")
     \/ PublishReady("bridge")
  /\ UNCHANGED <<link, upstream>>

BridgeAcceptFails == AcceptFails("bridge") /\ UNCHANGED <<link, upstream>>

BridgeStop ==
  /\ WakeListener("bridge") \/ JoinedAndStopped("bridge")
  /\ UNCHANGED <<link, upstream>>

BridgeWorker(r) ==
  \/ BridgeUnavailable(r)
  \/ BridgeServes(r)
  \/ BridgeRejects(r)
  \/ BridgeAdmits(r)
  \/ BridgeDials(r)
  \/ BridgeLosesBase(r)
  \/ BridgeSends(r)
  \/ BridgeRefused(r)
  \/ BridgeGranted(r)
=============================================================================
