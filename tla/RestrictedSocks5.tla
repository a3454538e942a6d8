-------------------------- MODULE RestrictedSocks5 --------------------------
(***************************************************************************)
(* The base layer: a SOCKS5 proxy on loopback in front of the SOCKS5       *)
(* sidecar that leads to the relay (restricted_socks5.rs).  Its clients    *)
(* are the workers of the bridge; link[r] is the connection of the         *)
(* bridge's worker for r, as its two ends leave it.                        *)
(***************************************************************************)
EXTENDS RestrictedProxy

CONSTANT
  Slow  \* requests whose destination answers later than the timeouts allow

VARIABLES
  link,      \* [Requests -> LinkState]
  upstream   \* does the sidecar answer?

LinkState == {"none", "dialed", "greeted", "requested", "granted", "refused", "reset", "left"}

SetLink(r, s) == link' = [link EXCEPT ![r] = s]

\* A step of the base's worker for r, which only leaves its own mark.
BaseStep(r, from, to) ==
  /\ worker["base"][r] = from
  /\ Move("base", r, to)
  /\ UNCHANGED <<phase, shutdown, listener, upstream>>

Quiet == UNCHANGED state

BaseAccepts(r) == link[r] = "dialed" /\ Accept("base", r) /\ UNCHANGED <<link, upstream>>

\* The greeting is answered before the state is looked at.
BaseGreets(r) ==
  /\ BaseStep(r, "accepted", "checking")
  /\ SetLink(r, IF link[r] = "left" THEN "left" ELSE "greeted")
  /\ Quiet

\* A layer that is not Ready refuses without having read the request; bytes
\* that it leaves unread turn the refusal into a reset.
BaseRefuses(r) ==
  /\ BaseStep(r, "checking", "done")
  /\ state["base"] # "Ready"
  /\ IF link[r] = "left" THEN UNCHANGED link
     ELSE SetLink(r, "refused") \/ SetLink(r, "reset")
  /\ Quiet

BaseServes(r) ==
  /\ BaseStep(r, "checking", "reading")
  /\ state["base"] = "Ready"
  /\ UNCHANGED link /\ Quiet

BaseReads(r) ==
  /\ link[r] \in {"requested", "left"}
  /\ BaseStep(r, "reading", IF link[r] = "left" THEN "done" ELSE "dialing")
  /\ UNCHANGED link /\ Quiet

\* connect_timeout and the method negotiation with the sidecar.
BaseDials(r) ==
  /\ BaseStep(r, "dialing", "awaiting")
  /\ upstream
  /\ UNCHANGED link /\ Quiet

Unanswered(r) == ~upstream \/ r \in Slow

\* A sidecar that does not answer in time takes the whole layer offline.
BaseLosesUpstream(r) ==
  /\ \/ BaseStep(r, "dialing", "done") /\ ~upstream
     \/ BaseStep(r, "awaiting", "done") /\ Unanswered(r)
  /\ SetState("base", "Offline")
  /\ SetLink(r, IF link[r] = "left" THEN "left" ELSE "refused")

\* write_connect_request fails: the worker ends without a reply and without
\* a word to the state.
BaseRequestLost(r) ==
  /\ BaseStep(r, "awaiting", "done")
  /\ ~upstream
  /\ SetLink(r, IF link[r] = "left" THEN "left" ELSE "reset")
  /\ Quiet

\* The sidecar's answer is passed on, whether it grants or refuses.
BaseReplies(r) ==
  /\ upstream /\ r \notin Slow
  /\ \/ /\ BaseStep(r, "awaiting", "relaying")
        /\ SetLink(r, IF link[r] = "left" THEN "left" ELSE "granted")
     \/ /\ BaseStep(r, "awaiting", "done")
        /\ SetLink(r, IF link[r] = "left" THEN "left" ELSE "refused")
  /\ Quiet

\* Both copy loops end: an end closed, or the flag is set.
BaseRelayEnds(r) ==
  /\ BaseStep(r, "relaying", "done")
  /\ UNCHANGED link /\ Quiet

BaseStart ==
  /\ \/ Start("base")
     \/ StartFails("base")
     \/ SpawnListener("base") /\ upstream
     \/ PublishReady("base")
  /\ UNCHANGED <<link, upstream>>

BaseAcceptFails == AcceptFails("base") /\ UNCHANGED <<link, upstream>>

BaseStop ==
  /\ WakeListener("base") \/ JoinedAndStopped("base")
  /\ UNCHANGED <<link, upstream>>

BaseWorker(r) ==
  \/ BaseAccepts(r)
  \/ BaseGreets(r)
  \/ BaseRefuses(r)
  \/ BaseServes(r)
  \/ BaseReads(r)
  \/ BaseDials(r)
  \/ BaseLosesUpstream(r)
  \/ BaseRequestLost(r)
  \/ BaseReplies(r)
=============================================================================
