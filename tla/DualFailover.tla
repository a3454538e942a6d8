---------------------------- MODULE DualFailover ----------------------------
(***************************************************************************)
(* The dual-relay loopback proxy of the client                             *)
(* (crates/webgate-transport/src/dual_failover.rs).                        *)
(*                                                                         *)
(* One owner thread calls start_proxy, probe_and_maybe_switchback and stop *)
(* (start and stop take &mut self, so the three never overlap).  While the *)
(* proxy runs, a listener thread accepts clients and gives each a worker   *)
(* thread.  Owner, listener and workers share `state`, `active_role`,      *)
(* `last_failover_epoch_sec` and `shutdown` as separate atomics, and each  *)
(* load or store of one of them is a step of its own here.  The health     *)
(* records are behind locks, and an update of one is a single step; all    *)
(* that a thread acts on of them is the primary's count of failures.       *)
(*                                                                         *)
(* The clock is left out: whether the cooldown since the last failover is  *)
(* over when a probe looks is a choice (FailoverController has the same    *)
(* rule with its clock).                                                   *)
(***************************************************************************)
EXTENDS Naturals

CONSTANTS Workers,      \* worker threads that can be alive at the same time
          MaxFailures   \* failover_config.max_consecutive_failures

ASSUME MaxFailuresAssumption == MaxFailures \in Nat

VARIABLES
  state,         \* the `state` atomic
  role,          \* the `active_role` atomic
  failures,      \* consecutive failures of the primary upstream
  shutdown,      \* the `shutdown` atomic
  listener,      \* the listener thread
  owner,         \* where the owner thread is in its call
  pc,            \* where each worker is in handle_failover_client
  up             \* which upstream sidecars answer a SOCKS request in time

vars == <<state, role, failures, shutdown, listener, owner, pc, up>>

-----------------------------------------------------------------------------

Upstreams == {"Primary", "Fallback"}
States == {"Stopped", "Starting", "Ready", "Degraded", "Offline"}

\* The steps of handle_failover_client: handshake, state check, role check,
\* the upstream dials, and the stores of each outcome.
WorkerSteps == {"none", "handshake", "request", "dialPrimary", "setFallback",
                "setDegraded", "stampFailover", "dialFallback", "setOffline",
                "setNone", "relay"}

OwnerSteps == {"idle", "starting", "probeCooldown", "probeDial", "probeSetRole",
               "probeSetState", "stopListener", "stopWorkers", "stopSetState"}

ListenerSteps == {"none", "accept", "spawn", "exited"}

Serving == {"Ready", "Degraded"}

Threshold == IF MaxFailures = 0 THEN 1 ELSE MaxFailures

\* The count is only compared with Threshold and reset, so it stops there.
Failures == 0 .. Threshold
OneMore(n) == IF n < Threshold THEN n + 1 ELSE n

NoWorkers == \A w \in Workers : pc[w] = "none"

AtStep(w, from, to) ==
  /\ pc[w] = from
  /\ pc' = [pc EXCEPT ![w] = to]

-----------------------------------------------------------------------------

Init ==
  /\ state = "Stopped"
  /\ role = "None"
  /\ failures = 0
  /\ shutdown = FALSE
  /\ listener = "none"
  /\ owner = "idle"
  /\ pc = [w \in Workers |-> "none"]
  /\ up \in [Upstreams -> BOOLEAN]

-----------------------------------------------------------------------------
\* The owner: start_proxy.  AlreadyStarted returns without a state change.

StartProxy ==
  /\ owner = "idle"
  /\ listener = "none"
  /\ state \notin Serving \cup {"Starting"}
  /\ shutdown' = FALSE
  /\ state' = "Starting"
  /\ owner' = "starting"
  /\ UNCHANGED <<role, failures, listener, pc, up>>

\* What start_proxy's probes leave in the primary's record.
StartFailures == IF up["Primary"] THEN 0 ELSE MaxFailures

\* A sidecar answered and the port is bound: role and state are published
\* before the listener thread exists.
StartServing ==
  /\ owner = "starting"
  /\ \E u \in Upstreams : up[u]
  /\ failures' = StartFailures
  /\ role' = IF up["Primary"] THEN "Primary" ELSE "Fallback"
  /\ state' = IF up["Primary"] THEN "Ready" ELSE "Degraded"
  /\ listener' = "accept"
  /\ owner' = "idle"
  /\ UNCHANGED <<shutdown, pc, up>>

StartBindFailed ==
  /\ owner = "starting"
  /\ \E u \in Upstreams : up[u]
  /\ failures' = StartFailures
  /\ state' = "Offline"
  /\ owner' = "idle"
  /\ UNCHANGED <<role, shutdown, listener, pc, up>>

StartUnavailable ==
  /\ owner = "starting"
  /\ \A u \in Upstreams : ~up[u]
  /\ state' = "Offline"
  /\ role' = "None"
  /\ owner' = "idle"
  /\ UNCHANGED <<failures, shutdown, listener, pc, up>>

-----------------------------------------------------------------------------
\* The owner: probe_and_maybe_switchback.

Probe ==
  /\ owner = "idle"
  /\ role = "Fallback"
  /\ owner' = "probeCooldown"
  /\ UNCHANGED <<state, role, failures, shutdown, listener, pc, up>>

ProbeCooldown ==
  /\ owner = "probeCooldown"
  /\ owner' \in {"idle", "probeDial"}
  /\ UNCHANGED <<state, role, failures, shutdown, listener, pc, up>>

ProbeAnswered ==
  /\ owner = "probeDial"
  /\ up["Primary"]
  /\ failures' = 0
  /\ owner' = "probeSetRole"
  /\ UNCHANGED <<state, role, shutdown, listener, pc, up>>

ProbeFailed ==
  /\ owner = "probeDial"
  /\ ~up["Primary"]
  /\ failures' = OneMore(failures)
  /\ owner' = "idle"
  /\ UNCHANGED <<state, role, shutdown, listener, pc, up>>

ProbeSetRole ==
  /\ owner = "probeSetRole"
  /\ role' = "Primary"
  /\ owner' = "probeSetState"
  /\ UNCHANGED <<state, failures, shutdown, listener, pc, up>>

ProbeSetState ==
  /\ owner = "probeSetState"
  /\ state' = "Ready"
  /\ owner' = "idle"
  /\ UNCHANGED <<role, failures, shutdown, listener, pc, up>>

-----------------------------------------------------------------------------
\* The owner: stop_internal.  Its connect wakes the listener's accept.

\* Mutant of Stop: forgets to raise `shutdown`.
StopUnannounced ==
  /\ owner = "idle"
  /\ owner' = "stopListener"
  /\ UNCHANGED <<state, role, failures, shutdown, listener, pc, up>>

Stop ==
  /\ owner = "idle"
  /\ shutdown' = TRUE
  /\ owner' = "stopListener"
  /\ UNCHANGED <<state, role, failures, listener, pc, up>>

StopJoinListener ==
  /\ owner = "stopListener"
  /\ listener \in {"none", "exited"}
  /\ listener' = "none"
  /\ owner' = "stopWorkers"
  /\ UNCHANGED <<state, role, failures, shutdown, pc, up>>

\* Mutant of StopJoinWorkers: the role outlives the proxy.
StopKeepsRole ==
  /\ owner = "stopWorkers"
  /\ NoWorkers
  /\ owner' = "stopSetState"
  /\ UNCHANGED <<state, role, failures, shutdown, listener, pc, up>>

StopJoinWorkers ==
  /\ owner = "stopWorkers"
  /\ NoWorkers
  /\ role' = "None"
  /\ owner' = "stopSetState"
  /\ UNCHANGED <<state, failures, shutdown, listener, pc, up>>

StopSetState ==
  /\ owner = "stopSetState"
  /\ state' = "Stopped"
  /\ owner' = "idle"
  /\ UNCHANGED <<role, failures, shutdown, listener, pc, up>>

-----------------------------------------------------------------------------
\* The listener thread.

\* accept() returned a client (or the connect of stop): check shutdown.
ListenerAccept ==
  /\ listener = "accept"
  /\ listener' = IF shutdown THEN "exited" ELSE "spawn"
  /\ UNCHANGED <<state, role, failures, shutdown, owner, pc, up>>

\* accept() failed: the proxy is Offline unless it is being stopped.
ListenerFailed ==
  /\ listener = "accept"
  /\ state' = IF shutdown THEN state ELSE "Offline"
  /\ listener' = "exited"
  /\ UNCHANGED <<role, failures, shutdown, owner, pc, up>>

ListenerSpawn(w) ==
  /\ listener = "spawn"
  /\ AtStep(w, "none", "handshake")
  /\ listener' = "accept"
  /\ UNCHANGED <<state, role, failures, shutdown, owner, up>>

-----------------------------------------------------------------------------
\* A worker: handle_failover_client.

\* A client that misbehaves, disconnects or is refused by the destination policy.
ClientRejected(w) ==
  /\ pc[w] \in {"handshake", "request"}
  /\ pc' = [pc EXCEPT ![w] = "none"]
  /\ UNCHANGED <<state, role, failures, shutdown, listener, owner, up>>

CheckState(w) ==
  /\ AtStep(w, "handshake", IF state \in Serving THEN "request" ELSE "none")
  /\ UNCHANGED <<state, role, failures, shutdown, listener, owner, up>>

DialOf(r) == CASE r = "Primary" -> "dialPrimary"
               [] r = "Fallback" -> "dialFallback"
               [] r = "None" -> "none"

CheckRole(w) ==
  /\ AtStep(w, "request", DialOf(role))
  /\ UNCHANGED <<state, role, failures, shutdown, listener, owner, up>>

\* Answered, in time or slowly; a reply code other than 0 ends the worker.
PrimaryAnswered(w) ==
  /\ up["Primary"]
  /\ \E to \in {"relay", "none"} : AtStep(w, "dialPrimary", to)
  /\ failures' \in {0, OneMore(failures)}
  /\ UNCHANGED <<state, role, shutdown, listener, owner, up>>

PrimaryFailed(w) ==
  /\ ~up["Primary"]
  /\ failures' = OneMore(failures)
  /\ AtStep(w, "dialPrimary", IF failures' >= Threshold
                              THEN "setFallback" ELSE "dialFallback")
  /\ UNCHANGED <<state, role, shutdown, listener, owner, up>>

SetFallback(w) ==
  /\ AtStep(w, "setFallback", "setDegraded")
  /\ role' = "Fallback"
  /\ UNCHANGED <<state, failures, shutdown, listener, owner, up>>

SetDegraded(w) ==
  /\ AtStep(w, "setDegraded", "stampFailover")
  /\ state' = "Degraded"
  /\ UNCHANGED <<role, failures, shutdown, listener, owner, up>>

StampFailover(w) ==
  /\ AtStep(w, "stampFailover", "dialFallback")
  /\ UNCHANGED <<state, role, failures, shutdown, listener, owner, up>>

\* The fallback dial, after a failed primary or because the role is Fallback.
FallbackAnswered(w) ==
  /\ up["Fallback"]
  /\ \E to \in {"relay", "none"} : AtStep(w, "dialFallback", to)
  /\ UNCHANGED <<state, role, failures, shutdown, listener, owner, up>>

\* Mutant of FallbackFailed: tries the primary again.
RetryPrimary(w) ==
  /\ ~up["Fallback"]
  /\ AtStep(w, "dialFallback", "dialPrimary")
  /\ UNCHANGED <<state, role, failures, shutdown, listener, owner, up>>

FallbackFailed(w) ==
  /\ ~up["Fallback"]
  /\ AtStep(w, "dialFallback", "setOffline")
  /\ UNCHANGED <<state, role, failures, shutdown, listener, owner, up>>

SetOffline(w) ==
  /\ AtStep(w, "setOffline", "setNone")
  /\ state' = "Offline"
  /\ UNCHANGED <<role, failures, shutdown, listener, owner, up>>

SetNone(w) ==
  /\ AtStep(w, "setNone", "none")
  /\ role' = "None"
  /\ UNCHANGED <<state, failures, shutdown, listener, owner, up>>

\* relay_bidirectional returns: a peer closed, or the poll saw `shutdown`.
RelayEnds(w) ==
  /\ AtStep(w, "relay", "none")
  /\ UNCHANGED <<state, role, failures, shutdown, listener, owner, up>>

-----------------------------------------------------------------------------
\* The environment.

UpstreamChanges(u) ==
  /\ up' = [up EXCEPT ![u] = ~@]
  /\ UNCHANGED <<state, role, failures, shutdown, listener, owner, pc>>

-----------------------------------------------------------------------------

Starting == StartServing \/ StartBindFailed \/ StartUnavailable
Probing == \/ ProbeCooldown \/ ProbeAnswered \/ ProbeFailed
           \/ ProbeSetRole \/ ProbeSetState
Stopping == StopJoinListener \/ StopJoinWorkers \/ StopSetState

Owner == StartProxy \/ Starting \/ Probe \/ Probing \/ Stop \/ Stopping

Listener == ListenerAccept \/ ListenerFailed \/ \E w \in Workers : ListenerSpawn(w)

\* Everything a worker does on its own, with timeouts on every wait.
WorkerRuns(w) ==
  \/ ClientRejected(w) \/ CheckState(w) \/ CheckRole(w)
  \/ PrimaryAnswered(w) \/ PrimaryFailed(w)
  \/ SetFallback(w) \/ SetDegraded(w) \/ StampFailover(w)
  \/ FallbackAnswered(w) \/ FallbackFailed(w)
  \/ SetOffline(w) \/ SetNone(w)

Environment == \E u \in Upstreams : UpstreamChanges(u)

Next ==
  \/ Owner
  \/ Listener
  \/ \E w \in Workers : WorkerRuns(w) \/ RelayEnds(w)
  \/ Environment

Spec == Init /\ [][Next]_vars

(***************************************************************************)
(* Fairness.  Every wait of the owner's calls and of a worker has a        *)
(* timeout, so a call that began goes on; a relay polls `shutdown`; stop's *)
(* own connection wakes the listener.  Nothing makes a client arrive, a    *)
(* relay end by itself, an upstream recover, or the owner start, probe or  *)
(* stop the proxy.                                                         *)
(***************************************************************************)
Fairness ==
  /\ WF_vars(Starting) /\ WF_vars(Probing) /\ WF_vars(Stopping)
  /\ WF_vars(shutdown /\ ListenerAccept)
  /\ WF_vars(\E w \in Workers : ListenerSpawn(w))
  /\ \A w \in Workers : WF_vars(WorkerRuns(w)) /\ WF_vars(shutdown /\ RelayEnds(w))

FairSpec == Spec /\ Fairness

-----------------------------------------------------------------------------

TypeOK ==
  /\ state \in States
  /\ role \in Upstreams \cup {"None"}
  /\ failures \in Failures
  /\ shutdown \in BOOLEAN
  /\ listener \in ListenerSteps
  /\ owner \in OwnerSteps
  /\ pc \in [Workers -> WorkerSteps]
  /\ up \in [Upstreams -> BOOLEAN]

\* stop() and a failed start_proxy() are barriers: when the owner is back and
\* no listener exists, no worker is left to store anything, no role is active
\* and the state says so (stop_internal joins before it stores).
StopIsBarrier ==
  owner = "idle" /\ listener = "none" =>
    NoWorkers /\ role = "None" /\ state \in {"Stopped", "Offline"}

\* The inductive strengthening of StopIsBarrier: what the owner may rely on at
\* each point of its calls about the threads it creates and joins.
OwnerInv ==
  /\ owner = "starting" => listener = "none"
  /\ owner \in {"probeCooldown", "probeDial", "probeSetRole", "probeSetState"}
       => listener # "none"
  /\ owner \in {"stopWorkers", "stopSetState"} => listener = "none"
  /\ listener = "none" /\ owner # "stopWorkers" => NoWorkers /\ role = "None"
  /\ listener = "none" /\ owner = "idle" => state \in {"Stopped", "Offline"}

IInv == TypeOK /\ OwnerInv

\* stop() returns whatever the listener, the workers, their clients and the
\* upstreams are doing: no thread it joins can wait forever.
StopTerminates == (owner = "stopListener") ~> (owner = "idle")

\* Every accepted client is answered: its worker reaches a relay or ends.
ClientsAnswered ==
  \A w \in Workers : (pc[w] = "handshake") ~> (pc[w] \in {"none", "relay"})

-----------------------------------------------------------------------------
(***************************************************************************)
(* What the repository says of this proxy and the code does not do.        *)
(***************************************************************************)

Quiescent == owner = "idle" /\ \A w \in Workers : pc[w] \in {"none", "relay"}

\* "Ready implies evidence at the level of the capability being claimed": a
\* proxy that reports Ready or Degraded, with every thread at rest, has an
\* upstream its next client is sent to.
ServingHasRoute == Quiescent /\ state \in Serving => role # "None"
=============================================================================
