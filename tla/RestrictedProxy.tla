-------------------------- MODULE RestrictedProxy --------------------------
(***************************************************************************)
(* The life of a restricted loopback proxy: what start_proxy, the listener *)
(* thread and stop_internal do, which restricted_socks5.rs and             *)
(* restricted_http_connect.rs write in the same words.  The client runs    *)
(* one proxy of each kind, its two layers; every variable is a function of *)
(* the layer.  What a worker does with its client is the layer's own.      *)
(***************************************************************************)
CONSTANT
  Requests  \* client connections, served by one worker each per layer

Layer == {"base", "bridge"}

VARIABLES
  phase,     \* [Layer -> ...] where the owner is in start_proxy or stop_internal
  state,     \* [Layer -> ...] the AtomicU8 all threads of the layer share
  shutdown,  \* [Layer -> BOOLEAN] the AtomicBool that ends its threads
  listener,  \* [Layer -> ...] the accepting thread
  worker     \* [Layer -> [Requests -> ...]] what each worker is doing

proxyVars == <<phase, state, shutdown, listener, worker>>

TransportState == {"Stopped", "Starting", "Ready", "Offline"}

Resting == {"none", "done"}

ProxyInit ==
  /\ phase = [l \in Layer |-> "new"]
  /\ state = [l \in Layer |-> "Stopped"]
  /\ shutdown = [l \in Layer |-> FALSE]
  /\ listener = [l \in Layer |-> "none"]
  /\ worker = [l \in Layer |-> [r \in Requests |-> "none"]]

\* The loopback socket takes connections as long as its thread has it; the
\* kernel completes the handshake before accept() does.
Listening(l) == listener[l] = "accepting"

SetState(l, s) == state' = [state EXCEPT ![l] = s]

Move(l, r, pc) == worker' = [worker EXCEPT ![l][r] = pc]

---------------------------------------------------------------------------
(* start_proxy, in the steps other threads can tell apart.                 *)

Start(l) ==
  /\ phase[l] = "new"
  /\ phase' = [phase EXCEPT ![l] = "probing"]
  /\ SetState(l, "Starting")
  /\ UNCHANGED <<shutdown, listener, worker>>

\* The probe found nobody, or no listener could be bound.
StartFails(l) ==
  /\ phase[l] = "probing"
  /\ phase' = [phase EXCEPT ![l] = "failed"]
  /\ SetState(l, "Offline")
  /\ UNCHANGED <<shutdown, listener, worker>>

SpawnListener(l) ==
  /\ phase[l] = "probing"
  /\ phase' = [phase EXCEPT ![l] = "spawned"]
  /\ listener' = [listener EXCEPT ![l] = "accepting"]
  /\ UNCHANGED <<state, shutdown, worker>>

\* The owner stores Ready after the listener runs, whatever the state is by then.
PublishReady(l) ==
  /\ phase[l] = "spawned"
  /\ phase' = [phase EXCEPT ![l] = "running"]
  /\ SetState(l, "Ready")
  /\ UNCHANGED <<shutdown, listener, worker>>

---------------------------------------------------------------------------
(* The listener thread.                                                    *)

\* A connection that comes after shutdown ends the thread and is dropped.
Accept(l, r) ==
  /\ Listening(l) /\ worker[l][r] = "none"
  /\ IF shutdown[l]
     THEN /\ listener' = [listener EXCEPT ![l] = "ended"]
          /\ Move(l, r, "done")
     ELSE /\ Move(l, r, "accepted")
          /\ UNCHANGED listener
  /\ UNCHANGED <<phase, state, shutdown>>

\* accept() fails; before PublishReady the Offline it leaves will be overwritten.
AcceptFails(l) ==
  /\ Listening(l)
  /\ listener' = [listener EXCEPT ![l] = "ended"]
  /\ SetState(l, IF shutdown[l] THEN state[l] ELSE "Offline")
  /\ UNCHANGED <<phase, shutdown, worker>>

---------------------------------------------------------------------------
(* stop_internal.                                                          *)

\* The flag is stored; then a connection of the owner's own wakes accept().
Shutdown(l) ==
  /\ phase[l] \in {"running", "failed", "new"}
  /\ phase' = [phase EXCEPT ![l] = "joining"]
  /\ shutdown' = [shutdown EXCEPT ![l] = TRUE]
  /\ UNCHANGED <<state, listener, worker>>

\* Mutant of WakeListener: connects to the endpoint that clients are told,
\* which there is none of once the layer is offline.
WakeReadyListener(l) ==
  /\ phase[l] = "joining" /\ Listening(l) /\ state[l] = "Ready"
  /\ listener' = [listener EXCEPT ![l] = "ended"]
  /\ UNCHANGED <<phase, state, shutdown, worker>>

WakeListener(l) ==
  /\ phase[l] = "joining" /\ Listening(l)
  /\ listener' = [listener EXCEPT ![l] = "ended"]
  /\ UNCHANGED <<phase, state, shutdown, worker>>

\* Mutant of JoinedAndStopped: the workers are left to themselves.
StoppedUnjoined(l) ==
  /\ phase[l] = "joining" /\ ~Listening(l)
  /\ phase' = [phase EXCEPT ![l] = "stopped"]
  /\ SetState(l, "Stopped")
  /\ UNCHANGED <<shutdown, listener, worker>>

\* Both joins are over: neither the listener nor a worker is left.
JoinedAndStopped(l) ==
  /\ phase[l] = "joining" /\ ~Listening(l)
  /\ \A r \in Requests : worker[l][r] \in Resting
  /\ phase' = [phase EXCEPT ![l] = "stopped"]
  /\ SetState(l, "Stopped")
  /\ UNCHANGED <<shutdown, listener, worker>>
=============================================================================
