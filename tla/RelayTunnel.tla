---------------------------- MODULE RelayTunnel ----------------------------
(***************************************************************************)
(* An origin's agent and a relay, joined by reverse connections that can   *)
(* break, with either process stopping and the relay crashing.             *)
(***************************************************************************)
EXTENDS RelayServer, OriginAgent

CONSTANT MaxBreaks  \* bound: connections that break by themselves

VARIABLE breaks     \* how many have

vars == <<wires, relay, agent, breaks>>

Init == WiresInit /\ RelayInit /\ AgentInit /\ breaks = 0

\* A connection gets the first number that no session uses; the handlers that
\* still refer to the connection that had it before refer to none.
Free(k) == ~conn[k] /\ sess[k] \notin Live

Dial ==
  \E k \in Conns :
    /\ Free(k) /\ \A j \in 1 .. k - 1 : ~Free(j)
    /\ DialAnswered(k)
    /\ hconn' = [c \in Clients |-> IF hconn[c] = k THEN NoConn ELSE hconn[c]]
    /\ UNCHANGED <<phase, crashes, nextId, origin, sess, table, handler, hid, hlife,
                   delivered>>

AgentNext ==
  \/ Worker \/ StopAgent
  \/ \E c \in Clients : LocalAnswers(c) \/ LocalEnds(c) \/ GatewaySticks(c)

\* The network drops a connection.
Break(k) ==
  /\ conn[k]
  /\ breaks < MaxBreaks
  /\ breaks' = breaks + 1
  /\ Cut({k})
  /\ UNCHANGED <<listening, relay, agent>>

Next ==
  \/ RelayNext /\ UNCHANGED <<agent, breaks>>
  \/ AgentNext /\ UNCHANGED <<relay, breaks>>
  \/ Dial /\ UNCHANGED breaks
  \/ \E k \in Conns : Break(k)

Spec == Init /\ [][Next]_vars

(***************************************************************************)
(* Fairness.  The goroutines of the relay's sessions, of its Stop and of   *)
(* the agent's worker go on while they can: every read of theirs ends when *)
(* the connection does.  Clients leave once the relay is shut down.        *)
(* Nothing makes a client come, a gateway answer or take data, or anybody  *)
(* stop or crash.                                                          *)
(***************************************************************************)
Fairness ==
  /\ \A k \in Conns : WF_vars(Session(k) /\ UNCHANGED <<agent, breaks>>)
  /\ WF_vars(Stopping /\ UNCHANGED <<agent, breaks>>)
  /\ WF_vars(Worker /\ UNCHANGED <<relay, breaks>>)
  /\ WF_vars(Dial /\ UNCHANGED breaks)
  /\ \A c \in Clients :
       WF_vars(~listening /\ HandlerEnds(c) /\ UNCHANGED <<agent, breaks>>)

FairSpec == Spec /\ Fairness

-----------------------------------------------------------------------------

TypeOK ==
  /\ WiresTypeOK /\ RelayTypeOK /\ AgentTypeOK
  /\ breaks \in 0 .. MaxBreaks

\* A session that lives is the one new clients are sent to: neither the session
\* it replaced, which ends later, nor Stop leaves the origins map without it
\* (the `current == session` test of handleControlConn's clean-up).
LiveSessionIsRegistered ==
  \A k \in Conns : sess[k] = "serving" /\ conn[k] => origin = k

\* While the relay lives, no frame of one client's stream is applied to another's,
\* although the agent's goroutines outlive the connection they belong to and send
\* on the next one: stream ids are never given out twice.
StreamsApartWithinALife ==
  \A p \in delivered : p[1] = p[2] \/ hlife[p[1]] # hlife[p[2]]

\* The agent comes back after every lost connection while the relay accepts
\* connections; only a stream that waits for its gateway keeps it from noticing.
AgentReconnects ==
  <>[](listening /\ ~stopped) => []<>(connected \/ worker = "offering")

\* Stopping the agent ends its worker, even one that waits for a gateway, unless
\* the worker was dialing and gets a connection that Stop did not see.
AgentStops ==
  [](stopped => ~Usable(wconn)) => (stopped ~> (worker = "exited"))

\* Stopping the relay ends it once its clients leave, unless a session is
\* registered after Stop closed the registered ones.
RelayStops ==
  [](phase = "waiting" => origin = NoConn) => ((phase = "waiting") ~> (phase = "stopped"))

-----------------------------------------------------------------------------
(***************************************************************************)
(* What the repository says of the tunnel and the code does not do.        *)
(***************************************************************************)

\* "reconnect does not leak stale streams": no client is sent what belongs to
\* another client's stream.
NoCrosstalk == \A p \in delivered : p[1] = p[2]
=============================================================================
