---------------------------- MODULE OriginAgent ----------------------------
(***************************************************************************)
(* One relay worker of the origin's reverse agent                          *)
(* (server/pkg/origin/agent.go): it dials the relay, authenticates, serves *)
(* the frames of the connection and starts over when the connection ends.  *)
(*                                                                         *)
(* A StreamOpen starts a goroutine that dials the local gateway and copies *)
(* both ways.  It outlives the connection that started it: it ends when    *)
(* the gateway does, removes its stream from localStreams by id, and sends *)
(* on whatever connection the worker has by then.                          *)
(***************************************************************************)
EXTENDS TunnelWire, Functions

CONSTANT Stuck   \* clients whose gateway connection may stop taking data

VARIABLES
  worker,     \* where the worker is
  wconn,      \* the worker's current connection, w.conn
  connected,  \* w.connected
  stopped,    \* w.closed is closed: Stop was called
  streams,    \* localStreams: the stream registered under each id
  offered,    \* the stream the worker waits for, while "offering"
  local,      \* the goroutine of each stream, named by the client it serves
  lid,        \* the id each stream was opened with
  lclosed,    \* running streams whose closed channel is closed
  asked,      \* streams whose gateway has received a request
  stuck       \* streams whose gateway takes no data now

agent == <<worker, wconn, connected, stopped, streams, offered, local, lid, lclosed,
           asked, stuck>>
locals == <<local, lid, asked, stuck>>

Nobody == "nobody"

AgentInit ==
  /\ worker = "dialing"
  /\ wconn = NoConn
  /\ connected = FALSE /\ stopped = FALSE
  /\ streams = [i \in Ids |-> Nobody]
  /\ offered = Nobody
  /\ local = [c \in Clients |-> "none"]
  /\ lid = [c \in Clients |-> 0]
  /\ lclosed = {} /\ asked = {} /\ stuck = {}

WorkerStep(from, to) == worker = from /\ worker' = to

Running(cs) == {c \in Clients \cap cs : local[c] = "running"}
StreamClosed(c) == c \in lclosed \/ local[c] # "running"
Without(id) == [streams EXCEPT ![id] = Nobody]

-----------------------------------------------------------------------------
\* run and connectAndServe.

\* The top of run's loop, after the pause that follows every failure.
StartOver ==
  /\ WorkerStep("pausing", IF stopped THEN "exited" ELSE "dialing")
  /\ UNCHANGED <<wires, wconn, connected, stopped, streams, offered, locals, lclosed>>

\* k is a number nobody refers to any more.
DialAnswered(k) ==
  /\ listening
  /\ WorkerStep("dialing", "auth")
  /\ wconn' = k
  /\ conn' = [conn EXCEPT ![k] = TRUE]
  /\ UNCHANGED <<listening, up, down, connected, stopped, streams, offered, locals,
                 lclosed>>

DialFails ==
  /\ ~listening
  /\ WorkerStep("dialing", "pausing")
  /\ UNCHANGED <<wires, wconn, connected, stopped, streams, offered, locals, lclosed>>

AuthAccepted ==
  /\ Usable(wconn) /\ down[wconn] # <<>>
  /\ WorkerStep("auth", "serving")
  /\ connected' = TRUE
  /\ down' = [down EXCEPT ![wconn] = Tail(@)]
  /\ UNCHANGED <<listening, conn, up, wconn, stopped, streams, offered, locals, lclosed>>

\* Mutant of ConnectionLost: a connection lost before it is authenticated is fatal.
ConnectionLostInAuthIsFatal ==
  /\ worker \in {"auth", "serving"}
  /\ ~conn[wconn]
  /\ worker' = IF worker = "auth" THEN "exited" ELSE "pausing"
  /\ connected' = FALSE
  /\ lclosed' = lclosed \cup Running(Range(streams))
  /\ streams' = [i \in Ids |-> Nobody]
  /\ UNCHANGED <<wires, wconn, stopped, offered, locals>>

\* A read fails: connectAndServe's deferred clean-up.
ConnectionLost ==
  /\ worker \in {"auth", "serving"}
  /\ ~conn[wconn]
  /\ worker' = "pausing"
  /\ connected' = FALSE
  /\ lclosed' = lclosed \cup Running(Range(streams))
  /\ streams' = [i \in Ids |-> Nobody]
  /\ UNCHANGED <<wires, wconn, stopped, offered, locals>>

Receives(type) ==
  /\ worker = "serving"
  /\ Usable(wconn) /\ down[wconn] # <<>>
  /\ Head(down[wconn]).type = type
  /\ down' = [down EXCEPT ![wconn] = Tail(@)]

ReceiveOpen ==
  /\ Receives("open")
  /\ LET f == Head(down[wconn]) IN
       /\ streams' = [streams EXCEPT ![f.id] = f.of]
       /\ local' = [local EXCEPT ![f.of] = "running"]
       /\ lid' = [lid EXCEPT ![f.of] = f.id]
  /\ UNCHANGED <<listening, conn, up, worker, wconn, connected, stopped, offered, lclosed,
                 asked, stuck>>

\* The stream's channel takes the data unless its gateway has let it fill up;
\* the worker then waits, for room or for the stream to be closed.
ReceiveData ==
  /\ Receives("data")
  /\ LET f == Head(down[wconn])
         c == streams[f.id]
     IN CASE c = Nobody \/ StreamClosed(c) -> UNCHANGED <<worker, offered, asked>>
          [] c \in stuck -> worker' = "offering" /\ offered' = c /\ UNCHANGED asked
          [] OTHER -> asked' = asked \cup {c} /\ UNCHANGED <<worker, offered>>
  /\ UNCHANGED <<listening, conn, up, wconn, connected, stopped, streams, local, lid,
                 lclosed, stuck>>

OfferTaken ==
  /\ offered \notin stuck
  /\ WorkerStep("offering", "serving")
  /\ asked' = asked \cup {offered}
  /\ offered' = Nobody
  /\ UNCHANGED <<wires, wconn, connected, stopped, streams, local, lid, lclosed, stuck>>

OfferDropped ==
  /\ WorkerStep("offering", "serving")
  /\ StreamClosed(offered)
  /\ offered' = Nobody
  /\ UNCHANGED <<wires, wconn, connected, stopped, streams, locals, lclosed>>

ReceiveClose ==
  /\ Receives("close")
  /\ LET f == Head(down[wconn]) IN
       /\ lclosed' = lclosed \cup Running({streams[f.id]})
       /\ streams' = Without(f.id)
  /\ UNCHANGED <<listening, conn, up, worker, wconn, connected, stopped, offered, locals>>

-----------------------------------------------------------------------------
\* handleStreamOpen.

\* The gateway cannot be reached, or it closed the connection: remove the stream
\* with this id, close, and tell the relay.
LocalEnds(c) ==
  /\ local[c] = "running"
  /\ c \notin stuck
  /\ Room(up, wconn)
  /\ local' = [local EXCEPT ![c] = "done"]
  /\ lclosed' = lclosed \ {c}
  /\ streams' = Without(lid[c])
  /\ asked' = asked \ {c}
  /\ up' = Sent(up, wconn, Frame("close", lid[c], c))
  /\ UNCHANGED <<listening, conn, down, worker, wconn, connected, stopped, offered, lid,
                 stuck>>

\* The gateway's answer is sent on the worker's connection of the moment.
LocalAnswers(c) ==
  /\ local[c] = "running"
  /\ c \in asked
  /\ Room(up, wconn)
  /\ up' = Sent(up, wconn, Frame("data", lid[c], c))
  /\ asked' = asked \ {c}
  /\ UNCHANGED <<listening, conn, down, worker, wconn, connected, stopped, streams, offered,
                 local, lid, lclosed, stuck>>

-----------------------------------------------------------------------------

\* Mutant of StopAgent: closes the connection and not the streams.
StopAgentLeavesStreams ==
  /\ ~stopped
  /\ stopped' = TRUE
  /\ Cut({wconn})
  /\ UNCHANGED <<listening, worker, wconn, connected, offered, locals, streams, lclosed>>

\* relayWorker.stop, from OriginReverseAgent.Stop.
StopAgent ==
  /\ ~stopped
  /\ stopped' = TRUE
  /\ Cut({wconn})
  /\ lclosed' = lclosed \cup Running(Range(streams))
  /\ streams' = [i \in Ids |-> Nobody]
  /\ UNCHANGED <<listening, worker, wconn, connected, offered, locals>>

\* The gateway connection of a stream stops taking data, or takes it again.
GatewaySticks(c) ==
  /\ c \in Stuck
  /\ local[c] = "running"
  /\ stuck' = IF c \in stuck THEN stuck \ {c} ELSE stuck \cup {c}
  /\ UNCHANGED <<wires, worker, wconn, connected, stopped, streams, offered, local, lid,
                 lclosed, asked>>

-----------------------------------------------------------------------------

Serving == ReceiveOpen \/ ReceiveData \/ ReceiveClose \/ OfferTaken \/ OfferDropped

Worker == StartOver \/ DialFails \/ AuthAccepted \/ ConnectionLost \/ Serving

AgentTypeOK ==
  /\ worker \in {"dialing", "auth", "serving", "offering", "pausing", "exited"}
  /\ wconn \in Conns \cup {NoConn}
  /\ connected \in BOOLEAN /\ stopped \in BOOLEAN
  /\ streams \in [Ids -> Clients \cup {Nobody}]
  /\ offered \in Clients \cup {Nobody}
  /\ worker = "offering" <=> offered # Nobody
  /\ local \in [Clients -> {"none", "running", "done"}]
  /\ lid \in [Clients -> Ids \cup {0}]
  /\ lclosed \subseteq Clients /\ asked \subseteq Clients /\ stuck \subseteq Clients
=============================================================================
