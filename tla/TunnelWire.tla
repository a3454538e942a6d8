---------------------------- MODULE TunnelWire ----------------------------
(***************************************************************************)
(* The reverse connections between an origin's agent and a relay, and the  *)
(* frames of server/pkg/relay/protocol.go they carry.                      *)
(*                                                                         *)
(* A connection is a FIFO in each direction.  When it breaks or an end     *)
(* closes it, the frames in flight are lost: a frame that an end would     *)
(* still have read after the other closed it could as well have been read  *)
(* just before.  Ping and Pong are left out: they change nothing but a     *)
(* time stamp that is never read.                                          *)
(***************************************************************************)
EXTENDS Naturals, Sequences, FiniteSets

CONSTANTS Clients,   \* the clients of the relay; each opens one stream
          MaxConns,  \* bound: connections in use at the same time
          MaxFlight  \* bound: frames in flight on a connection, each way

VARIABLES listening,  \* the relay accepts connections
          conn,       \* whether each connection is open
          up,         \* frames to the relay
          down        \* frames to the agent

wires == <<listening, conn, up, down>>

Conns == 1 .. MaxConns
NoConn == 0

Ids == 1 .. Cardinality(Clients)

\* A frame names its stream by id.  `of` is a history of its own: the client the
\* frame really belongs to, which no program sees.
Frame(type, id, of) == [type |-> type, id |-> id, of |-> of]
Frames == [type : {"open", "data", "close", "authResp"}, id : Ids \cup {0},
           of : Clients \cup {"nobody"}]
AuthOK == Frame("authResp", 0, "nobody")

Usable(k) == k # NoConn /\ conn[k]

\* sendFrame: a frame for a connection that is closed is lost.
Sent(queue, k, f) == IF Usable(k) THEN [queue EXCEPT ![k] = Append(@, f)] ELSE queue
Room(queue, k) == Usable(k) => Len(queue[k]) < MaxFlight

\* The connections in ks are closed by an end or break.
Cut(ks) ==
  /\ conn' = [k \in Conns |-> conn[k] /\ k \notin ks]
  /\ up' = [k \in Conns |-> IF k \in ks THEN <<>> ELSE up[k]]
  /\ down' = [k \in Conns |-> IF k \in ks THEN <<>> ELSE down[k]]

WiresInit ==
  /\ listening = TRUE
  /\ conn = [k \in Conns |-> FALSE]
  /\ up = [k \in Conns |-> <<>>]
  /\ down = [k \in Conns |-> <<>>]

WiresTypeOK ==
  /\ listening \in BOOLEAN
  /\ conn \in [Conns -> BOOLEAN]
  /\ up \in [Conns -> Seq(Frames)]
  /\ down \in [Conns -> Seq(Frames)]
  /\ \A k \in Conns : Len(up[k]) <= MaxFlight /\ Len(down[k]) <= MaxFlight
=============================================================================
