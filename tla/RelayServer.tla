---------------------------- MODULE RelayServer ----------------------------
(***************************************************************************)
(* The relay process (server/pkg/relay/relay.go): its control sessions,    *)
(* its origins map, its clients' streams, Stop, and crashing.              *)
(*                                                                         *)
(* One origin id connects, as the agent of OriginAgent does, so the        *)
(* origins map is the connection of the registered session or none.  A     *)
(* session is named by its connection.  The goroutines and channels that   *)
(* move chunks inside a session are in RelayMux; here a chunk that is read *)
(* is delivered.                                                           *)
(***************************************************************************)
EXTENDS TunnelWire

CONSTANT MaxCrashes   \* bound: crashes of the relay process

VARIABLES
  phase,      \* "up", or how far Stop has come
  crashes,    \* how often the process has crashed and restarted
  nextId,     \* nextStreamID
  origin,     \* the registered session
  sess,       \* where the handler of each control connection is
  table,      \* session.streams: the clients registered with each session
  handler,    \* where each client's handler is
  hconn, hid, \* the session and the stream id each handler got
  hlife,      \* history: the life of the process each handler lived in
  delivered   \* history: <<c, d>>, a frame of client d's stream was applied to c's

relay == <<phase, crashes, nextId, origin, sess, table, handler, hconn, hid, hlife,
           delivered>>
clients == <<handler, hconn, hid, hlife>>

RelayInit ==
  /\ phase = "up" /\ crashes = 0
  /\ nextId = 0 /\ origin = NoConn
  /\ sess = [k \in Conns |-> "none"]
  /\ table = [k \in Conns |-> {}]
  /\ handler = [c \in Clients |-> "none"]
  /\ hconn = [c \in Clients |-> NoConn]
  /\ hid = [c \in Clients |-> 0]
  /\ hlife = [c \in Clients |-> 0]
  /\ delivered = {}

SessStep(k, from, to) ==
  /\ sess[k] = from
  /\ sess' = [sess EXCEPT ![k] = to]

Live == {"auth", "replied", "serving"}

-----------------------------------------------------------------------------
\* handleControlConn, for an agent with the right token.

AcceptControl(k) ==
  /\ listening /\ conn[k]
  /\ \/ SessStep(k, "none", "auth")
     \/ SessStep(k, "ended", "auth")
  /\ UNCHANGED <<wires, phase, crashes, nextId, origin, table, clients, delivered>>

\* The response goes out before the session is registered.
ReplyAuth(k) ==
  /\ conn[k]
  /\ SessStep(k, "auth", "replied")
  /\ down' = Sent(down, k, AuthOK)
  /\ UNCHANGED <<listening, conn, up, phase, crashes, nextId, origin, table, clients,
                 delivered>>

AuthFails(k) ==
  /\ ~conn[k]
  /\ SessStep(k, "auth", "ended")
  /\ UNCHANGED <<wires, phase, crashes, nextId, origin, table, clients, delivered>>

\* Mutant of RegisterSession: numbers the streams of each session from one.
RegisterRenumbering(k) ==
  /\ SessStep(k, "replied", "serving")
  /\ origin' = k
  /\ nextId' = 0
  /\ IF origin = NoConn
     THEN UNCHANGED <<conn, up, down, table>>
     ELSE Cut({origin}) /\ table' = [table EXCEPT ![origin] = {}]
  /\ UNCHANGED <<listening, phase, crashes, clients, delivered>>

\* A session that is registered under the same id already is closed.
RegisterSession(k) ==
  /\ SessStep(k, "replied", "serving")
  /\ origin' = k
  /\ IF origin = NoConn
     THEN UNCHANGED <<conn, up, down, table>>
     ELSE Cut({origin}) /\ table' = [table EXCEPT ![origin] = {}]
  /\ UNCHANGED <<listening, phase, crashes, nextId, clients, delivered>>

Target(k, id) == {c \in table[k] : hid[c] = id}

\* The reader: a data or close frame for a stream of the table is applied.
ReadUp(k) ==
  /\ sess[k] = "serving" /\ up[k] # <<>>
  /\ LET f == Head(up[k]) IN
       /\ delivered' = delivered \cup (Target(k, f.id) \X {f.of})
       /\ table' = IF f.type = "close"
                   THEN [table EXCEPT ![k] = @ \ Target(k, f.id)] ELSE table
  /\ up' = [up EXCEPT ![k] = Tail(@)]
  /\ UNCHANGED <<listening, conn, down, phase, crashes, nextId, origin, sess, clients>>

\* Mutant of SessionEnds: removes whatever session is registered.
SessionEndsUnguarded(k) ==
  /\ ~conn[k]
  /\ SessStep(k, "serving", "ended")
  /\ origin' = NoConn
  /\ table' = [table EXCEPT ![k] = {}]
  /\ UNCHANGED <<wires, phase, crashes, nextId, clients, delivered>>

\* The connection is gone: leave the origins map unless a newer session took the
\* place, and close the session.
SessionEnds(k) ==
  /\ ~conn[k]
  /\ SessStep(k, "serving", "ended")
  /\ origin' = IF origin = k THEN NoConn ELSE origin
  /\ table' = [table EXCEPT ![k] = {}]
  /\ UNCHANGED <<wires, phase, crashes, nextId, clients, delivered>>

-----------------------------------------------------------------------------
\* handleClientConn.

HandlerStep(c, from, to) ==
  /\ handler[c] = from
  /\ handler' = [handler EXCEPT ![c] = to]

\* No origin is registered: the client is disconnected.
RefuseClient(c) ==
  /\ listening
  /\ origin = NoConn
  /\ HandlerStep(c, "none", "done")
  /\ UNCHANGED <<wires, phase, crashes, nextId, origin, sess, table, hconn, hid, hlife,
                 delivered>>

\* The stream gets the next id, is registered and announced.  If the session's
\* connection broke, the announcement is lost or fails, and the handler cleans up.
OpenStream(c) ==
  /\ listening
  /\ origin # NoConn
  /\ Room(down, origin)
  /\ nextId' = nextId + 1
  /\ \/ /\ HandlerStep(c, "none", "open")
        /\ table' = [table EXCEPT ![origin] = @ \cup {c}]
        /\ hconn' = [hconn EXCEPT ![c] = origin]
        /\ hid' = [hid EXCEPT ![c] = nextId']
        /\ hlife' = [hlife EXCEPT ![c] = crashes]
     \/ /\ ~conn[origin]
        /\ HandlerStep(c, "none", "done") /\ UNCHANGED <<table, hconn, hid, hlife>>
  /\ down' = Sent(down, origin, Frame("open", nextId', c))
  /\ UNCHANGED <<listening, conn, up, phase, crashes, origin, sess, delivered>>

\* The client sends its request, once.
ClientSends(c) ==
  /\ HandlerStep(c, "open", "asked")
  /\ Room(down, hconn[c])
  /\ down' = Sent(down, hconn[c], Frame("data", hid[c], c))
  /\ UNCHANGED <<listening, conn, up, phase, crashes, nextId, origin, sess, table, hconn,
                 hid, hlife, delivered>>

\* The client leaves, or sends on a session whose connection is gone.
HandlerEnds(c) ==
  /\ handler[c] \in {"open", "asked"}
  /\ Room(down, hconn[c])
  /\ handler' = [handler EXCEPT ![c] = "done"]
  /\ hconn' = [hconn EXCEPT ![c] = NoConn]
  /\ table' = [k \in Conns |-> table[k] \ {c}]
  /\ down' = Sent(down, hconn[c], Frame("close", hid[c], c))
  /\ UNCHANGED <<listening, conn, up, phase, crashes, nextId, origin, sess, hid, hlife,
                 delivered>>

-----------------------------------------------------------------------------
\* Stop: close the listeners, close the registered session, wait for everybody.

StopListening ==
  /\ phase = "up"
  /\ phase' = "stopping"
  /\ listening' = FALSE
  /\ Cut({k \in Conns : sess[k] \notin Live})   \* connections nobody accepted
  /\ UNCHANGED <<crashes, nextId, origin, sess, table, clients, delivered>>

\* Mutant of CloseOrigins: forgets the session without closing it.
ForgetOrigins ==
  /\ phase = "stopping"
  /\ phase' = "waiting"
  /\ origin' = NoConn
  /\ UNCHANGED <<wires, crashes, nextId, sess, table, clients, delivered>>

CloseOrigins ==
  /\ phase = "stopping"
  /\ phase' = "waiting"
  /\ origin' = NoConn
  /\ Cut({origin})
  /\ table' = [k \in Conns |-> IF k = origin THEN {} ELSE table[k]]
  /\ UNCHANGED <<listening, crashes, nextId, sess, clients, delivered>>

StopReturns ==
  /\ phase = "waiting"
  /\ \A k \in Conns : sess[k] \notin Live
  /\ \A c \in Clients : handler[c] \in {"none", "done"}
  /\ phase' = "stopped"
  /\ UNCHANGED <<wires, crashes, nextId, origin, sess, table, clients, delivered>>

-----------------------------------------------------------------------------
\* The process dies with its connections and comes back with nothing.

Crash ==
  /\ phase = "up"
  /\ crashes < MaxCrashes
  /\ crashes' = crashes + 1
  /\ nextId' = 0 /\ origin' = NoConn
  /\ sess' = [k \in Conns |-> IF sess[k] \in Live THEN "ended" ELSE sess[k]]
  /\ table' = [k \in Conns |-> {}]
  /\ handler' = [c \in Clients |-> IF handler[c] = "none" THEN "none" ELSE "done"]
  /\ hconn' = [c \in Clients |-> NoConn]
  /\ Cut(Conns)
  /\ UNCHANGED <<listening, phase, hid, hlife, delivered>>

-----------------------------------------------------------------------------

Session(k) == \/ AcceptControl(k) \/ ReplyAuth(k) \/ AuthFails(k)
              \/ RegisterSession(k) \/ ReadUp(k) \/ SessionEnds(k)

Client(c) == RefuseClient(c) \/ OpenStream(c) \/ ClientSends(c) \/ HandlerEnds(c)

Stopping == CloseOrigins \/ StopReturns

RelayNext ==
  \/ \E k \in Conns : Session(k)
  \/ \E c \in Clients : Client(c)
  \/ StopListening \/ Stopping
  \/ Crash

RelayTypeOK ==
  /\ phase \in {"up", "stopping", "waiting", "stopped"}
  /\ crashes \in 0 .. MaxCrashes
  /\ nextId \in Ids \cup {0}
  /\ origin \in Conns \cup {NoConn}
  /\ sess \in [Conns -> Live \cup {"none", "ended"}]
  /\ table \in [Conns -> SUBSET Clients]
  /\ handler \in [Clients -> {"none", "open", "asked", "done"}]
  /\ hconn \in [Clients -> Conns \cup {NoConn}]
  /\ hid \in [Clients -> Ids \cup {0}]
  /\ hlife \in [Clients -> 0 .. MaxCrashes]
  /\ delivered \subseteq Clients \X (Clients \cup {"nobody"})
=============================================================================
