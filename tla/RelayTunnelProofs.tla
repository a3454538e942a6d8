--------------------------- MODULE RelayTunnelProofs ---------------------------
(***************************************************************************)
(* The safety of the tunnel for any number of clients, connections,        *)
(* crashes and breaks.  WireInv is about the frames in flight, SessionInv  *)
(* about the origins map, StreamInv about stream ids.                      *)
(***************************************************************************)
EXTENDS RelayTunnel, TLAPS

\* Frames with ids of any size.
Messages == [type : {"open", "data", "close", "authResp"}, id : Nat, of : Clients \cup {"nobody"}]

\* A frame carries the id that its client's handler was given (h is hid).
Good(f, h) == f.of \in Clients /\ f.id = h[f.of] /\ f.id # 0

WireInv ==
  /\ conn \in [Conns -> BOOLEAN]
  /\ up \in [Conns -> Seq(Messages)] /\ down \in [Conns -> Seq(Messages)]
  /\ \A k \in Conns :
       /\ \A i \in 1 .. Len(up[k]) : Good(up[k][i], hid)
       /\ \A i \in 1 .. Len(down[k]) : down[k][i] = AuthOK \/ Good(down[k][i], hid)

\* The registered session serves, with its connection open or about to be found closed.
SessionInv ==
  /\ sess \in [Conns -> Live \cup {"none", "ended"}]
  /\ origin \in Conns \cup {NoConn}
  /\ origin # NoConn => sess[origin] = "serving"
  /\ LiveSessionIsRegistered

\* An id is given out once in a life of the relay, and whoever acts for a stream has
\* the stream's id.
StreamInv ==
  /\ handler \in [Clients -> {"none", "open", "asked", "done"}]
  /\ hid \in [Clients -> Nat] /\ hlife \in [Clients -> Nat]
  /\ local \in [Clients -> {"none", "running", "done"}] /\ lid \in [Clients -> Nat]
  /\ table \in [Conns -> SUBSET Clients]
  /\ nextId \in Nat /\ crashes \in Nat
  /\ \A c \in Clients :
       /\ handler[c] = "none" => hid[c] = 0
       /\ handler[c] \in {"open", "asked"} => hid[c] # 0
       /\ hid[c] # 0 => hlife[c] < crashes \/ (hlife[c] = crashes /\ hid[c] <= nextId)
       /\ local[c] # "none" => lid[c] = hid[c] /\ hid[c] # 0
  /\ \A c, d \in Clients : hid[c] = hid[d] /\ hid[c] # 0 /\ hlife[c] = hlife[d] => c = d
  /\ \A k \in Conns : \A c \in table[k] : hid[c] # 0
  /\ \A p \in delivered : /\ p[1] \in Clients /\ p[2] \in Clients
                          /\ hid[p[1]] = hid[p[2]] /\ hid[p[1]] # 0

FrameInv == WireInv /\ SessionInv /\ StreamInv

TunnelInv == FrameInv /\ wconn \in Conns \cup {NoConn}

-----------------------------------------------------------------------------
\* Both ends start with nothing.
LEMMA TunnelInvInit == Init => TunnelInv
<1> SUFFICES ASSUME Init PROVE TunnelInv
  OBVIOUS
<1> USE DEF Init, WiresInit, RelayInit, AgentInit
<1>1. WireInv
  BY DEF WireInv
<1>2. SessionInv
  BY DEF SessionInv, LiveSessionIsRegistered, Live, NoConn
<1>3. StreamInv
  BY DEF StreamInv
<1> QED
  BY <1>1, <1>2, <1>3 DEF TunnelInv, FrameInv

-----------------------------------------------------------------------------
\* What a step may do to a queue of frames: nothing, lose all, take the first, or
\* append one that passes.
QueueStep(q, r, h) ==
  \/ r = q \/ r = <<>>
  \/ q # <<>> /\ r = Tail(q)
  \/ \E f \in Messages : Good(f, h) /\ r = Append(q, f)

HidsKept == \A c \in Clients : hid[c] # 0 => hid'[c] = hid[c]

LEMMA QueueStaysGood ==
  ASSUME NEW q \in Seq(Messages), NEW r, NEW h, NEW g,
         \A c \in Clients : h[c] # 0 => g[c] = h[c],
         QueueStep(q, r, g) \/ r = Append(q, AuthOK)
  PROVE  /\ r \in Seq(Messages)
         /\ (\A i \in 1 .. Len(q) : Good(q[i], h)) /\ QueueStep(q, r, g)
              => \A i \in 1 .. Len(r) : Good(r[i], g)
         /\ (\A i \in 1 .. Len(q) : q[i] = AuthOK \/ Good(q[i], h))
              => \A i \in 1 .. Len(r) : r[i] = AuthOK \/ Good(r[i], g)
<1>1. AuthOK \in Messages
  BY DEF AuthOK, Frame, Messages
<1>2. \A f : Good(f, h) => Good(f, g)
  BY DEF Good
<1>3. CASE r = q
  BY <1>2, <1>3
<1>4. CASE r = <<>>
  BY <1>4
<1>5. CASE q # <<>> /\ r = Tail(q)
  <2>1. r \in Seq(Messages) /\ Len(r) = Len(q) - 1 /\ \A i \in 1 .. Len(r) : r[i] = q[i + 1]
    BY <1>5
  <2>2. Len(q) \in Nat /\ \A i \in 1 .. Len(r) : i + 1 \in 1 .. Len(q)
    BY <2>1
  <2> QED
    BY <1>2, <2>1, <2>2
<1>6. ASSUME NEW f \in Messages, r = Append(q, f)
      PROVE  /\ r \in Seq(Messages) /\ Len(r) = Len(q) + 1
             /\ \A i \in 1 .. Len(r) : (i \in 1 .. Len(q) /\ r[i] = q[i]) \/ r[i] = f
  <2>1. Len(q) \in Nat /\ r \in Seq(Messages) /\ Len(r) = Len(q) + 1
    BY <1>6
  <2>2. \A i \in 1 .. Len(r) : i \in 1 .. Len(q) \/ i = Len(q) + 1
    BY <2>1
  <2> QED
    BY <1>6, <2>1, <2>2
<1>7. CASE r = Append(q, AuthOK)
  <2>1. ~QueueStep(q, r, g) \/ QueueStep(q, r, g)
    OBVIOUS
  <2>2. AuthOK.type = "authResp" /\ AuthOK.id = 0
    BY DEF AuthOK, Frame
  <2>3. /\ r \in Seq(Messages)
        /\ \A i \in 1 .. Len(r) : (i \in 1 .. Len(q) /\ r[i] = q[i]) \/ r[i] = AuthOK
    BY <1>1, <1>6, <1>7
  <2>4. ~QueueStep(q, r, g)
    <3>1. Len(r) = Len(q) + 1 /\ Len(q) \in Nat /\ r[Len(r)] = AuthOK
      BY <1>1, <1>7
    <3>2. r # q /\ r # <<>> /\ (q # <<>> => r # Tail(q))
      BY <3>1
    <3>3. ASSUME NEW f \in Messages, Good(f, g), r = Append(q, f) PROVE FALSE
      <4>1. r[Len(r)] = f
        BY <3>1, <3>3
      <4> QED
        BY <2>2, <3>1, <3>3, <4>1 DEF Good
    <3> QED
      BY <3>2, <3>3 DEF QueueStep
  <2> QED
    BY <1>2, <2>3, <2>4
<1>8. ASSUME NEW f \in Messages, Good(f, g), r = Append(q, f)
      PROVE  /\ r \in Seq(Messages)
             /\ (\A i \in 1 .. Len(q) : Good(q[i], h)) => \A i \in 1 .. Len(r) : Good(r[i], g)
             /\ (\A i \in 1 .. Len(q) : q[i] = AuthOK \/ Good(q[i], h))
                  => \A i \in 1 .. Len(r) : r[i] = AuthOK \/ Good(r[i], g)
  <2>1. /\ r \in Seq(Messages)
        /\ \A i \in 1 .. Len(r) : (i \in 1 .. Len(q) /\ r[i] = q[i]) \/ r[i] = f
    BY <1>6, <1>8
  <2> QED
    BY <1>2, <1>8, <2>1
<1> QED
  BY <1>3, <1>4, <1>5, <1>7, <1>8 DEF QueueStep

\* A step that changes connections and queues in this way keeps what is known of frames
\* in flight.
WiresStep ==
  /\ conn' \in [Conns -> BOOLEAN]
  /\ up' = [k \in Conns |-> up'[k]] /\ down' = [k \in Conns |-> down'[k]]
  /\ \A k \in Conns : QueueStep(up[k], up'[k], hid')
  /\ \A k \in Conns : QueueStep(down[k], down'[k], hid') \/ down'[k] = Append(down[k], AuthOK)

LEMMA WiresKept == WireInv /\ HidsKept /\ WiresStep => WireInv'
<1> SUFFICES ASSUME WireInv, HidsKept, WiresStep PROVE WireInv'
  OBVIOUS
<1>1. ASSUME NEW k \in Conns
      PROVE  /\ up'[k] \in Seq(Messages) /\ down'[k] \in Seq(Messages)
             /\ \A i \in 1 .. Len(up'[k]) : Good(up'[k][i], hid')
             /\ \A i \in 1 .. Len(down'[k]) : down'[k][i] = AuthOK \/ Good(down'[k][i], hid')
  <2>1. up[k] \in Seq(Messages) /\ down[k] \in Seq(Messages)
    BY DEF WireInv
  <2>2. /\ up'[k] \in Seq(Messages)
        /\ \A i \in 1 .. Len(up'[k]) : Good(up'[k][i], hid')
    <3>1. QueueStep(up[k], up'[k], hid')
      BY DEF WiresStep
    <3> QED
      BY <2>1, <3>1, QueueStaysGood DEF WireInv, HidsKept
  <2>3. /\ down'[k] \in Seq(Messages)
        /\ \A i \in 1 .. Len(down'[k]) : down'[k][i] = AuthOK \/ Good(down'[k][i], hid')
    <3>1. QueueStep(down[k], down'[k], hid') \/ down'[k] = Append(down[k], AuthOK)
      BY DEF WiresStep
    <3> QED
      BY <2>1, <3>1, QueueStaysGood DEF WireInv, HidsKept
  <2> QED
    BY <2>2, <2>3
<1>2. up' \in [Conns -> Seq(Messages)] /\ down' \in [Conns -> Seq(Messages)]
  BY <1>1 DEF WiresStep
<1>3. AuthOK' = AuthOK
  BY DEF AuthOK, Frame
<1> QED
  BY <1>1, <1>2, <1>3 DEF WireInv, WiresStep, Good

\* Queues that stay, are cut off, lose their head or get a frame that passes.
LEMMA NoFrames ==
  ASSUME WireInv, UNCHANGED <<up, down>>, conn' \in [Conns -> BOOLEAN]
  PROVE  WiresStep
BY DEF WireInv, WiresStep, QueueStep

LEMMA CutFrames ==
  ASSUME WireInv, NEW ks, Cut(ks)
  PROVE  WiresStep /\ \A k \in Conns : conn'[k] => conn[k] /\ k \notin ks
BY DEF WireInv, WiresStep, QueueStep, Cut

LEMMA TakenFrames ==
  ASSUME WireInv, NEW k \in Conns, UNCHANGED conn,
         \/ up[k] # <<>> /\ up' = [up EXCEPT ![k] = Tail(@)] /\ down' = down
         \/ down[k] # <<>> /\ down' = [down EXCEPT ![k] = Tail(@)] /\ up' = up
  PROVE  WiresStep
BY DEF WireInv, WiresStep, QueueStep

LEMMA SentFrames ==
  ASSUME WireInv, NEW k, NEW f \in Messages, Good(f, hid'), UNCHANGED conn,
         \/ up' = Sent(up, k, f) /\ down' = down
         \/ down' = Sent(down, k, f) /\ up' = up
  PROVE  WiresStep
<1>1. CASE Usable(k)
  BY <1>1 DEF WireInv, WiresStep, QueueStep, Sent
<1>2. CASE ~Usable(k)
  BY <1>2 DEF WireInv, WiresStep, QueueStep, Sent
<1> QED
  BY <1>1, <1>2

\* Steps that are none of the origins map's, or of the streams', business.
LEMMA SessionKept ==
  ASSUME SessionInv, UNCHANGED <<sess, origin>>,
         \A k \in Conns : conn'[k] => conn[k] \/ sess[k] # "serving"
  PROVE  SessionInv'
BY DEF SessionInv, LiveSessionIsRegistered

LEMMA StreamKept ==
  ASSUME StreamInv, UNCHANGED <<handler, hid, hlife, nextId, crashes, delivered, local, lid>>,
         table' \in [Conns -> SUBSET Clients],
         \A k \in Conns : table'[k] \subseteq table[k]
  PROVE  StreamInv' /\ HidsKept
<1>1. HidsKept
  BY DEF HidsKept
<1>2. StreamInv'
  BY DEF StreamInv
<1> QED
  BY <1>1, <1>2

-----------------------------------------------------------------------------
\* The relay's sessions.
LEMMA SessionPreserves ==
  ASSUME FrameInv, NEW k \in Conns, Session(k), UNCHANGED agent
  PROVE  FrameInv'
<1> USE DEF FrameInv
<1>1. CASE AcceptControl(k) \/ AuthFails(k)
  <2>1. SessionInv'
    BY <1>1 DEF AcceptControl, AuthFails, SessStep, SessionInv, LiveSessionIsRegistered, Live, wires
  <2>2. StreamInv' /\ HidsKept
    BY <1>1, StreamKept DEF AcceptControl, AuthFails, clients, agent, locals, StreamInv
  <2>3. WireInv'
    BY <1>1, <2>2, NoFrames, WiresKept DEF AcceptControl, AuthFails, wires, WireInv
  <2> QED
    BY <2>1, <2>2, <2>3
<1>2. CASE ReplyAuth(k)
  <2>1. SessionInv'
    BY <1>2 DEF ReplyAuth, SessStep, SessionInv, LiveSessionIsRegistered, Live
  <2>2. StreamInv' /\ HidsKept
    BY <1>2, StreamKept DEF ReplyAuth, clients, agent, locals, StreamInv
  <2>3. WiresStep
    <3>1. conn' = conn /\ up' = up /\ down' = [down EXCEPT ![k] = Append(@, AuthOK)]
      BY <1>2 DEF ReplyAuth, Sent, Usable, Conns, NoConn
    <3> QED
      BY <3>1 DEF WireInv, WiresStep, QueueStep
  <2> QED
    BY <2>1, <2>2, <2>3, WiresKept
<1>3. CASE RegisterSession(k)
  <2>1. /\ sess[k] = "replied" /\ sess' = [sess EXCEPT ![k] = "serving"] /\ origin' = k
        /\ UNCHANGED <<nextId, crashes, clients, delivered>>
        /\ \/ origin = NoConn /\ UNCHANGED <<conn, up, down, table>>
           \/ origin # NoConn /\ Cut({origin}) /\ table' = [table EXCEPT ![origin] = {}]
    BY <1>3 DEF RegisterSession, SessStep
  <2>2. WiresStep /\ \A j \in Conns : conn'[j] => conn[j] /\ j # origin
    <3>1. CASE origin = NoConn
      <4>1. \A j \in Conns : j # NoConn
        BY DEF Conns, NoConn
      <4> QED
        BY <2>1, <3>1, <4>1, NoFrames DEF WireInv
    <3>2. CASE origin # NoConn
      <4>1. Cut({origin})
        BY <2>1, <3>2
      <4> QED
        BY <4>1, CutFrames
    <3> QED
      BY <3>1, <3>2
  <2>3. SessionInv'
    BY <2>1, <2>2 DEF SessionInv, LiveSessionIsRegistered, Live, Conns, NoConn
  <2>4. StreamInv' /\ HidsKept
    <3>1. table' \in [Conns -> SUBSET Clients] /\ \A j \in Conns : table'[j] \subseteq table[j]
      BY <2>1 DEF StreamInv
    <3> QED
      BY <2>1, <3>1, StreamKept DEF clients, agent, locals
  <2> QED
    BY <2>2, <2>3, <2>4, WiresKept
<1>4. CASE ReadUp(k)
  <2> DEFINE f == Head(up[k])
  <2>1. f \in Messages /\ Good(f, hid)
    <3>1. up[k] \in Seq(Messages) /\ up[k] # <<>> /\ Good(up[k][1], hid)
      BY <1>4 DEF ReadUp, WireInv
    <3> QED
      BY <3>1
  <2>2. /\ delivered' = delivered \cup (Target(k, f.id) \X {f.of})
        /\ table' \in [Conns -> SUBSET Clients] /\ \A j \in Conns : table'[j] \subseteq table[j]
        /\ UNCHANGED <<conn, down, nextId, crashes, origin, sess, clients>>
        /\ up[k] # <<>> /\ up' = [up EXCEPT ![k] = Tail(@)]
    BY <1>4 DEF ReadUp, StreamInv
  <2>3. \A c \in Target(k, f.id) : c \in Clients /\ hid[c] = hid[f.of] /\ hid[c] # 0
    BY <2>1 DEF Target, Good, StreamInv
  <2> HIDE DEF f
  <2>4. \A p \in delivered' : /\ p[1] \in Clients /\ p[2] \in Clients
                              /\ hid[p[1]] = hid[p[2]] /\ hid[p[1]] # 0
    BY <2>1, <2>2, <2>3 DEF StreamInv, Good
  <2>5. StreamInv' /\ HidsKept
    BY <2>2, <2>4 DEF StreamInv, HidsKept, clients, agent, locals
  <2>6. WireInv'
    BY <2>2, <2>5, TakenFrames, WiresKept
  <2>7. SessionInv'
    BY <2>2, SessionKept
  <2> QED
    BY <2>5, <2>6, <2>7
<1>5. CASE SessionEnds(k)
  <2>1. SessionInv'
    BY <1>5 DEF SessionEnds, SessStep, SessionInv, LiveSessionIsRegistered, Live, wires
  <2>2. StreamInv' /\ HidsKept
    BY <1>5, StreamKept DEF SessionEnds, clients, agent, locals, StreamInv
  <2>3. WireInv'
    BY <1>5, <2>2, NoFrames, WiresKept DEF SessionEnds, wires, WireInv
  <2> QED
    BY <2>1, <2>2, <2>3
<1> QED
  BY <1>1, <1>2, <1>3, <1>4, <1>5 DEF Session

\* The relay's clients.  A new id is above all ids of this life.
LEMMA ClientPreserves ==
  ASSUME FrameInv, NEW c \in Clients, Client(c), UNCHANGED agent
  PROVE  FrameInv'
<1> USE DEF FrameInv
<1>0. /\ \A h : Good(Frame("data", h[c], c), h) <=> h[c] # 0
      /\ \A h : Good(Frame("close", h[c], c), h) <=> h[c] # 0
      /\ \A h : Good(Frame("open", h[c], c), h) <=> h[c] # 0
      /\ \A n \in Nat : \A t \in {"open", "data", "close"} : Frame(t, n, c) \in Messages
  BY DEF Good, Frame, Messages
<1>1. CASE RefuseClient(c)
  <2>1. StreamInv' /\ HidsKept
    BY <1>1 DEF RefuseClient, HandlerStep, StreamInv, HidsKept, agent, locals
  <2>2. SessionInv'
    BY <1>1, SessionKept DEF RefuseClient, wires
  <2>3. WireInv'
    BY <1>1, <2>1, NoFrames, WiresKept DEF RefuseClient, wires, WireInv
  <2> QED
    BY <2>1, <2>2, <2>3
<1>2. CASE OpenStream(c) /\ handler'[c] = "open"
  <2>1. /\ handler[c] = "none" /\ handler' = [handler EXCEPT ![c] = "open"]
        /\ nextId' = nextId + 1
        /\ table' = [table EXCEPT ![origin] = @ \cup {c}]
        /\ hid' = [hid EXCEPT ![c] = nextId + 1] /\ hlife' = [hlife EXCEPT ![c] = crashes]
        /\ down' = Sent(down, origin, Frame("open", nextId + 1, c))
        /\ UNCHANGED <<conn, up, crashes, origin, sess, delivered, local, lid>>
    BY <1>2 DEF OpenStream, HandlerStep, StreamInv, agent, locals
  <2>2. hid[c] = 0 /\ hid'[c] = nextId + 1 /\ hlife'[c] = crashes /\ nextId + 1 \in Nat \ {0}
    BY <2>1 DEF StreamInv
  <2>3. \A d \in Clients \ {c} : hid'[d] = hid[d] /\ hlife'[d] = hlife[d] /\ handler'[d] = handler[d]
    BY <2>1 DEF StreamInv
  <2>4. HidsKept
    BY <2>2, <2>3 DEF HidsKept
  <2>5. StreamInv'
    <3>1. /\ handler' \in [Clients -> {"none", "open", "asked", "done"}]
          /\ hid' \in [Clients -> Nat] /\ hlife' \in [Clients -> Nat]
          /\ table' \in [Conns -> SUBSET Clients]
          /\ nextId' \in Nat /\ crashes' \in Nat
      BY <2>1, <2>2 DEF StreamInv
    <3>2. \A d \in Clients :
            /\ handler'[d] = "none" => hid'[d] = 0
            /\ handler'[d] \in {"open", "asked"} => hid'[d] # 0
            /\ hid'[d] # 0 => hlife'[d] < crashes' \/ (hlife'[d] = crashes' /\ hid'[d] <= nextId')
            /\ local'[d] # "none" => lid'[d] = hid'[d] /\ hid'[d] # 0
      BY <2>1, <2>2, <2>3 DEF StreamInv
    <3>3. \A d \in Clients \ {c} : ~(hid'[d] = hid'[c] /\ hlife'[d] = hlife'[c])
      BY <2>2, <2>3 DEF StreamInv
    <3>4. \A d, e \in Clients : hid'[d] = hid'[e] /\ hid'[d] # 0 /\ hlife'[d] = hlife'[e] => d = e
      BY <2>3, <3>3 DEF StreamInv
    <3>5. \A k \in Conns : \A d \in table'[k] : hid'[d] # 0
      BY <2>1, <2>2, <2>3 DEF StreamInv
    <3>6. \A p \in delivered' : /\ p[1] \in Clients /\ p[2] \in Clients
                                /\ hid'[p[1]] = hid'[p[2]] /\ hid'[p[1]] # 0
      BY <2>1, <2>2, <2>3 DEF StreamInv
    <3> QED
      BY <2>1, <3>1, <3>2, <3>4, <3>5, <3>6 DEF StreamInv
  <2>6. WiresStep
    <3>1. Good(Frame("open", hid'[c], c), hid') /\ Frame("open", hid'[c], c) \in Messages
      BY <1>0, <2>2 DEF StreamInv
    <3>2. down' = Sent(down, origin, Frame("open", hid'[c], c)) /\ up' = up /\ conn' = conn
      BY <2>1, <2>2
    <3> QED
      BY <3>1, <3>2, SentFrames
  <2>7. SessionInv'
    BY <2>1, SessionKept
  <2> QED
    BY <2>4, <2>5, <2>6, <2>7, WiresKept
<1>3. CASE OpenStream(c) /\ handler'[c] # "open"
  <2>1. /\ ~conn[origin] /\ handler[c] = "none" /\ handler' = [handler EXCEPT ![c] = "done"]
        /\ nextId' = nextId + 1
        /\ down' = Sent(down, origin, Frame("open", nextId + 1, c))
        /\ UNCHANGED <<table, hid, hlife, conn, up, crashes, origin, sess, delivered, local, lid>>
    BY <1>3 DEF OpenStream, HandlerStep, StreamInv, agent, locals
  <2>2. down' = down
    BY <2>1 DEF Sent, Usable
  <2>3. StreamInv' /\ HidsKept
    BY <2>1 DEF StreamInv, HidsKept
  <2>4. SessionInv'
    BY <2>1, SessionKept
  <2>5. WireInv'
    BY <2>1, <2>2, <2>3, NoFrames, WiresKept DEF WireInv
  <2> QED
    BY <2>3, <2>4, <2>5
<1>4. CASE ClientSends(c)
  <2>1. /\ handler[c] = "open" /\ handler' = [handler EXCEPT ![c] = "asked"]
        /\ down' = Sent(down, hconn[c], Frame("data", hid[c], c))
        /\ UNCHANGED <<conn, up, crashes, nextId, origin, sess, table, hid, hlife, delivered,
                       local, lid>>
    BY <1>4 DEF ClientSends, HandlerStep, agent, locals
  <2>2. hid[c] # 0 /\ hid[c] \in Nat
    BY <2>1 DEF StreamInv
  <2>3. StreamInv' /\ HidsKept
    BY <2>1, <2>2 DEF StreamInv, HidsKept
  <2>4. WiresStep
    <3>1. Good(Frame("data", hid[c], c), hid') /\ Frame("data", hid[c], c) \in Messages
      BY <1>0, <2>1, <2>2
    <3> QED
      BY <2>1, <3>1, SentFrames
  <2>5. SessionInv'
    BY <2>1, SessionKept
  <2> QED
    BY <2>3, <2>4, <2>5, WiresKept
<1>5. CASE HandlerEnds(c)
  <2>1. /\ handler[c] \in {"open", "asked"} /\ handler' = [handler EXCEPT ![c] = "done"]
        /\ table' = [k \in Conns |-> table[k] \ {c}]
        /\ down' = Sent(down, hconn[c], Frame("close", hid[c], c))
        /\ UNCHANGED <<conn, up, crashes, nextId, origin, sess, hid, hlife, delivered,
                       local, lid>>
    BY <1>5 DEF HandlerEnds, agent, locals
  <2>2. hid[c] # 0 /\ hid[c] \in Nat
    BY <2>1 DEF StreamInv
  <2>3. StreamInv' /\ HidsKept
    BY <2>1, <2>2 DEF StreamInv, HidsKept
  <2>4. WiresStep
    <3>1. Good(Frame("close", hid[c], c), hid') /\ Frame("close", hid[c], c) \in Messages
      BY <1>0, <2>1, <2>2
    <3> QED
      BY <2>1, <3>1, SentFrames
  <2>5. SessionInv'
    BY <2>1, SessionKept
  <2> QED
    BY <2>3, <2>4, <2>5, WiresKept
<1> QED
  BY <1>1, <1>2, <1>3, <1>4, <1>5 DEF Client

\* Stop and the death of the process.
LEMMA StopsPreserve ==
  ASSUME FrameInv, StopListening \/ Stopping \/ Crash, UNCHANGED agent
  PROVE  FrameInv'
<1> USE DEF FrameInv
<1>1. CASE StopListening
  <2>1. WiresStep /\ \A k \in Conns : conn'[k] => conn[k]
    BY <1>1, CutFrames DEF StopListening
  <2>2. StreamInv' /\ HidsKept
    BY <1>1, StreamKept DEF StopListening, clients, agent, locals, StreamInv
  <2>3. SessionInv'
    BY <1>1, <2>1, SessionKept DEF StopListening
  <2> QED
    BY <2>1, <2>2, <2>3, WiresKept
<1>2. CASE CloseOrigins
  <2>1. WiresStep /\ \A k \in Conns : conn'[k] => conn[k] /\ k # origin
    <3>1. Cut({origin})
      BY <1>2 DEF CloseOrigins
    <3> QED
      BY <3>1, CutFrames
  <2>2. StreamInv' /\ HidsKept
    <3>1. table' \in [Conns -> SUBSET Clients] /\ \A k \in Conns : table'[k] \subseteq table[k]
      BY <1>2 DEF CloseOrigins, StreamInv
    <3> QED
      BY <1>2, <3>1, StreamKept DEF CloseOrigins, clients, agent, locals
  <2>3. SessionInv'
    BY <1>2, <2>1 DEF CloseOrigins, SessionInv, LiveSessionIsRegistered
  <2> QED
    BY <2>1, <2>2, <2>3, WiresKept
<1>3. CASE StopReturns
  <2>1. StreamInv' /\ HidsKept
    BY <1>3, StreamKept DEF StopReturns, clients, agent, locals, StreamInv
  <2>2. WireInv'
    BY <1>3, <2>1, NoFrames, WiresKept DEF StopReturns, wires, WireInv
  <2>3. SessionInv'
    BY <1>3, SessionKept DEF StopReturns, wires
  <2> QED
    BY <2>1, <2>2, <2>3
<1>4. CASE Crash
  <2>1. WiresStep /\ \A k \in Conns : ~conn'[k]
    <3>1. Cut(Conns)
      BY <1>4 DEF Crash
    <3> QED
      BY <3>1, CutFrames
  <2>2. /\ crashes' = crashes + 1 /\ nextId' = 0 /\ origin' = NoConn
        /\ sess' = [k \in Conns |-> IF sess[k] \in Live THEN "ended" ELSE sess[k]]
        /\ table' = [k \in Conns |-> {}]
        /\ handler' = [c \in Clients |-> IF handler[c] = "none" THEN "none" ELSE "done"]
        /\ UNCHANGED <<hid, hlife, delivered, local, lid>>
    BY <1>4 DEF Crash, agent, locals
  <2>3. StreamInv' /\ HidsKept
    BY <2>2 DEF StreamInv, HidsKept
  <2>4. SessionInv'
    BY <2>1, <2>2 DEF SessionInv, LiveSessionIsRegistered, NoConn
  <2> QED
    BY <2>1, <2>3, <2>4, WiresKept
<1> QED
  BY <1>1, <1>2, <1>3, <1>4 DEF Stopping

-----------------------------------------------------------------------------
\* Steps of the agent leave the relay alone; those below also every connection and
\* stream.
AgentElsewhere ==
  \/ StartOver \/ DialFails \/ ConnectionLost \/ OfferTaken \/ OfferDropped
  \/ \E c \in Clients : GatewaySticks(c)

LEMMA ElsewherePreserves ==
  ASSUME TunnelInv, AgentElsewhere, UNCHANGED relay
  PROVE  TunnelInv'
<1> USE DEF TunnelInv, FrameInv
<1>1. UNCHANGED <<wires, relay, wconn, local, lid>>
  BY DEF AgentElsewhere, StartOver, DialFails, ConnectionLost, OfferTaken, OfferDropped,
         GatewaySticks, locals
<1>2. StreamInv' /\ HidsKept
  BY <1>1, StreamKept DEF relay, StreamInv
<1>3. WireInv'
  BY <1>1, <1>2, NoFrames, WiresKept DEF wires, WireInv
<1>4. SessionInv'
  BY <1>1, SessionKept DEF relay, wires
<1> QED
  BY <1>1, <1>2, <1>3, <1>4

\* The worker reads a frame; an open frame starts the goroutine of a stream.
LEMMA ReceivePreserves ==
  ASSUME TunnelInv, AuthAccepted \/ ReceiveOpen \/ ReceiveData \/ ReceiveClose, UNCHANGED relay
  PROVE  TunnelInv'
<1> USE DEF TunnelInv, FrameInv
<1>1. /\ wconn \in Conns /\ down[wconn] # <<>> /\ down' = [down EXCEPT ![wconn] = Tail(@)]
      /\ UNCHANGED <<conn, up, wconn>>
  BY DEF AuthAccepted, ReceiveOpen, ReceiveData, ReceiveClose, Receives, Usable
<1>2. WiresStep
  BY <1>1, TakenFrames
<1>3. SessionInv'
  BY <1>1, SessionKept DEF relay
<1>4. StreamInv' /\ HidsKept
  <2>1. CASE ReceiveOpen
    <3> DEFINE f == Head(down[wconn])
    <3>1. /\ f.type = "open" /\ local' = [local EXCEPT ![f.of] = "running"]
          /\ lid' = [lid EXCEPT ![f.of] = f.id]
      BY <2>1 DEF ReceiveOpen, Receives
    <3>2. Good(f, hid)
      <4>1. down[wconn] \in Seq(Messages) /\ down[wconn] # <<>>
        BY <1>1 DEF WireInv
      <4>2. 1 \in 1 .. Len(down[wconn]) /\ f = down[wconn][1]
        BY <4>1
      <4>3. f = AuthOK \/ Good(f, hid)
        BY <1>1, <4>2 DEF WireInv
      <4>4. f # AuthOK
        BY <3>1 DEF AuthOK, Frame
      <4> QED
        BY <4>3, <4>4
    <3>3. f.of \in Clients /\ f.id = hid[f.of] /\ f.id # 0
      BY <3>2 DEF Good
    <3> HIDE DEF f
    <3>4. UNCHANGED <<handler, hid, hlife, table, nextId, crashes, delivered>>
      BY DEF relay
    <3> QED
      BY <3>1, <3>3, <3>4 DEF StreamInv, HidsKept
  <2>2. CASE AuthAccepted \/ ReceiveData \/ ReceiveClose
    <3>1. UNCHANGED <<local, lid>>
      BY <2>2 DEF AuthAccepted, ReceiveData, ReceiveClose, locals
    <3> QED
      BY <3>1, StreamKept DEF relay, StreamInv
  <2> QED
    BY <2>1, <2>2
<1> QED
  BY <1>1, <1>2, <1>3, <1>4, WiresKept

\* The goroutine of a stream sends under the id it was opened with.
LEMMA LocalPreserves ==
  ASSUME TunnelInv, NEW c \in Clients, LocalAnswers(c) \/ LocalEnds(c), UNCHANGED relay
  PROVE  TunnelInv'
<1> USE DEF TunnelInv, FrameInv
<1>1. PICK t \in {"data", "close"} :
        /\ up' = Sent(up, wconn, Frame(t, lid[c], c))
        /\ local[c] = "running" /\ UNCHANGED <<conn, down, wconn, lid>>
        /\ local' = local \/ local' = [local EXCEPT ![c] = "done"]
  BY DEF LocalAnswers, LocalEnds
<1>2. lid[c] = hid[c] /\ hid[c] # 0 /\ hid[c] \in Nat
  BY <1>1 DEF StreamInv
<1>3. Good(Frame(t, lid[c], c), hid') /\ Frame(t, lid[c], c) \in Messages
  BY <1>2 DEF Good, Frame, Messages, relay, clients
<1>4. WiresStep
  BY <1>1, <1>3, SentFrames
<1>5. StreamInv' /\ HidsKept
  <2>1. UNCHANGED <<handler, hid, hlife, table, nextId, crashes, delivered>>
    BY DEF relay
  <2> QED
    BY <1>1, <1>2, <2>1 DEF StreamInv, HidsKept
<1>6. SessionInv'
  BY <1>1, SessionKept DEF relay
<1> QED
  BY <1>1, <1>4, <1>5, <1>6, WiresKept

\* Connections that the agent closes, opens or loses.
LEMMA ConnectionsPreserve ==
  ASSUME TunnelInv,
         \/ StopAgent /\ UNCHANGED relay
         \/ Dial
         \/ \E k \in Conns : Break(k)
  PROVE  TunnelInv'
<1> USE DEF TunnelInv, FrameInv
<1>1. CASE (StopAgent /\ UNCHANGED relay) \/ \E k \in Conns : Break(k)
  <2>1. PICK ks : Cut(ks)
    BY <1>1 DEF StopAgent, Break
  <2>2. UNCHANGED <<relay, wconn, local, lid>>
    BY <1>1 DEF StopAgent, Break, agent, locals
  <2>3. WiresStep /\ \A k \in Conns : conn'[k] => conn[k]
    BY <2>1, CutFrames
  <2>4. StreamInv' /\ HidsKept
    BY <2>2, StreamKept DEF relay, StreamInv
  <2>5. SessionInv'
    BY <2>2, <2>3, SessionKept DEF relay
  <2> QED
    BY <2>2, <2>3, <2>4, <2>5, WiresKept
<1>2. CASE Dial
  <2>1. PICK k \in Conns :
          /\ sess[k] \notin Live /\ wconn' = k /\ conn' = [conn EXCEPT ![k] = TRUE]
          /\ UNCHANGED <<up, down, crashes, nextId, origin, sess, table, handler, hid, hlife,
                         delivered, local, lid>>
    BY <1>2 DEF Dial, Free, DialAnswered, locals
  <2>2. WiresStep
    BY <2>1, NoFrames DEF WireInv
  <2>3. StreamInv' /\ HidsKept
    BY <2>1, StreamKept DEF StreamInv
  <2>4. SessionInv'
    BY <2>1, SessionKept DEF WireInv, Live
  <2> QED
    BY <2>1, <2>2, <2>3, <2>4, WiresKept
<1> QED
  BY <1>1, <1>2

-----------------------------------------------------------------------------
LEMMA TunnelInvStep == TunnelInv /\ [Next]_vars => TunnelInv'
<1> SUFFICES ASSUME TunnelInv, [Next]_vars PROVE TunnelInv'
  OBVIOUS
<1>1. CASE RelayNext /\ UNCHANGED <<agent, breaks>>
  <2>1. FrameInv'
    BY <1>1, SessionPreserves, ClientPreserves, StopsPreserve DEF RelayNext, TunnelInv
  <2> QED
    BY <1>1, <2>1 DEF TunnelInv, agent
<1>2. CASE AgentNext /\ UNCHANGED <<relay, breaks>>
  BY <1>2, ElsewherePreserves, ReceivePreserves, LocalPreserves, ConnectionsPreserve
     DEF AgentNext, Worker, Serving, AgentElsewhere
<1>3. CASE (Dial /\ UNCHANGED breaks) \/ \E k \in Conns : Break(k)
  BY <1>3, ConnectionsPreserve
<1>4. CASE UNCHANGED vars
  <2>1. UNCHANGED <<wires, relay, wconn, local, lid>>
    BY <1>4 DEF vars, agent, locals
  <2>2. StreamInv' /\ HidsKept
    BY <2>1, StreamKept DEF relay, StreamInv, TunnelInv, FrameInv
  <2>3. WireInv'
    BY <2>1, <2>2, NoFrames, WiresKept DEF wires, WireInv, TunnelInv, FrameInv
  <2>4. SessionInv'
    BY <2>1, SessionKept DEF relay, wires, TunnelInv, FrameInv
  <2> QED
    BY <2>1, <2>2, <2>3, <2>4 DEF TunnelInv, FrameInv
<1> QED
  BY <1>1, <1>2, <1>3, <1>4 DEF Next

\* The invariant holds whatever clients, agent, gateways, network and crashes do.
THEOREM TunnelInvHolds == Spec => []TunnelInv
BY TunnelInvInit, TunnelInvStep, PTL DEF Spec

\* A session that serves on an open connection is the registered one, through
\* replacements, late clean-ups, Stop and crashes.
THEOREM TunnelLiveSession == Spec => []LiveSessionIsRegistered
<1>1. TunnelInv => LiveSessionIsRegistered
  BY DEF TunnelInv, FrameInv, SessionInv
<1> QED
  BY <1>1, TunnelInvHolds, PTL

\* Frames of two streams are never mixed up while the relay lives, however often the
\* agent reconnects and whatever its goroutines send late.
THEOREM TunnelStreamsApart == Spec => []StreamsApartWithinALife
<1>1. TunnelInv => StreamsApartWithinALife
  BY DEF TunnelInv, FrameInv, StreamInv, StreamsApartWithinALife
<1> QED
  BY <1>1, TunnelInvHolds, PTL
===============================================================================
