----------------------------- MODULE RelayMuxProofs -----------------------------
(***************************************************************************)
(* The data plane of a relay session implements one pipe per stream, for   *)
(* any set of streams, any channel and wire capacity and any number of     *)
(* chunks.  The invariant follows a stream's chunks through the places     *)
(* they pass on their way from the origin to the client: the wire, the     *)
(* reader's hands, the stream's channel, the writer.                       *)
(***************************************************************************)
EXTENDS RelayMux, SequenceTheorems, TLAPS

\* The chunk that the client has, or the writer writes, last.
Floor(s) == IF writer[s] = "write" THEN writing[s] ELSE Pipes!LastOf(got[s])

Holds(s) == loop = "offer" /\ held.s = s

Data(s, k) == wire[k].s = s /\ wire[k].n # 0

\* Wherever the chunks of a stream are, those that are further on are older.
InOrder(s) ==
  /\ writer[s] = "write" => writing[s] > Pipes!LastOf(got[s])
  /\ Floor(s) <= sent[s]
  /\ \A i \in 1..Len(ch[s]) :
       /\ Floor(s) < ch[s][i] /\ ch[s][i] <= sent[s]
       /\ \A j \in (i + 1)..Len(ch[s]) : ch[s][i] < ch[s][j]
  /\ Holds(s) =>
       /\ Floor(s) < held.n /\ held.n <= sent[s]
       /\ \A i \in 1..Len(ch[s]) : ch[s][i] < held.n
  /\ \A k \in 1..Len(wire) : Data(s, k) =>
       /\ Floor(s) < wire[k].n /\ wire[k].n <= sent[s]
       /\ \A i \in 1..Len(ch[s]) : ch[s][i] < wire[k].n
       /\ Holds(s) => held.n < wire[k].n
       /\ \A l \in (k + 1)..Len(wire) : Data(s, l) => wire[k].n < wire[l].n

\* While the client keeps its connection whole none is missing, as long as the
\* session can still bring more.
NoGap(s) ==
  client[s] = "open" =>
    /\ writer[s] = "write" => writing[s] = Pipes!LastOf(got[s]) + 1
    /\ \A i \in 1..Len(ch[s]) : ch[s][i] = Floor(s) + i
    /\ Holds(s) => held.n = Floor(s) + Len(ch[s]) + 1
    /\ ~SessionClosed =>
         \A n \in (Floor(s) + Len(ch[s]) + 1)..sent[s] :
           \/ Holds(s) /\ held.n = n
           \/ \E k \in 1..Len(wire) : wire[k].s = s /\ wire[k].n = n

\* Frames are sent for opened streams, and nothing follows a stream's StreamClose.
FramesOfOpened(s) ==
  /\ sent[s] > 0 \/ s \in finished => Opened(s)
  /\ \A k \in 1..Len(wire) : wire[k].s = s /\ wire[k].n = 0 =>
       /\ s \in finished
       /\ \A l \in (k + 1)..Len(wire) : wire[l].s # s

\* An opened stream leaves the table of a session in use, or is closed, only when
\* the reader has seen the last of its frames.
CutAfterLastFrame(s) ==
  client[s] = "open" /\ ~SessionClosed =>
    /\ handler[s] \in {"none", "picked"} => s \notin closed
    /\ handler[s] = "registered" => s \in table /\ s \notin closed
    /\ Opened(s) /\ (s \notin table \/ s \in closed) =>
         /\ s \in finished
         /\ ~Holds(s)
         /\ \A k \in 1..Len(wire) : wire[k].s # s

MuxInv ==
  /\ TypeOK
  /\ SessionClosed => wire = <<>>
  /\ \A s \in Streams :
       InOrder(s) /\ NoGap(s) /\ FramesOfOpened(s) /\ CutAfterLastFrame(s)

---------------------------------------------------------------------------
(* What sequences and the clause of a frame need to be taken apart.        *)

\* A frame is a chunk, a StreamClose or a Ping.
LEMMA HeadOfWire ==
  ASSUME TypeOK, wire # <<>>
  PROVE  /\ Head(wire) = wire[1] /\ wire[1] \in Frames
         /\ Tail(wire) \in Seq(Frames) /\ Len(Tail(wire)) = Len(wire) - 1
         /\ \A k \in 1..Len(Tail(wire)) : Tail(wire)[k] = wire[k + 1]
BY HeadTailProperties DEF TypeOK

\* What is on the wire is a frame.
LEMMA FrameOnWire ==
  ASSUME TypeOK, NEW k \in 1..Len(wire)
  PROVE  wire[k] \in Frames /\ wire[k].n \in Nat
<1>1. wire[k] \in Frames
  BY ElementOfSeq DEF TypeOK
<1> QED
  BY <1>1 DEF Frames, Ping

\* A frame that is no Ping is some stream's, and a Ping is nobody's.
LEMMA FrameOfStream ==
  /\ \A f \in Frames : f # Ping => f \in [s : Streams, n : Nat]
  /\ Ping.s \notin Streams /\ Ping \in Frames /\ Ping.n = 0
BY StreamsAssumption DEF Frames, Ping

\* The streams start with their types.
LEMMA TypeInit == Init => TypeOK
BY BoundsAssumption DEF Init, TypeOK, Frames

\* What a handler does, whether its write to the origin returns or blocks.
HandlerMoves(s) == Handler(s) \/ HandlerReads(s) \/ HandlerSent(s) \/ HandlerBlocks(s)

\* A handler's step keeps the types.
LEMMA HandlerKeepsTypes ==
  ASSUME TypeOK, NEW s \in Streams, HandlerMoves(s)
  PROVE  TypeOK'
<1> USE DEF TypeOK, HandlerStep, WriterStep, SendDone, CleanUp, origin, reader, streams, writers
<1>1. CASE PickSession(s)      BY <1>1 DEF PickSession
<1>2. CASE Register(s)         BY <1>2 DEF Register
<1>3. CASE NotifyOpen(s)       BY <1>3 DEF NotifyOpen
<1>4. CASE NotifyFails(s)      BY <1>4 DEF NotifyFails
<1>5. CASE HandlerReads(s)     BY <1>5 DEF HandlerReads
<1>6. CASE Forwarded(s)        BY <1>6 DEF Forwarded
<1>7. CASE ForwardFails(s)     BY <1>7 DEF ForwardFails
<1>8. CASE HandlerReadEnds(s)  BY <1>8 DEF HandlerReadEnds
<1>9. CASE HandlerCloses(s)    BY <1>9, BoundsAssumption DEF HandlerCloses
<1>10. CASE HandlerDone(s)     BY <1>10 DEF HandlerDone
<1>11. CASE HandlerBlocks(s)   BY <1>11 DEF HandlerBlocks, WriteBlocks
<1> QED
  BY <1>1, <1>2, <1>3, <1>4, <1>5, <1>6, <1>7, <1>8, <1>9, <1>10, <1>11
     DEF HandlerMoves, Handler, HandlerSent

\* A writer's step keeps the types; what it writes is a chunk.
LEMMA WriterKeepsTypes ==
  ASSUME TypeOK, NEW s \in Streams, InOrder(s), Writer(s) \/ WriteDone(s)
  PROVE  TypeOK'
<1> USE DEF TypeOK, WriterStep, origin, reader, streams, writers
<1>1. CASE WriterTakes(s)
  <2>1. /\ Head(ch[s]) \in Nat \ {0}
        /\ Tail(ch[s]) \in Seq(Nat \ {0}) /\ Len(Tail(ch[s])) = Len(ch[s]) - 1
    BY <1>1, HeadTailProperties DEF WriterTakes
  <2>2. ch' \in [Streams -> Seq(Nat \ {0})] /\ \A x \in Streams : Len(ch'[x]) <= Capacity
    <3>1. ch' = [ch EXCEPT ![s] = Tail(ch[s])] /\ Len(ch[s]) \in Nat /\ Capacity \in Nat
      BY <1>1, BoundsAssumption DEF WriterTakes
    <3> QED
      BY <2>1, <3>1
  <2>3. writing' \in [Streams -> Nat]
    BY <1>1, <2>1 DEF WriterTakes
  <2>4. writer' \in [Streams -> {"none", "select", "write", "exited"}]
    BY <1>1 DEF WriterTakes
  <2> QED
    BY <1>1, <2>2, <2>3, <2>4 DEF WriterTakes
<1>2. CASE WriterStops(s)   BY <1>2 DEF WriterStops
<1>3. CASE WriteFails(s)    BY <1>3 DEF WriteFails
<1>4. CASE WriteDone(s)
  <2>1. Pipes!LastOf(got[s]) \in Nat
    BY DEF Pipes!LastOf, Pipes!Last
  <2>2. writing[s] \in Nat \ {0}
    BY <1>4, <2>1 DEF WriteDone, InOrder
  <2>3. Append(got[s], writing[s]) \in Seq(Nat \ {0})
    BY <2>2
  <2> QED
    BY <1>4, <2>3 DEF WriteDone
<1> QED
  BY <1>1, <1>2, <1>3, <1>4 DEF Writer

\* A step of the session's reader keeps the types.
LEMMA ReaderKeepsTypes ==
  ASSUME TypeOK, Dispatch \/ PongDone \/ ReaderBlocks \/ ReadFails
  PROVE  TypeOK'
<1> USE DEF TypeOK, origin, reader, streams, writers
<1>1. CASE ReadData
  <2>1. Head(wire) \in Chunks
    BY <1>1, HeadOfWire DEF ReadData, IsChunk, Frames, Ping, Chunks
  <2> QED
    BY <1>1, <2>1, HeadOfWire, BoundsAssumption DEF ReadData
<1>2. CASE ReadClose
  <2>1. wire' \in Seq(Frames) /\ Len(wire') <= WireCapacity
    <3>1. wire' = Tail(wire) /\ wire # <<>>
      BY <1>2 DEF ReadClose
    <3>2. wire' \in Seq(Frames) /\ Len(wire') = Len(wire) - 1
      BY <3>1, HeadOfWire
    <3> QED
      BY <3>2, BoundsAssumption
  <2>2. table' \subseteq Streams /\ closed' \subseteq Streams
    BY <1>2 DEF ReadClose
  <2> QED
    BY <1>2, <2>1, <2>2 DEF ReadClose
<1>3. CASE Enqueue
  <2>1. held.s \in Streams /\ held.n \in Nat \ {0}
    BY <1>3 DEF Enqueue, Chunks
  <2>2. /\ Append(ch[held.s], held.n) \in Seq(Nat \ {0})
        /\ Len(Append(ch[held.s], held.n)) = Len(ch[held.s]) + 1
    BY <2>1
  <2>3. ch' \in [Streams -> Seq(Nat \ {0})] /\ \A s \in Streams : Len(ch'[s]) <= Capacity
    <3>1. /\ ch' = [ch EXCEPT ![held.s] = Append(ch[held.s], held.n)]
          /\ Len(ch[held.s]) < Capacity /\ Len(ch[held.s]) \in Nat /\ Capacity \in Nat
      BY <1>3, <2>1, BoundsAssumption DEF Enqueue
    <3>2. ch' \in [Streams -> Seq(Nat \ {0})]
      BY <2>1, <2>2, <3>1
    <3>3. ASSUME NEW s \in Streams
          PROVE  Len(ch'[s]) <= Capacity
      <4>1. CASE s = held.s
        BY <2>1, <2>2, <3>1, <4>1
      <4>2. CASE s # held.s
        BY <2>1, <3>1, <4>2
      <4> QED
        BY <4>1, <4>2
    <3> QED
      BY <3>2, <3>3
  <2> QED
    BY <1>3, <2>3 DEF Enqueue
<1>4. CASE DropClosed
  BY <1>4 DEF DropClosed
<1>5. CASE OfferInterrupted \/ ReadFails
  <2>1. wire' = <<>>
    BY <1>5 DEF OfferInterrupted, ReadFails, LoopEnds
  <2>2. wire' \in Seq(Frames) /\ Len(wire') <= WireCapacity
    BY <2>1, EmptySeq, BoundsAssumption
  <2> QED
    BY <1>5, <2>2 DEF OfferInterrupted, ReadFails, LoopEnds
<1>6. CASE ReadPing
  <2>1. wire' \in Seq(Frames) /\ Len(wire') <= WireCapacity
    <3>1. wire' = Tail(wire) /\ wire # <<>>
      BY <1>6 DEF ReadPing
    <3>2. wire' \in Seq(Frames) /\ Len(wire') = Len(wire) - 1
      BY <3>1, HeadOfWire
    <3> QED
      BY <3>2, BoundsAssumption
  <2> QED
    BY <1>6, <2>1 DEF ReadPing
<1>7. CASE PongDone
  BY <1>7 DEF PongDone
<1>8. CASE ReaderBlocks
  BY <1>8 DEF ReaderBlocks, WriteBlocks
<1> QED
  BY <1>1, <1>2, <1>3, <1>4, <1>5, <1>6, <1>7, <1>8 DEF Dispatch

\* Closing the session and what the environment does keep the types.
LEMMA OthersKeepTypes ==
  ASSUME TypeOK, \/ StopBegins \/ CloseSession \/ CloseStreams \/ SendPing
                 \/ \E s \in Streams : Environment(s)
  PROVE  TypeOK'
<1> USE DEF TypeOK, origin, reader, streams, writers
<1>1. CASE StopBegins     BY <1>1 DEF StopBegins
<1>2. CASE CloseSession   BY <1>2, BoundsAssumption DEF CloseSession
<1>3. CASE CloseStreams   BY <1>3 DEF CloseStreams
<1>4. ASSUME NEW s \in Streams, Produce(s)
      PROVE  TypeOK'
  <2>1. [s |-> s, n |-> sent'[s]] \in Frames
    BY <1>4 DEF Produce, Frames
  <2>2. wire' \in Seq(Frames) /\ Len(wire') <= WireCapacity
    BY <1>4, <2>1, BoundsAssumption DEF Produce
  <2>3. sent' \in [Streams -> Nat] /\ \A x \in Streams : sent'[x] <= MaxChunks[x]
    <3>1. sent[s] \in Nat /\ MaxChunks[s] \in Nat /\ sent[s] < MaxChunks[s]
      BY <1>4, BoundsAssumption DEF Produce
    <3>2. sent' = [sent EXCEPT ![s] = sent[s] + 1]
      BY <1>4 DEF Produce
    <3>3. sent' \in [Streams -> Nat]
      BY <3>1, <3>2
    <3>4. ASSUME NEW x \in Streams
          PROVE  sent'[x] <= MaxChunks[x]
      <4>1. CASE x = s
        BY <3>1, <3>2, <4>1
      <4>2. CASE x # s
        BY <3>2, <4>2
      <4> QED
        BY <4>1, <4>2
    <3> QED
      BY <3>3, <3>4
  <2> QED
    BY <1>4, <2>2, <2>3 DEF Produce
<1>5. ASSUME NEW s \in Streams, Finish(s)
      PROVE  TypeOK'
  <2>1. [s |-> s, n |-> 0] \in Frames
    BY DEF Frames
  <2>2. wire' \in Seq(Frames) /\ Len(wire') <= WireCapacity
    BY <1>5, <2>1, BoundsAssumption DEF Finish
  <2> QED
    BY <1>5, <2>2 DEF Finish
<1>6. ASSUME NEW s \in Streams, HalfClose(s) \/ Leave(s)
      PROVE  TypeOK'
  BY <1>6 DEF HalfClose, Leave
<1>7. CASE SendPing
  <2>1. wire' \in Seq(Frames) /\ Len(wire') <= WireCapacity
    BY <1>7, FrameOfStream, BoundsAssumption DEF SendPing
  <2> QED
    BY <1>7, <2>1 DEF SendPing
<1> QED
  BY <1>1, <1>2, <1>3, <1>4, <1>5, <1>6, <1>7 DEF Environment

---------------------------------------------------------------------------
(* One stream's chunks under one step.                                     *)

\* The last chunk a client has is a number.
LEMMA FloorIsNat ==
  ASSUME TypeOK, NEW x \in Streams
  PROVE  /\ Pipes!LastOf(got[x]) \in Nat /\ Floor(x) \in Nat /\ sent[x] \in Nat
         /\ ch[x] \in Seq(Nat \ {0})
BY DEF TypeOK, Floor, Pipes!LastOf, Pipes!Last

\* Chunks that are lost leave the others in order.
LEMMA LosingKeepsOrder ==
  ASSUME TypeOK, NEW x \in Streams, InOrder(x),
         sent'[x] = sent[x], got'[x] = got[x],
         writer'[x] = "write" => writer[x] = "write" /\ writing'[x] = writing[x],
         ch'[x] \in {ch[x], <<>>}, wire' \in {wire, <<>>},
         Holds(x)' => Holds(x) /\ held'.n = held.n
  PROVE  InOrder(x)'
<1>1. Floor(x)' \in Nat /\ Floor(x)' <= Floor(x)
  BY FloorIsNat DEF InOrder, Floor
<1>2. (writer[x] = "write" => writing[x] > Pipes!LastOf(got[x]))' /\ Floor(x)' <= sent'[x]
  BY <1>1, FloorIsNat DEF InOrder
<1>3. ASSUME NEW i \in 1..Len(ch'[x])
      PROVE  /\ i \in 1..Len(ch[x]) /\ ch'[x][i] = ch[x][i] /\ ch[x][i] \in Nat
             /\ Floor(x)' < ch'[x][i] /\ ch'[x][i] <= sent'[x]
             /\ \A j \in (i + 1)..Len(ch'[x]) : ch'[x][i] < ch'[x][j]
  <2>1. ch'[x] = ch[x]
    BY <1>3
  <2>2. i \in 1..Len(ch[x]) /\ ch[x][i] \in Nat
    BY <1>3, <2>1, FloorIsNat
  <2> QED
    BY <1>1, <2>1, <2>2, FloorIsNat DEF InOrder
<1>4. (Holds(x) => /\ Floor(x) < held.n /\ held.n <= sent[x]
                   /\ \A i \in 1..Len(ch[x]) : ch[x][i] < held.n)'
  <2>1. Holds(x)' => held.n \in Nat
    BY DEF TypeOK, Chunks, Holds
  <2> QED
    BY <1>1, <1>3, <2>1, FloorIsNat DEF InOrder
<1>5. ASSUME NEW k \in 1..Len(wire'), Data(x, k)'
      PROVE  /\ Floor(x)' < wire'[k].n /\ wire'[k].n <= sent'[x]
             /\ \A i \in 1..Len(ch'[x]) : ch'[x][i] < wire'[k].n
             /\ Holds(x)' => held'.n < wire'[k].n
             /\ \A l \in (k + 1)..Len(wire') : Data(x, l)' => wire'[k].n < wire'[l].n
  <2>1. wire' = wire /\ k \in 1..Len(wire) /\ Data(x, k)
    BY <1>5 DEF Data
  <2>2. wire[k].n \in Nat /\ Floor(x) \in Nat
    BY <2>1, FrameOnWire, FloorIsNat
  <2>3. /\ Floor(x) < wire[k].n /\ wire[k].n <= sent[x]
        /\ \A i \in 1..Len(ch[x]) : ch[x][i] < wire[k].n
        /\ Holds(x) => held.n < wire[k].n
        /\ \A l \in (k + 1)..Len(wire) : Data(x, l) => wire[k].n < wire[l].n
    BY <2>1 DEF InOrder
  <2>4. Floor(x)' < wire'[k].n /\ wire'[k].n <= sent'[x]
    BY <1>1, <2>1, <2>2, <2>3
  <2>5. \A i \in 1..Len(ch'[x]) : ch'[x][i] < wire'[k].n
    BY <1>3, <2>1, <2>3
  <2>6. \A l \in (k + 1)..Len(wire') : Data(x, l)' => wire'[k].n < wire'[l].n
    BY <2>1, <2>3 DEF Data
  <2> QED
    BY <2>1, <2>3, <2>4, <2>5, <2>6
<1> QED
  BY <1>2, <1>3, <1>4, <1>5 DEF InOrder

\* No gap opens while a stream's chunks stay where they are, or once the session
\* can bring no more.
LEMMA StayingKeepsNoGap ==
  ASSUME TypeOK, NEW x \in Streams, NoGap(x),
         client'[x] = "open" =>
           /\ client[x] = "open"
           /\ sent'[x] = sent[x] /\ got'[x] = got[x] /\ ch'[x] = ch[x]
           /\ writing'[x] = writing[x] /\ (writer'[x] = "write" <=> writer[x] = "write")
           /\ Holds(x)' => Holds(x) /\ held'.n = held.n
           /\ SessionClosed' \/ (~SessionClosed /\ wire' = wire /\ (Holds(x) => Holds(x)'))
  PROVE  NoGap(x)'
<1> SUFFICES ASSUME client'[x] = "open"
             PROVE  NoGap(x)'
  BY DEF NoGap
<1>1. Floor(x)' = Floor(x)
  BY DEF Floor
<1>2. CASE SessionClosed'
  BY <1>1, <1>2 DEF NoGap
<1>3. CASE ~SessionClosed'
  <2>1. ~SessionClosed /\ wire' = wire /\ (Holds(x)' <=> Holds(x)) /\ (Holds(x) => held'.n = held.n)
    BY <1>3
  <2> QED
    BY <1>1, <2>1 DEF NoGap
<1> QED
  BY <1>2, <1>3

\* Whose frames are on the wire does not change when nothing is sent.
LEMMA StayingKeepsFrames ==
  ASSUME NEW x \in Streams, FramesOfOpened(x),
         sent'[x] = sent[x], finished' = finished, wire' \in {wire, <<>>},
         Opened(x) => Opened(x)'
  PROVE  FramesOfOpened(x)'
BY DEF FramesOfOpened

\* What a step does to the streams it is not about.
Untouched(x) ==
  /\ sent'[x] = sent[x] /\ got'[x] = got[x] /\ ch'[x] = ch[x]
  /\ writing'[x] = writing[x] /\ writer'[x] = writer[x]
  /\ client'[x] = client[x] /\ handler'[x] = handler[x]
  /\ x \in finished' <=> x \in finished

\* A handler's and a writer's steps leave the other streams alone, and nothing on
\* the wire or in the reader's hands is theirs.
StreamStep(s) ==
  /\ UNCHANGED <<origin, wire, session, reader>>
  /\ \A x \in Streams : x # s =>
       /\ Untouched(x)
       /\ (x \in table <=> x \in table') /\ (x \in closed <=> x \in closed')

FlowInv(x) == InOrder(x) /\ NoGap(x) /\ FramesOfOpened(x) /\ CutAfterLastFrame(x)

\* What does not concern a stream keeps its part of the invariant.
LEMMA OtherStreamsFlow ==
  ASSUME TypeOK, NEW s \in Streams, StreamStep(s), NEW x \in Streams, x # s, FlowInv(x)
  PROVE  FlowInv(x)'
<1> USE DEF StreamStep, Untouched, origin, reader, Holds, SessionClosed, Opened
<1>1. InOrder(x)'
  BY LosingKeepsOrder DEF FlowInv
<1>2. NoGap(x)'
  BY StayingKeepsNoGap DEF FlowInv
<1>3. FramesOfOpened(x)'
  BY StayingKeepsFrames DEF FlowInv
<1>4. CutAfterLastFrame(x)'
  BY DEF FlowInv, CutAfterLastFrame
<1> QED
  BY <1>1, <1>2, <1>3, <1>4 DEF FlowInv

\* A handler moves its stream on and never takes a chunk from a client that keeps
\* its connection whole.
LEMMA HandlerKeepsFlow ==
  ASSUME TypeOK, NEW s \in Streams, FlowInv(s), HandlerMoves(s)
  PROVE  FlowInv(s)' /\ StreamStep(s)
<1> USE DEF HandlerStep, WriterStep, SendDone, CleanUp, origin, reader, streams, writers, SessionClosed
<1>1. StreamStep(s)
  <2> USE DEF StreamStep, Untouched, TypeOK
  <2>1. CASE PickSession(s)      BY <2>1 DEF PickSession
  <2>2. CASE Register(s)         BY <2>2 DEF Register
  <2>3. CASE NotifyOpen(s)       BY <2>3 DEF NotifyOpen
  <2>4. CASE NotifyFails(s)      BY <2>4 DEF NotifyFails
  <2>5. CASE HandlerReads(s)     BY <2>5 DEF HandlerReads
  <2>6. CASE Forwarded(s)        BY <2>6 DEF Forwarded
  <2>7. CASE ForwardFails(s)     BY <2>7 DEF ForwardFails
  <2>8. CASE HandlerReadEnds(s)  BY <2>8 DEF HandlerReadEnds
  <2>9. CASE HandlerCloses(s)    BY <2>9 DEF HandlerCloses
  <2>10. CASE HandlerDone(s)     BY <2>10 DEF HandlerDone
  <2>11. CASE HandlerBlocks(s)   BY <2>11 DEF HandlerBlocks, WriteBlocks
  <2> QED
    BY <2>1, <2>2, <2>3, <2>4, <2>5, <2>6, <2>7, <2>8, <2>9, <2>10, <2>11
       DEF HandlerMoves, Handler, HandlerSent
<1>2. /\ got' = got /\ writing' = writing
      /\ writer'[s] = "write" <=> writer[s] = "write"
      /\ ch'[s] \in {ch[s], <<>>}
      /\ client'[s] = "open" => client[s] = "open" /\ ch'[s] = ch[s]
      /\ Opened(s) => Opened(s)'
  <2> USE DEF TypeOK, Opened
  <2>1. CASE PickSession(s)      BY <2>1 DEF PickSession
  <2>2. CASE Register(s)         BY <2>2 DEF Register
  <2>3. CASE NotifyOpen(s)       BY <2>3 DEF NotifyOpen
  <2>4. CASE NotifyFails(s)      BY <2>4 DEF NotifyFails
  <2>5. CASE HandlerReads(s)     BY <2>5 DEF HandlerReads
  <2>6. CASE Forwarded(s)        BY <2>6 DEF Forwarded
  <2>7. CASE ForwardFails(s)     BY <2>7 DEF ForwardFails
  <2>8. CASE HandlerReadEnds(s)  BY <2>8 DEF HandlerReadEnds
  <2>9. CASE HandlerCloses(s)    BY <2>9 DEF HandlerCloses
  <2>10. CASE HandlerDone(s)     BY <2>10 DEF HandlerDone
  <2>11. CASE HandlerBlocks(s)   BY <2>11 DEF HandlerBlocks, WriteBlocks
  <2> QED
    BY <2>1, <2>2, <2>3, <2>4, <2>5, <2>6, <2>7, <2>8, <2>9, <2>10, <2>11
       DEF HandlerMoves, Handler, HandlerSent
<1>3. InOrder(s)'
  BY <1>1, <1>2, LosingKeepsOrder DEF FlowInv, StreamStep, Holds
<1>4. NoGap(s)'
  BY <1>1, <1>2, StayingKeepsNoGap DEF FlowInv, StreamStep, Holds
<1>5. FramesOfOpened(s)'
  BY <1>1, <1>2, StayingKeepsFrames DEF FlowInv, StreamStep
<1>6. CutAfterLastFrame(s)'
  <2> USE DEF FlowInv, CutAfterLastFrame, TypeOK, Opened, Holds
  <2>1. CASE PickSession(s)      BY <2>1 DEF PickSession
  <2>2. CASE Register(s)         BY <2>2 DEF Register
  <2>3. CASE NotifyOpen(s)       BY <2>3 DEF NotifyOpen
  <2>4. CASE NotifyFails(s)      BY <2>4 DEF NotifyFails
  <2>5. CASE HandlerReads(s)     BY <2>5 DEF HandlerReads
  <2>6. CASE Forwarded(s)        BY <2>6 DEF Forwarded
  <2>7. CASE ForwardFails(s)     BY <2>7 DEF ForwardFails
  <2>8. CASE HandlerReadEnds(s)  BY <2>8 DEF HandlerReadEnds
  <2>9. CASE HandlerCloses(s)    BY <2>9 DEF HandlerCloses
  <2>10. CASE HandlerDone(s)     BY <2>10 DEF HandlerDone
  <2>11. CASE HandlerBlocks(s)   BY <2>11 DEF HandlerBlocks, WriteBlocks
  <2> QED
    BY <2>1, <2>2, <2>3, <2>4, <2>5, <2>6, <2>7, <2>8, <2>9, <2>10, <2>11
       DEF HandlerMoves, Handler, HandlerSent
<1> QED
  BY <1>1, <1>3, <1>4, <1>5, <1>6 DEF FlowInv

\* A writer takes the oldest chunk of its channel, and gives the client the one it
\* took.
LEMMA WriterKeepsFlow ==
  ASSUME TypeOK, NEW s \in Streams, FlowInv(s), Writer(s) \/ WriteDone(s)
  PROVE  FlowInv(s)' /\ StreamStep(s)
<1> USE DEF WriterStep, origin, reader, streams, writers
<1>1. StreamStep(s)
  <2> USE DEF StreamStep, Untouched, TypeOK
  <2>1. CASE WriterTakes(s)   BY <2>1 DEF WriterTakes
  <2>2. CASE WriterStops(s)   BY <2>2 DEF WriterStops
  <2>3. CASE WriteFails(s)    BY <2>3 DEF WriteFails
  <2>4. CASE WriteDone(s)     BY <2>4 DEF WriteDone
  <2> QED
    BY <2>1, <2>2, <2>3, <2>4 DEF Writer
<1>2. /\ handler' = handler /\ client' = client /\ UNCHANGED <<table, closed>>
      /\ writer \in [Streams -> {"none", "select", "write", "exited"}]
      /\ writing \in [Streams -> Nat] /\ ch \in [Streams -> Seq(Nat \ {0})]
      /\ got \in [Streams -> Seq(Nat \ {0})]
  BY DEF TypeOK, Writer, WriterTakes, WriterStops, WriteFails, WriteDone
<1>3. FramesOfOpened(s)' /\ CutAfterLastFrame(s)'
  BY <1>1, <1>2, StayingKeepsFrames
     DEF FlowInv, CutAfterLastFrame, StreamStep, Opened, SessionClosed, Holds
<1>4. CASE WriterTakes(s)
  <2>1. /\ ch[s] # <<>> /\ Head(ch[s]) = ch[s][1] /\ Head(ch[s]) \in Nat
        /\ Len(Tail(ch[s])) = Len(ch[s]) - 1 /\ Tail(ch[s]) \in Seq(Nat \ {0})
        /\ \A i \in 1..Len(Tail(ch[s])) : Tail(ch[s])[i] = ch[s][i + 1]
    BY <1>2, <1>4, HeadTailProperties DEF WriterTakes
  <2>2. /\ writer[s] = "select" /\ Floor(s) = Pipes!LastOf(got[s])
        /\ Floor(s)' = ch[s][1] /\ writing'[s] = ch[s][1] /\ got' = got /\ ch'[s] = Tail(ch[s])
    BY <1>2, <1>4, <2>1 DEF WriterTakes, Floor
  <2>3. Len(ch[s]) \in Nat /\ Len(ch[s]) >= 1 /\ \A i \in 1..Len(ch[s]) : ch[s][i] \in Nat
    BY <1>2, <2>1
  <2>4. InOrder(s)'
    <3>1. (writer[s] = "write" => writing[s] > Pipes!LastOf(got[s]))' /\ Floor(s)' <= sent'[s]
      BY <1>1, <2>2, <2>3 DEF FlowInv, InOrder, StreamStep
    <3>2. ASSUME NEW i \in 1..Len(ch'[s])
          PROVE  /\ i + 1 \in 1..Len(ch[s]) /\ ch'[s][i] = ch[s][i + 1]
                 /\ Floor(s)' < ch'[s][i] /\ ch'[s][i] <= sent'[s]
                 /\ \A j \in (i + 1)..Len(ch'[s]) : ch'[s][i] < ch'[s][j]
      <4>1. i + 1 \in 1..Len(ch[s]) /\ ch'[s][i] = ch[s][i + 1]
        BY <2>1, <2>2, <2>3, <3>2
      <4>2. ASSUME NEW j \in (i + 1)..Len(ch'[s])
            PROVE  ch'[s][i] < ch'[s][j]
        <5>1. j \in 1..Len(ch'[s]) /\ j \in Int /\ i \in Int /\ j >= i + 1
          BY <2>3, <4>1
        <5>2. j + 1 \in (i + 2)..Len(ch[s])
          BY <2>1, <2>2, <2>3, <5>1
        <5>3. ch'[s][j] = ch[s][j + 1]
          BY <2>1, <2>2, <5>1
        <5> QED
          BY <2>3, <4>1, <5>2, <5>3 DEF FlowInv, InOrder
      <4>3. 1 \in 1..Len(ch[s]) /\ i + 1 \in (1 + 1)..Len(ch[s])
        BY <2>3, <4>1
      <4> QED
        BY <1>1, <2>2, <4>1, <4>2, <4>3 DEF FlowInv, InOrder, StreamStep
    <3>3. (Holds(s) => /\ Floor(s) < held.n /\ held.n <= sent[s]
                       /\ \A i \in 1..Len(ch[s]) : ch[s][i] < held.n)'
      BY <1>1, <2>2, <2>3, <3>2 DEF FlowInv, InOrder, StreamStep, Holds, reader, origin
    <3>4. ASSUME NEW k \in 1..Len(wire'), Data(s, k)'
          PROVE  /\ Floor(s)' < wire'[k].n /\ wire'[k].n <= sent'[s]
                 /\ \A i \in 1..Len(ch'[s]) : ch'[s][i] < wire'[k].n
                 /\ Holds(s)' => held'.n < wire'[k].n
                 /\ \A l \in (k + 1)..Len(wire') : Data(s, l)' => wire'[k].n < wire'[l].n
      <4>1. wire' = wire /\ k \in 1..Len(wire) /\ Data(s, k)
        BY <1>1, <3>4 DEF StreamStep, Data
      <4>2. /\ wire[k].n <= sent[s] /\ \A i \in 1..Len(ch[s]) : ch[s][i] < wire[k].n
            /\ Holds(s) => held.n < wire[k].n
            /\ \A l \in (k + 1)..Len(wire) : Data(s, l) => wire[k].n < wire[l].n
        BY <4>1 DEF FlowInv, InOrder
      <4>3. UNCHANGED <<sent, wire, loop, held>>
        BY <1>1 DEF StreamStep, reader, origin
      <4>4. \A l : Data(s, l)' <=> Data(s, l)
        BY <4>3 DEF Data
      <4> QED
        BY <2>2, <2>3, <3>2, <4>2, <4>3, <4>4 DEF Holds
    <3> QED
      BY <3>1, <3>2, <3>3, <3>4 DEF InOrder
  <2>5. NoGap(s)'
    <3> SUFFICES ASSUME client'[s] = "open"
                 PROVE  NoGap(s)'
      BY DEF NoGap
    <3>1. /\ ch[s][1] = Floor(s) + 1 /\ Floor(s)' = Floor(s) + 1
          /\ \A i \in 1..Len(ch[s]) : ch[s][i] = Floor(s) + i
      BY <1>2, <2>2, <2>3 DEF FlowInv, NoGap
    <3>2. ASSUME NEW i \in 1..Len(ch'[s])
          PROVE  ch'[s][i] = Floor(s)' + i
      <4>1. i + 1 \in 1..Len(ch[s]) /\ ch'[s][i] = ch[s][i + 1]
        BY <2>1, <2>2, <2>3
      <4>2. Floor(s) \in Nat /\ i \in Nat
        BY <2>1, <2>2, FloorIsNat
      <4>3. ch[s][i + 1] = Floor(s) + (i + 1) /\ Floor(s)' = Floor(s) + 1
        BY <3>1, <4>1
      <4> QED
        BY <4>1, <4>2, <4>3
    <3>3. Floor(s)' + Len(ch'[s]) = Floor(s) + Len(ch[s])
      BY <2>1, <2>2, <2>3, <3>1, FloorIsNat
    <3>4. writing'[s] = Pipes!LastOf(got'[s]) + 1
      BY <2>2, <3>1
    <3>5. UNCHANGED <<sent, wire, loop, held, session>> /\ client[s] = "open"
      BY <1>1, <1>2 DEF StreamStep
    <3> QED
      BY <3>2, <3>3, <3>4, <3>5 DEF FlowInv, NoGap, Holds, SessionClosed
  <2> QED
    BY <1>1, <1>3, <2>4, <2>5 DEF FlowInv
<1>5. CASE WriterStops(s)
  <2>1. /\ UNCHANGED <<got, ch, writing>> /\ writer[s] # "write" /\ writer'[s] # "write"
    BY <1>2, <1>5 DEF WriterStops
  <2> QED
    BY <1>1, <1>2, <1>3, <2>1, LosingKeepsOrder, StayingKeepsNoGap
       DEF FlowInv, StreamStep, Holds, SessionClosed
<1>6. CASE WriteFails(s)
  <2>1. UNCHANGED <<got, ch>> /\ writer'[s] # "write" /\ client[s] # "open"
    BY <1>2, <1>6 DEF WriteFails
  <2> QED
    BY <1>1, <1>2, <1>3, <2>1, LosingKeepsOrder, StayingKeepsNoGap
       DEF FlowInv, StreamStep, Holds, SessionClosed
<1>7. CASE WriteDone(s)
  <2>1. /\ writer[s] = "write" /\ writer'[s] = "select" /\ ch' = ch
        /\ got'[s] = Append(got[s], writing[s]) /\ Floor(s) = writing[s]
    BY <1>2, <1>7 DEF WriteDone, Floor
  <2>2. Pipes!LastOf(got'[s]) = writing[s]
    <3>1. got[s] \in Seq(Nat) /\ writing[s] \in Nat
      BY <1>2
    <3>2. /\ got'[s] # <<>> /\ Len(got'[s]) = Len(got[s]) + 1
          /\ got'[s][Len(got[s]) + 1] = writing[s]
      BY <2>1, <3>1, AppendProperties
    <3> QED
      BY <3>2 DEF Pipes!LastOf, Pipes!Last
  <2>3. Floor(s)' = Floor(s)
    BY <2>1, <2>2 DEF Floor
  <2>4. InOrder(s)'
    BY <1>1, <2>1, <2>3 DEF FlowInv, InOrder, StreamStep, Holds, Data
  <2>5. NoGap(s)'
    BY <1>1, <1>2, <2>1, <2>3 DEF FlowInv, NoGap, StreamStep, Holds, SessionClosed
  <2> QED
    BY <1>1, <1>3, <2>4, <2>5 DEF FlowInv
<1> QED
  BY <1>4, <1>5, <1>6, <1>7 DEF Writer

\* The frames behind the first move up.
LEMMA TailShift ==
  ASSUME TypeOK, wire # <<>>, wire' = Tail(wire)
  PROVE  /\ 1 \in 1..Len(wire) /\ wire[1] = Head(wire)
         /\ \A k \in 1..Len(wire') : k + 1 \in 2..Len(wire) /\ wire'[k] = wire[k + 1]
         /\ \A k \in 1..Len(wire') : \A l \in (k + 1)..Len(wire') :
              l + 1 \in (k + 1 + 1)..Len(wire) /\ wire'[l] = wire[l + 1]
         /\ \A k \in 2..Len(wire) : k - 1 \in 1..Len(wire') /\ wire'[k - 1] = wire[k]
<1>1. /\ Len(wire) \in Nat /\ Len(wire) >= 1 /\ Len(wire') = Len(wire) - 1
      /\ wire[1] = Head(wire)
      /\ \A k \in 1..Len(wire') : wire'[k] = wire[k + 1]
  BY HeadOfWire DEF TypeOK
<1> QED
  BY <1>1

\* The reader takes the first frame off the wire: into its hands or away.
LEMMA TakingKeepsOrder ==
  ASSUME TypeOK, NEW x \in Streams, InOrder(x), wire # <<>>, wire' = Tail(wire),
         sent'[x] = sent[x], got'[x] = got[x], ch'[x] = ch[x], UNCHANGED writers,
         ~Holds(x), Holds(x)' => Data(x, 1) /\ held' = wire[1]
  PROVE  InOrder(x)'
<1>1. Floor(x)' = Floor(x)
  BY DEF Floor, writers
<1>2. (Holds(x) => /\ Floor(x) < held.n /\ held.n <= sent[x]
                   /\ \A i \in 1..Len(ch[x]) : ch[x][i] < held.n)'
  BY <1>1, TailShift DEF InOrder
<1>3. ASSUME NEW k \in 1..Len(wire'), Data(x, k)'
      PROVE  /\ Floor(x)' < wire'[k].n /\ wire'[k].n <= sent'[x]
             /\ \A i \in 1..Len(ch'[x]) : ch'[x][i] < wire'[k].n
             /\ Holds(x)' => held'.n < wire'[k].n
             /\ \A l \in (k + 1)..Len(wire') : Data(x, l)' => wire'[k].n < wire'[l].n
  <2>1. k + 1 \in 1..Len(wire) /\ k + 1 \in (1 + 1)..Len(wire) /\ wire'[k] = wire[k + 1] /\ Data(x, k + 1)
    BY <1>3, TailShift DEF Data
  <2>2. /\ Floor(x) < wire[k + 1].n /\ wire[k + 1].n <= sent[x]
        /\ \A i \in 1..Len(ch[x]) : ch[x][i] < wire[k + 1].n
        /\ \A l \in (k + 1 + 1)..Len(wire) : Data(x, l) => wire[k + 1].n < wire[l].n
    BY <2>1 DEF InOrder
  <2>3. Holds(x)' => held'.n < wire'[k].n
    BY <2>1, TailShift DEF InOrder
  <2>4. \A l \in (k + 1)..Len(wire') : Data(x, l)' => wire'[k].n < wire'[l].n
    BY <2>1, <2>2, TailShift DEF Data
  <2> QED
    BY <1>1, <2>1, <2>2, <2>3, <2>4
<1> QED
  BY <1>1, <1>2, <1>3 DEF InOrder, writers

\* Taking it away leaves whose frames are on the wire.
LEMMA TakingKeepsFrames ==
  ASSUME TypeOK, NEW x \in Streams, FramesOfOpened(x), wire # <<>>, wire' = Tail(wire),
         UNCHANGED <<origin, handler>>
  PROVE  FramesOfOpened(x)'
<1>1. ASSUME NEW k \in 1..Len(wire'), wire'[k].s = x, wire'[k].n = 0
      PROVE  x \in finished /\ \A l \in (k + 1)..Len(wire') : wire'[l].s # x
  <2>1. k + 1 \in 1..Len(wire) /\ wire'[k] = wire[k + 1]
    BY TailShift
  <2>2. x \in finished /\ \A l \in (k + 1 + 1)..Len(wire) : wire[l].s # x
    BY <1>1, <2>1 DEF FramesOfOpened
  <2> QED
    BY <2>2, TailShift
<1> QED
  BY <1>1 DEF FramesOfOpened, Opened, origin

\* What the reader does about other streams' frames.
LEMMA ReaderLeavesOthers ==
  ASSUME TypeOK, NEW x \in Streams, FlowInv(x),
         UNCHANGED <<origin, handler, client, writers, got, session>>,
         ch'[x] = ch[x], ~Holds(x), ~Holds(x)',
         (x \in table <=> x \in table') /\ (x \in closed <=> x \in closed'),
         \/ wire' = wire
         \/ wire # <<>> /\ wire' = Tail(wire) /\ Head(wire).s # x
  PROVE  FlowInv(x)'
<1> USE DEF origin, writers
<1>1. Floor(x)' = Floor(x)
  BY DEF Floor
<1>2. CASE wire' = wire
  <2>1. InOrder(x)' /\ NoGap(x)'
    BY <1>2, LosingKeepsOrder, StayingKeepsNoGap DEF FlowInv, SessionClosed
  <2>2. FramesOfOpened(x)' /\ CutAfterLastFrame(x)'
    BY <1>2 DEF FlowInv, FramesOfOpened, CutAfterLastFrame, Opened, SessionClosed
  <2> QED
    BY <2>1, <2>2 DEF FlowInv
<1>3. CASE wire # <<>> /\ wire' = Tail(wire) /\ Head(wire).s # x
  <2>1. InOrder(x)' /\ FramesOfOpened(x)'
    BY <1>3, TakingKeepsOrder, TakingKeepsFrames DEF FlowInv
  <2>2. NoGap(x)'
    <3>1. ASSUME NEW n, NEW k \in 1..Len(wire), wire[k].s = x, wire[k].n = n
          PROVE  \E l \in 1..Len(wire') : wire'[l].s = x /\ wire'[l].n = n
      <4>1. k \in 2..Len(wire)
        BY <1>3, <3>1, TailShift DEF TypeOK
      <4> QED
        BY <1>3, <3>1, <4>1, TailShift
    <3> QED
      BY <1>1, <3>1 DEF FlowInv, NoGap, SessionClosed
  <2>3. CutAfterLastFrame(x)'
    <3>1. (\A k \in 1..Len(wire) : wire[k].s # x) => \A k \in 1..Len(wire') : wire'[k].s # x
      BY <1>3, TailShift
    <3> QED
      BY <3>1 DEF FlowInv, CutAfterLastFrame, Opened, SessionClosed
  <2> QED
    BY <2>1, <2>2, <2>3 DEF FlowInv
<1> QED
  BY <1>2, <1>3

\* A chunk for a stream in the table goes to the reader's hands.  Any other is
\* dropped, and its client no longer keeps its connection whole.
LEMMA ReadDataKeepsFlow ==
  ASSUME TypeOK, NEW x \in Streams, FlowInv(x), ReadData
  PROVE  FlowInv(x)'
<1> DEFINE s == Head(wire).s
<1>1. /\ loop = "read" /\ wire # <<>> /\ wire' = Tail(wire) /\ ~SessionClosed
      /\ Head(wire) = wire[1] /\ s \in Streams /\ wire[1].s = s
      /\ wire[1].n \in Nat /\ wire[1].n > 0 /\ Data(s, 1) /\ 1 \in 1..Len(wire)
      /\ UNCHANGED <<sent, finished, session, table, closed, ch, handler, writer, writing, client, got>>
      /\ IF s \in table THEN loop' = "offer" /\ held' = wire[1] ELSE UNCHANGED <<loop, held>>
  BY HeadOfWire, TailShift, FrameOfStream
     DEF ReadData, Data, IsChunk, origin, reader, streams, writers
<1>2. ~Holds(x)
  BY <1>1 DEF Holds
<1>3. CASE x # s
  <2>1. ~Holds(x)'
    BY <1>1, <1>3 DEF Holds
  <2> HIDE DEF s
  <2> QED
    BY <1>1, <1>2, <1>3, <2>1, ReaderLeavesOthers DEF origin, writers, s
<1>4. CASE x = s
  <2> HIDE DEF s
  <2>1. InOrder(x)' /\ FramesOfOpened(x)'
    BY <1>1, <1>2, <1>4, TakingKeepsOrder, TakingKeepsFrames DEF FlowInv, Holds, origin, writers
  <2>2. Floor(x)' = Floor(x)
    BY <1>1 DEF Floor
  <2>3. wire[1].n > Floor(x) /\ wire[1].n <= sent[x] /\ \A i \in 1..Len(ch[x]) : wire[1].n > ch[x][i]
    BY <1>1, <1>4, FloorIsNat DEF FlowInv, InOrder, TypeOK
  <2>4. Opened(x)
    BY <1>1, <2>3, FloorIsNat DEF FlowInv, FramesOfOpened
  <2>5. client[x] = "open" => x \in table /\ x \notin closed
    BY <1>1, <1>4, <2>4 DEF FlowInv, CutAfterLastFrame
  <2>6. CutAfterLastFrame(x)'
    BY <1>1, <2>4, <2>5 DEF CutAfterLastFrame, Opened, SessionClosed
  <2>7. NoGap(x)'
    <3> DEFINE next == Floor(x) + Len(ch[x]) + 1
    <3> SUFFICES ASSUME client[x] = "open"
                 PROVE  NoGap(x)'
      BY <1>1 DEF NoGap
    <3>1. /\ Floor(x) \in Nat /\ Len(ch[x]) \in Nat /\ sent[x] \in Nat /\ next \in Nat /\ next > 0
          /\ \A i \in 1..Len(ch[x]) : ch[x][i] = Floor(x) + i
      BY FloorIsNat DEF FlowInv, NoGap
    <3>2. wire[1].n >= next
      <4>1. CASE Len(ch[x]) = 0
        BY <1>1, <2>3, <3>1, <4>1
      <4>2. CASE Len(ch[x]) > 0
        <5>1. Len(ch[x]) \in 1..Len(ch[x])
          BY <3>1, <4>2
        <5>2. ch[x][Len(ch[x])] = Floor(x) + Len(ch[x]) /\ wire[1].n > ch[x][Len(ch[x])]
          BY <2>3, <3>1, <5>1
        <5> QED
          BY <1>1, <3>1, <5>2
      <4> QED
        BY <3>1, <4>1, <4>2
    <3>3. \A n \in next..sent[x] : \E k \in 1..Len(wire) : wire[k].s = x /\ wire[k].n = n
      BY <1>1, <1>2 DEF FlowInv, NoGap
    <3> HIDE DEF next
    <3>4. wire[1].n = next
      <4>0. next \in next..sent[x]
        BY <1>1, <2>3, <3>1, <3>2
      <4>1. PICK k \in 1..Len(wire) : wire[k].s = x /\ wire[k].n = next
        BY <3>3, <4>0
      <4>2. k # 1 => k \in (1 + 1)..Len(wire) /\ Data(x, k)
        BY <3>1, <4>1 DEF Data
      <4>3. k # 1 => wire[1].n < next
        BY <1>1, <1>4, <4>1, <4>2 DEF FlowInv, InOrder
      <4> QED
        BY <1>1, <3>1, <3>2, <4>1, <4>3
    <3>5. \A n \in next..sent[x] : n # next => \E k \in 1..Len(wire') : wire'[k].s = x /\ wire'[k].n = n
      <4> TAKE n \in next..sent[x]
      <4> HAVE n # next
      <4>1. PICK k \in 1..Len(wire) : wire[k].s = x /\ wire[k].n = n
        BY <3>3
      <4>2. k \in 2..Len(wire)
        BY <3>4, <4>1
      <4> QED
        BY <1>1, <4>1, <4>2, TailShift
    <3>6. Holds(x)' /\ held'.n = next
      BY <1>1, <1>4, <2>5, <3>4 DEF Holds
    <3> QED
      BY <1>1, <2>2, <3>5, <3>6 DEF FlowInv, NoGap, SessionClosed, next
  <2> QED
    BY <2>1, <2>6, <2>7 DEF FlowInv
<1> QED
  BY <1>3, <1>4

\* A StreamClose comes after the last chunk of its stream.
LEMMA ReadCloseKeepsFlow ==
  ASSUME TypeOK, NEW x \in Streams, FlowInv(x), ReadClose
  PROVE  FlowInv(x)'
<1> DEFINE s == Head(wire).s
<1>1. /\ loop = "read" /\ wire # <<>> /\ wire' = Tail(wire) /\ ~SessionClosed
      /\ Head(wire) = wire[1] /\ s \in Streams /\ wire[1].s = s /\ wire[1].n = 0 /\ 1 \in 1..Len(wire)
      /\ UNCHANGED <<sent, finished, session, loop, held, ch, handler, writer, writing, client, got>>
      /\ table' = table \ {s} /\ closed' = closed \cup (table \cap {s})
  BY HeadOfWire, TailShift, FrameOfStream DEF ReadClose, IsClose, origin, reader, writers
<1>2. ~Holds(x) /\ ~Holds(x)'
  BY <1>1 DEF Holds
<1> HIDE DEF s
<1>3. CASE x # s
  BY <1>1, <1>2, <1>3, ReaderLeavesOthers DEF origin, writers, s
<1>4. CASE x = s
  <2>1. InOrder(x)' /\ FramesOfOpened(x)'
    BY <1>1, <1>2, TakingKeepsOrder, TakingKeepsFrames DEF FlowInv, origin, writers
  <2>2. NoGap(x)'
    <3>1. ASSUME NEW n \in Nat \ {0}, NEW k \in 1..Len(wire), wire[k].s = x, wire[k].n = n
          PROVE  \E l \in 1..Len(wire') : wire'[l].s = x /\ wire'[l].n = n
      <4>1. k \in 2..Len(wire)
        BY <1>1, <3>1
      <4> QED
        BY <1>1, <3>1, <4>1, TailShift
    <3>2. Floor(x) \in Nat /\ Len(ch[x]) \in Nat /\ sent[x] \in Nat /\ Floor(x)' = Floor(x)
      BY <1>1, FloorIsNat DEF Floor
    <3>3. \A n \in (Floor(x) + Len(ch[x]) + 1)..sent[x] : n \in Nat \ {0}
      BY <3>2
    <3> QED
      BY <1>1, <1>2, <3>1, <3>2, <3>3 DEF FlowInv, NoGap, SessionClosed
  <2>3. CutAfterLastFrame(x)'
    <3>1. x \in finished /\ Opened(x) /\ \A l \in (1 + 1)..Len(wire) : wire[l].s # x
      BY <1>1, <1>4 DEF FlowInv, FramesOfOpened
    <3>2. \A k \in 1..Len(wire') : wire'[k].s # x
      BY <1>1, <3>1, TailShift
    <3> QED
      BY <1>1, <1>2, <3>1, <3>2 DEF CutAfterLastFrame, Opened
  <2> QED
    BY <2>1, <2>2, <2>3 DEF FlowInv
<1> QED
  BY <1>3, <1>4

\* A Ping and its answer concern no stream.
LEMMA PingKeepsFlow ==
  ASSUME TypeOK, NEW x \in Streams, FlowInv(x), ReadPing \/ PongDone \/ ReaderBlocks
  PROVE  FlowInv(x)'
<1>1. /\ UNCHANGED <<origin, session, held, streams, ch, handler, writers, client, got>>
      /\ loop \in {"read", "pong"} /\ loop' \in {"read", "pong"}
      /\ wire' = wire \/ (wire # <<>> /\ wire' = Tail(wire) /\ Head(wire).s # x)
  BY FrameOfStream DEF ReadPing, PongDone, ReaderBlocks, WriteBlocks, reader
<1>2. ~Holds(x) /\ ~Holds(x)'
  BY <1>1 DEF Holds
<1> QED
  BY <1>1, <1>2, ReaderLeavesOthers DEF streams

\* The chunk in the reader's hands is the next one for its stream's channel.
LEMMA EnqueueKeepsFlow ==
  ASSUME TypeOK, NEW x \in Streams, FlowInv(x), Enqueue
  PROVE  FlowInv(x)'
<1>1. /\ loop = "offer" /\ loop' = "read" /\ held.s \in Streams /\ held.n \in Nat \ {0}
      /\ ch' = [ch EXCEPT ![held.s] = Append(@, held.n)]
      /\ UNCHANGED <<sent, finished, wire, session, table, closed, handler, writer, writing, client, got>>
  BY DEF Enqueue, TypeOK, Chunks, origin, streams, writers
<1>2. ~Holds(x)'
  BY <1>1 DEF Holds
<1>3. CASE x # held.s
  <2>1. ch'[x] = ch[x] /\ ~Holds(x)
    BY <1>1, <1>3 DEF TypeOK, Holds
  <2> QED
    BY <1>1, <1>2, <2>1, ReaderLeavesOthers DEF origin, writers
<1>4. CASE x = held.s
  <2>1. Holds(x) /\ Floor(x)' = Floor(x)
    BY <1>1, <1>4 DEF Holds, Floor
  <2>2. /\ ch[x] \in Seq(Nat) /\ Len(ch[x]) \in Nat
        /\ ch'[x] = Append(ch[x], held.n) /\ Len(ch'[x]) = Len(ch[x]) + 1
        /\ \A i \in 1..Len(ch[x]) : ch'[x][i] = ch[x][i]
        /\ ch'[x][Len(ch[x]) + 1] = held.n
    BY <1>1, <1>4, AppendProperties DEF TypeOK
  <2>3. \A i \in 1..Len(ch'[x]) :
          \/ i \in 1..Len(ch[x]) /\ ch'[x][i] = ch[x][i]
          \/ i = Len(ch[x]) + 1 /\ ch'[x][i] = held.n
    <3> TAKE i \in 1..Len(ch'[x])
    <3>1. CASE i \in 1..Len(ch[x])
      BY <2>2, <3>1
    <3>2. CASE i = Len(ch[x]) + 1
      BY <2>2, <3>2
    <3> QED
      BY <2>2, <3>1, <3>2
  <2>4. Floor(x) < held.n /\ held.n <= sent[x] /\ \A i \in 1..Len(ch[x]) : ch[x][i] < held.n
    BY <2>1 DEF FlowInv, InOrder
  <2>5. InOrder(x)'
    <3>1. ASSUME NEW i \in 1..Len(ch'[x])
          PROVE  /\ Floor(x)' < ch'[x][i] /\ ch'[x][i] <= sent'[x]
                 /\ \A j \in (i + 1)..Len(ch'[x]) : ch'[x][i] < ch'[x][j]
      <4>1. CASE i \in 1..Len(ch[x]) /\ ch'[x][i] = ch[x][i]
        <5>1. \A j \in (i + 1)..Len(ch'[x]) :
                (j \in (i + 1)..Len(ch[x]) /\ ch'[x][j] = ch[x][j]) \/ ch'[x][j] = held.n
          BY <2>2, <2>3
        <5> QED
          BY <1>1, <2>1, <2>4, <4>1, <5>1 DEF FlowInv, InOrder
      <4>2. CASE i = Len(ch[x]) + 1 /\ ch'[x][i] = held.n
        BY <1>1, <2>1, <2>2, <2>4, <4>2
      <4> QED
        BY <2>3, <4>1, <4>2
    <3>2. ASSUME NEW k \in 1..Len(wire'), Data(x, k)'
          PROVE  /\ Floor(x)' < wire'[k].n /\ wire'[k].n <= sent'[x]
                 /\ \A i \in 1..Len(ch'[x]) : ch'[x][i] < wire'[k].n
                 /\ Holds(x)' => held'.n < wire'[k].n
                 /\ \A l \in (k + 1)..Len(wire') : Data(x, l)' => wire'[k].n < wire'[l].n
      <4>1. k \in 1..Len(wire) /\ Data(x, k) /\ \A l : Data(x, l)' <=> Data(x, l)
        BY <1>1, <3>2 DEF Data
      <4>2. /\ Floor(x) < wire[k].n /\ wire[k].n <= sent[x] /\ held.n < wire[k].n
            /\ \A i \in 1..Len(ch[x]) : ch[x][i] < wire[k].n
            /\ \A l \in (k + 1)..Len(wire) : Data(x, l) => wire[k].n < wire[l].n
        BY <2>1, <4>1 DEF FlowInv, InOrder
      <4> QED
        BY <1>1, <1>2, <2>1, <2>3, <4>1, <4>2
    <3> QED
      BY <1>1, <1>2, <2>1, <3>1, <3>2 DEF FlowInv, InOrder
  <2>6. NoGap(x)'
    <3> SUFFICES ASSUME client[x] = "open"
                 PROVE  NoGap(x)'
      BY <1>1 DEF NoGap
    <3>1. /\ Floor(x) \in Nat /\ held.n = Floor(x) + Len(ch[x]) + 1
          /\ \A i \in 1..Len(ch[x]) : ch[x][i] = Floor(x) + i
      BY <2>1, FloorIsNat DEF FlowInv, NoGap
    <3>2. \A i \in 1..Len(ch'[x]) : ch'[x][i] = Floor(x)' + i
      BY <2>1, <2>2, <2>3, <3>1
    <3>3. ASSUME ~SessionClosed, NEW n \in (Floor(x)' + Len(ch'[x]) + 1)..sent'[x]
          PROVE  \E k \in 1..Len(wire') : wire'[k].s = x /\ wire'[k].n = n
      <4>1. n \in (Floor(x) + Len(ch[x]) + 1)..sent[x] /\ n # held.n
        BY <1>1, <2>1, <2>2, <3>1, FloorIsNat
      <4> QED
        BY <1>1, <3>3, <4>1 DEF FlowInv, NoGap
    <3> QED
      BY <1>1, <1>2, <2>1, <3>2, <3>3 DEF FlowInv, NoGap, SessionClosed
  <2>7. FramesOfOpened(x)' /\ CutAfterLastFrame(x)'
    BY <1>1, <2>1 DEF FlowInv, FramesOfOpened, CutAfterLastFrame, Opened, SessionClosed
  <2> QED
    BY <2>5, <2>6, <2>7 DEF FlowInv
<1> QED
  BY <1>3, <1>4

\* The reader drops a chunk of a closed stream only when its client left or when the
\* session, closed itself, brings no more.
LEMMA DropKeepsFlow ==
  ASSUME TypeOK, NEW x \in Streams, FlowInv(x), DropClosed
  PROVE  FlowInv(x)'
<1>1. /\ loop = "offer" /\ loop' = "read" /\ held.s \in closed
      /\ UNCHANGED <<sent, finished, wire, session, table, closed, ch, handler, writer, writing, client, got>>
  BY DEF DropClosed, StreamClosed, origin, streams, writers
<1>2. ~Holds(x)'
  BY <1>1 DEF Holds
<1>3. Holds(x) /\ client[x] = "open" => SessionClosed
  <2> SUFFICES ASSUME Holds(x), client[x] = "open", ~SessionClosed
               PROVE  FALSE
    OBVIOUS
  <2>1. held.n > 0 /\ held.n \in Nat /\ held.n <= sent[x] /\ x \in closed
    BY <1>1 DEF FlowInv, InOrder, Holds, TypeOK, Chunks
  <2>2. Opened(x)
    BY <2>1, FloorIsNat DEF FlowInv, FramesOfOpened
  <2> QED
    BY <2>1, <2>2 DEF FlowInv, CutAfterLastFrame
<1>4. InOrder(x)'
  BY <1>1, <1>2, LosingKeepsOrder DEF FlowInv
<1>5. NoGap(x)'
  <2>1. SessionClosed' <=> SessionClosed
    BY <1>1 DEF SessionClosed
  <2>2. client'[x] = "open" => SessionClosed' \/ ~Holds(x)
    BY <1>1, <1>3, <2>1
  <2> QED
    BY <1>1, <1>2, <2>1, <2>2, StayingKeepsNoGap DEF FlowInv, SessionClosed
<1>6. FramesOfOpened(x)' /\ CutAfterLastFrame(x)'
  BY <1>1, <1>2 DEF FlowInv, FramesOfOpened, CutAfterLastFrame, Opened, SessionClosed
<1> QED
  BY <1>4, <1>5, <1>6 DEF FlowInv

\* The end of the session loses what is on its way, and from then on nothing follows
\* what is in the streams' channels.
LEMMA ClosingKeepsFlow ==
  ASSUME TypeOK, NEW x \in Streams, FlowInv(x),
         OfferInterrupted \/ ReadFails \/ StopBegins \/ CloseSession \/ CloseStreams
  PROVE  FlowInv(x)'
<1>1. /\ UNCHANGED <<sent, finished, ch, handler, writer, writing, client, got>>
      /\ wire' \in {wire, <<>>} /\ (Holds(x)' => Holds(x) /\ held' = held)
      /\ SessionClosed => SessionClosed'
  BY DEF OfferInterrupted, ReadFails, LoopEnds, StopBegins, CloseSession, CloseStreams, Holds,
         SessionClosed, origin, reader, writers
<1>2. SessionClosed' \/ StopBegins
  BY DEF OfferInterrupted, ReadFails, LoopEnds, CloseSession, CloseStreams, SessionClosed
<1>3. StopBegins => UNCHANGED <<wire, loop, held, table, closed>> /\ (SessionClosed' <=> SessionClosed)
  BY DEF StopBegins, SessionClosed, reader, streams
<1>4. InOrder(x)' /\ FramesOfOpened(x)'
  BY <1>1, LosingKeepsOrder, StayingKeepsFrames DEF FlowInv, Opened
<1>5. NoGap(x)'
  <2>1. Holds(x)' => held'.n = held.n
    BY <1>1
  <2>2. SessionClosed' \/ (~SessionClosed /\ wire' = wire /\ (Holds(x) => Holds(x)'))
    BY <1>2, <1>3 DEF Holds, SessionClosed
  <2> QED
    BY <1>1, <2>1, <2>2, StayingKeepsNoGap DEF FlowInv
<1>6. CutAfterLastFrame(x)'
  BY <1>1, <1>2, <1>3 DEF FlowInv, CutAfterLastFrame, Opened, Holds
<1> QED
  BY <1>4, <1>5, <1>6 DEF FlowInv

\* A frame that is sent is the last on the wire.
LEMMA AppendedFrame ==
  ASSUME TypeOK, NEW f \in Frames, wire' = Append(wire, f)
  PROVE  /\ Len(wire) \in Nat /\ Len(wire') = Len(wire) + 1 /\ wire'[Len(wire) + 1] = f
         /\ \A k \in 1..Len(wire) : k \in 1..Len(wire') /\ wire'[k] = wire[k]
         /\ \A k \in 1..Len(wire') : k \in 1..Len(wire) \/ k = Len(wire) + 1
<1>1. /\ wire \in Seq(Frames) /\ Len(wire) \in Nat
      /\ Len(wire') = Len(wire) + 1 /\ wire'[Len(wire) + 1] = f
      /\ \A k \in 1..Len(wire) : wire'[k] = wire[k]
  BY AppendProperties DEF TypeOK
<1> QED
  BY <1>1

\* A frame that is no chunk older than what its stream has sent keeps the order.
LEMMA SendingKeepsOrder ==
  ASSUME TypeOK, NEW x \in Streams, InOrder(x), NEW f \in Frames, wire' = Append(wire, f),
         UNCHANGED <<got, ch, writers, loop, held>>, sent'[x] \in Nat, sent'[x] >= sent[x],
         f.s = x /\ f.n # 0 => f.n > sent[x] /\ f.n <= sent'[x]
  PROVE  InOrder(x)'
<1> USE DEF writers, Holds
<1>1. Floor(x)' = Floor(x) /\ (Holds(x)' <=> Holds(x))
  BY DEF Floor
<1>2. /\ Floor(x) \in Nat /\ sent[x] \in Nat
      /\ \A i \in 1..Len(ch[x]) : ch[x][i] \in Nat
      /\ Holds(x) => held.n \in Nat
      /\ \A k \in 1..Len(wire) : wire[k].n \in Nat
      /\ f.n \in Nat
  <2>1. Floor(x) \in Nat /\ sent[x] \in Nat /\ ch[x] \in Seq(Nat \ {0})
    BY FloorIsNat
  <2>2. \A i \in 1..Len(ch[x]) : ch[x][i] \in Nat
    BY <2>1, ElementOfSeq
  <2>3. Holds(x) => held.n \in Nat
    BY DEF TypeOK, Chunks
  <2>4. \A k \in 1..Len(wire) : wire[k].n \in Nat
    BY FrameOnWire
  <2>5. f.n \in Nat
    BY DEF Frames, Ping
  <2> QED
    BY <2>1, <2>2, <2>3, <2>4, <2>5
<1>3. (writer[x] = "write" => writing[x] > Pipes!LastOf(got[x]))' /\ Floor(x)' <= sent'[x]
  BY <1>1, <1>2 DEF InOrder
<1>4. ASSUME NEW i \in 1..Len(ch'[x])
      PROVE  /\ Floor(x)' < ch'[x][i] /\ ch'[x][i] <= sent'[x]
             /\ \A j \in (i + 1)..Len(ch'[x]) : ch'[x][i] < ch'[x][j]
  BY <1>1, <1>2 DEF InOrder
<1>5. (Holds(x) => /\ Floor(x) < held.n /\ held.n <= sent[x]
                   /\ \A i \in 1..Len(ch[x]) : ch[x][i] < held.n)'
  BY <1>1, <1>2 DEF InOrder
<1>6. ASSUME NEW k \in 1..Len(wire'), Data(x, k)'
      PROVE  /\ Floor(x)' < wire'[k].n /\ wire'[k].n <= sent'[x]
             /\ \A i \in 1..Len(ch'[x]) : ch'[x][i] < wire'[k].n
             /\ Holds(x)' => held'.n < wire'[k].n
             /\ \A l \in (k + 1)..Len(wire') : Data(x, l)' => wire'[k].n < wire'[l].n
  <2>1. CASE k \in 1..Len(wire)
    <3>1. wire'[k] = wire[k] /\ Data(x, k)
      BY <1>6, <2>1, AppendedFrame DEF Data
    <3>2. /\ Floor(x) < wire[k].n /\ wire[k].n <= sent[x]
          /\ \A i \in 1..Len(ch[x]) : ch[x][i] < wire[k].n
          /\ Holds(x) => held.n < wire[k].n
          /\ \A l \in (k + 1)..Len(wire) : Data(x, l) => wire[k].n < wire[l].n
      BY <2>1, <3>1 DEF InOrder
    <3>3. ASSUME NEW l \in (k + 1)..Len(wire'), Data(x, l)'
          PROVE  wire'[k].n < wire'[l].n
      <4>1. CASE l \in (k + 1)..Len(wire)
        <5>1. wire'[l] = wire[l]
          BY <2>1, <4>1, AppendedFrame
        <5> QED
          BY <3>1, <3>2, <3>3, <4>1, <5>1 DEF Data
      <4>2. CASE l = Len(wire) + 1
        BY <1>2, <2>1, <3>1, <3>2, <3>3, <4>2, AppendedFrame DEF Data
      <4> QED
        BY <2>1, <3>3, <4>1, <4>2, AppendedFrame
    <3> QED
      BY <1>1, <1>2, <2>1, <3>1, <3>2, <3>3
  <2>2. CASE k = Len(wire) + 1
    <3>1. wire'[k] = f /\ f.n > sent[x] /\ f.n <= sent'[x] /\ (k + 1)..Len(wire') = {}
      BY <1>6, <2>2, AppendedFrame DEF Data
    <3>2. /\ Floor(x) <= sent[x] /\ \A i \in 1..Len(ch[x]) : ch[x][i] <= sent[x]
          /\ Holds(x) => held.n <= sent[x]
      BY DEF InOrder
    <3>3. Floor(x)' < wire'[k].n /\ wire'[k].n <= sent'[x]
      BY <1>1, <1>2, <3>1, <3>2
    <3>4. ASSUME NEW i \in 1..Len(ch'[x])
          PROVE  ch'[x][i] < wire'[k].n
      <4>1. ch'[x][i] \in Nat /\ ch'[x][i] <= sent[x]
        BY <1>2, <3>2
      <4> QED
        BY <1>2, <3>1, <4>1
    <3>5. Holds(x)' => held'.n < wire'[k].n
      <4> SUFFICES ASSUME Holds(x)'
                   PROVE  held'.n < wire'[k].n
        OBVIOUS
      <4>1. held'.n = held.n /\ held.n \in Nat /\ held.n <= sent[x]
        BY <1>1, <1>2, <3>2
      <4> QED
        BY <1>2, <3>1, <4>1
    <3>6. \A l \in (k + 1)..Len(wire') : Data(x, l)' => wire'[k].n < wire'[l].n
      BY <3>1
    <3> QED
      BY <3>3, <3>4, <3>5, <3>6
  <2> QED
    BY <2>1, <2>2, AppendedFrame
<1> QED
  BY <1>3, <1>4, <1>5, <1>6 DEF InOrder

\* The origin sends the next chunk, or says that there is none.
LEMMA OriginKeepsFlow ==
  ASSUME TypeOK, NEW x \in Streams, FlowInv(x), NEW s \in Streams, Produce(s) \/ Finish(s)
  PROVE  FlowInv(x)'
<1>1. PICK f \in Frames :
        /\ wire' = Append(wire, f) /\ f.s = s
        /\ \/ f.n = sent[s] + 1 /\ sent' = [sent EXCEPT ![s] = @ + 1] /\ finished' = finished
           \/ f.n = 0 /\ sent' = sent /\ finished' = finished \cup {s}
  <2>1. CASE Produce(s)
    <3>1. sent'[s] = sent[s] + 1 /\ [s |-> s, n |-> sent'[s]] \in Frames
      BY <2>1 DEF Produce, TypeOK, Frames
    <3> QED
      BY <2>1, <3>1 DEF Produce
  <2>2. CASE Finish(s)
    <3>1. [s |-> s, n |-> 0] \in Frames
      BY DEF Frames
    <3> QED
      BY <2>2, <3>1 DEF Finish
  <2> QED
    BY <2>1, <2>2
<1>2. /\ Opened(s) /\ ~SessionClosed /\ s \notin finished
      /\ UNCHANGED <<session, loop, held, table, closed, ch, handler, writer, writing, client, got>>
  BY DEF Produce, Finish, reader, streams, writers
<1>3. /\ sent[x] \in Nat /\ sent'[x] \in Nat /\ f.n \in Nat
      /\ sent'[x] = IF x = s /\ f.n # 0 THEN f.n ELSE sent[x]
      /\ x = s /\ f.n # 0 => f.n = sent[x] + 1
      /\ Floor(x)' = Floor(x) /\ (Holds(x)' <=> Holds(x))
  BY <1>1, <1>2 DEF TypeOK, Floor, Holds, Frames
<1>4. InOrder(x)'
  BY <1>1, <1>2, <1>3, SendingKeepsOrder DEF FlowInv, writers
<1>5. NoGap(x)'
  <2> SUFFICES ASSUME client'[x] = "open"
               PROVE  NoGap(x)'
    BY DEF NoGap
  <2>1. ASSUME NEW n \in (Floor(x)' + Len(ch'[x]) + 1)..sent'[x], ~(Holds(x)' /\ held'.n = n)
        PROVE  \E k \in 1..Len(wire') : wire'[k].s = x /\ wire'[k].n = n
    <3>1. Floor(x) \in Nat /\ Len(ch[x]) \in Nat
      BY FloorIsNat
    <3>2. CASE n \in (Floor(x) + Len(ch[x]) + 1)..sent[x]
      <4>1. PICK k \in 1..Len(wire) : wire[k].s = x /\ wire[k].n = n
        BY <1>2, <1>3, <2>1, <3>2 DEF FlowInv, NoGap
      <4> QED
        BY <1>1, <4>1, AppendedFrame
    <3>3. CASE ~(n \in (Floor(x) + Len(ch[x]) + 1)..sent[x])
      <4>1. x = s /\ f.n # 0 /\ n = f.n
        BY <1>2, <1>3, <2>1, <3>1, <3>3
      <4>2. Len(wire) + 1 \in 1..Len(wire') /\ wire'[Len(wire) + 1] = f
        BY <1>1, AppendedFrame
      <4> QED
        BY <1>1, <4>1, <4>2
    <3> QED
      BY <3>2, <3>3
  <2>2. /\ writer'[x] = "write" => writing'[x] = Pipes!LastOf(got'[x]) + 1
        /\ \A i \in 1..Len(ch'[x]) : ch'[x][i] = Floor(x)' + i
        /\ Holds(x)' => held'.n = Floor(x)' + Len(ch'[x]) + 1
    BY <1>2, <1>3 DEF FlowInv, NoGap
  <2> QED
    BY <2>1, <2>2 DEF NoGap
<1>6. FramesOfOpened(x)'
  <2>1. (sent'[x] > 0 \/ x \in finished') => Opened(x)'
    BY <1>1, <1>2, <1>3 DEF FlowInv, FramesOfOpened, Opened
  <2>2. ASSUME NEW k \in 1..Len(wire'), wire'[k].s = x, wire'[k].n = 0
        PROVE  x \in finished' /\ \A l \in (k + 1)..Len(wire') : wire'[l].s # x
    <3>1. CASE k \in 1..Len(wire)
      <4>1. /\ wire[k].s = x /\ wire[k].n = 0 /\ x \in finished /\ x # s
            /\ \A l \in (k + 1)..Len(wire) : wire[l].s # x
        BY <1>1, <1>2, <2>2, <3>1, AppendedFrame DEF FlowInv, FramesOfOpened
      <4>2. ASSUME NEW l \in (k + 1)..Len(wire')
            PROVE  wire'[l].s # x
        <5>1. (l \in (k + 1)..Len(wire) /\ l \in 1..Len(wire)) \/ l = Len(wire) + 1
          BY <1>1, <3>1, <4>2, AppendedFrame
        <5> QED
          BY <1>1, <4>1, <5>1, AppendedFrame
      <4> QED
        BY <1>1, <4>1, <4>2
    <3>2. CASE k = Len(wire) + 1
      BY <1>1, <1>3, <2>2, <3>2, AppendedFrame
    <3> QED
      BY <1>1, <3>1, <3>2, AppendedFrame
  <2> QED
    BY <2>1, <2>2 DEF FramesOfOpened
<1>7. CutAfterLastFrame(x)'
  <2>1. CASE x = s
    BY <1>2, <2>1 DEF FlowInv, CutAfterLastFrame, Opened, SessionClosed
  <2>2. CASE x # s
    <3>1. (\A k \in 1..Len(wire) : wire[k].s # x) => \A k \in 1..Len(wire') : wire'[k].s # x
      BY <1>1, <2>2, AppendedFrame
    <3> QED
      BY <1>1, <1>2, <1>3, <2>2, <3>1 DEF FlowInv, CutAfterLastFrame, Opened, SessionClosed
  <2> QED
    BY <2>1, <2>2
<1> QED
  BY <1>4, <1>5, <1>6, <1>7 DEF FlowInv

\* A Ping behind the chunks leaves them where they are.
LEMMA SendPingKeepsFlow ==
  ASSUME TypeOK, NEW x \in Streams, FlowInv(x), SendPing
  PROVE  FlowInv(x)'
<1>1. /\ wire' = Append(wire, Ping)
      /\ UNCHANGED <<sent, finished, session, loop, held, table, closed, ch, handler, writer,
                     writing, client, got>>
  BY DEF SendPing, origin, reader, streams, writers
<1>2. \A k \in 1..Len(wire') : wire'[k].s = x => k \in 1..Len(wire)
  BY <1>1, AppendedFrame, FrameOfStream
<1>3. \A k \in 1..Len(wire) : k \in 1..Len(wire') /\ wire'[k] = wire[k]
  BY <1>1, AppendedFrame, FrameOfStream
<1>4. /\ Floor(x)' = Floor(x) /\ (Holds(x)' <=> Holds(x)) /\ (Opened(x)' <=> Opened(x))
      /\ SessionClosed' <=> SessionClosed
  BY <1>1 DEF Floor, Holds, Opened, SessionClosed
<1>5. InOrder(x)'
  <2>1. sent[x] \in Nat /\ Ping.s # x
    BY FloorIsNat, FrameOfStream
  <2> QED
    BY <1>1, <2>1, SendingKeepsOrder, FrameOfStream DEF FlowInv, writers
<1>6. NoGap(x)'
  BY <1>1, <1>3, <1>4 DEF FlowInv, NoGap
<1>7. FramesOfOpened(x)'
  <2>1. ASSUME NEW k \in 1..Len(wire'), wire'[k].s = x, wire'[k].n = 0
        PROVE  x \in finished' /\ \A l \in (k + 1)..Len(wire') : wire'[l].s # x
    <3>1. k \in 1..Len(wire) /\ wire[k].s = x /\ wire[k].n = 0
      BY <1>2, <1>3, <2>1
    <3>2. x \in finished /\ \A l \in (k + 1)..Len(wire) : wire[l].s # x
      BY <3>1 DEF FlowInv, FramesOfOpened
    <3>3. ASSUME NEW l \in (k + 1)..Len(wire'), wire'[l].s = x
          PROVE  FALSE
      <4>1. l \in 1..Len(wire')
        BY <3>1
      <4>2. l \in 1..Len(wire) /\ wire[l].s = x
        BY <1>2, <1>3, <3>3, <4>1
      <4>3. l \in (k + 1)..Len(wire)
        BY <3>1, <4>2
      <4> QED
        BY <3>2, <4>2, <4>3
    <3> QED
      BY <1>1, <3>2, <3>3
  <2> QED
    BY <1>1, <1>4, <2>1 DEF FlowInv, FramesOfOpened
<1>8. CutAfterLastFrame(x)'
  <2>1. (\A k \in 1..Len(wire) : wire[k].s # x) => \A k \in 1..Len(wire') : wire'[k].s # x
    BY <1>2, <1>3
  <2> QED
    BY <1>1, <1>4, <2>1 DEF FlowInv, CutAfterLastFrame
<1> QED
  BY <1>5, <1>6, <1>7, <1>8 DEF FlowInv

\* A client that closes its connection leaves the chunks where they are.
LEMMA ClientKeepsFlow ==
  ASSUME TypeOK, NEW x \in Streams, FlowInv(x), NEW s \in Streams, HalfClose(s) \/ Leave(s)
  PROVE  FlowInv(x)'
<1>1. /\ UNCHANGED <<sent, finished, wire, session, loop, held, table, closed, ch, handler,
                     writer, writing, got>>
      /\ client'[x] = "open" => client[x] = "open"
  BY DEF HalfClose, Leave, TypeOK, origin, reader, streams, writers
<1>2. SessionClosed' = SessionClosed /\ Holds(x)' = Holds(x) /\ Opened(x)' = Opened(x)
  BY <1>1 DEF SessionClosed, Holds, Opened
<1>3. InOrder(x)' /\ NoGap(x)'
  BY <1>1, <1>2, LosingKeepsOrder, StayingKeepsNoGap DEF FlowInv
<1>4. FramesOfOpened(x)' /\ CutAfterLastFrame(x)'
  BY <1>1, <1>2 DEF FlowInv, FramesOfOpened, CutAfterLastFrame
<1> QED
  BY <1>3, <1>4 DEF FlowInv

---------------------------------------------------------------------------
(* The invariant.                                                          *)

\* No chunk is anywhere before the first is sent.
LEMMA MuxInvInit == Init => MuxInv
<1> SUFFICES ASSUME Init PROVE MuxInv
  OBVIOUS
<1>1. /\ wire = <<>> /\ Len(wire) = 0 /\ loop # "offer"
      /\ \A x \in Streams : /\ ch[x] = <<>> /\ Len(ch[x]) = 0 /\ got[x] = <<>> /\ sent[x] = 0
                            /\ Floor(x) = 0 /\ writer[x] = "none" /\ handler[x] = "none"
                            /\ x \notin closed /\ x \notin finished
  BY DEF Init, Floor, Pipes!LastOf
<1> QED
  BY <1>1, TypeInit
     DEF MuxInv, InOrder, NoGap, FramesOfOpened, CutAfterLastFrame, Holds, Opened, SessionClosed, Init

\* Every step of the session keeps the invariant.
LEMMA MuxInvStep == MuxInv /\ [Next]_vars => MuxInv'
<1> SUFFICES ASSUME MuxInv, [Next]_vars PROVE MuxInv'
  OBVIOUS
<1>1. TypeOK /\ (SessionClosed => wire = <<>>) /\ \A x \in Streams : FlowInv(x)
  BY DEF MuxInv, FlowInv
<1>2. SUFFICES TypeOK' /\ (SessionClosed => wire = <<>>)' /\ \A x \in Streams : FlowInv(x)'
  BY DEF MuxInv, FlowInv
<1>3. ASSUME NEW s \in Streams, HandlerMoves(s)
      PROVE  MuxInv'
  <2>1. StreamStep(s) /\ FlowInv(s)' /\ TypeOK'
    BY <1>1, <1>3, HandlerKeepsFlow, HandlerKeepsTypes
  <2>2. \A x \in Streams : FlowInv(x)'
    BY <1>1, <2>1, OtherStreamsFlow
  <2> QED
    BY <1>1, <2>1, <2>2 DEF MuxInv, FlowInv, StreamStep, SessionClosed
<1>4. ASSUME NEW s \in Streams, Writer(s) \/ WriteDone(s)
      PROVE  MuxInv'
  <2>1. StreamStep(s) /\ FlowInv(s)' /\ TypeOK'
    BY <1>1, <1>4, WriterKeepsFlow, WriterKeepsTypes DEF FlowInv
  <2>2. \A x \in Streams : FlowInv(x)'
    BY <1>1, <2>1, OtherStreamsFlow
  <2> QED
    BY <1>1, <2>1, <2>2 DEF MuxInv, FlowInv, StreamStep, SessionClosed
<1>5. ASSUME NEW s \in Streams, Environment(s)
      PROVE  MuxInv'
  <2>1. TypeOK'
    BY <1>1, <1>5, OthersKeepTypes
  <2>2. \A x \in Streams : FlowInv(x)'
    BY <1>1, <1>5, OriginKeepsFlow, ClientKeepsFlow DEF Environment
  <2>3. (SessionClosed => wire = <<>>)'
    BY <1>1, <1>5 DEF Environment, Produce, Finish, HalfClose, Leave, SessionClosed
  <2> QED
    BY <2>1, <2>2, <2>3 DEF MuxInv, FlowInv
<1>6. CASE Dispatch \/ PongDone \/ ReaderBlocks \/ ReadFails
  <2>1. TypeOK'
    BY <1>1, <1>6, ReaderKeepsTypes
  <2>2. \A x \in Streams : FlowInv(x)'
    BY <1>1, <1>6, ReadDataKeepsFlow, ReadCloseKeepsFlow, PingKeepsFlow, EnqueueKeepsFlow,
       DropKeepsFlow, ClosingKeepsFlow
       DEF Dispatch
  <2>3. (SessionClosed => wire = <<>>)'
    BY <1>1, <1>6 DEF Dispatch, ReadData, ReadClose, ReadPing, PongDone, ReaderBlocks, WriteBlocks,
                      Enqueue, DropClosed, OfferInterrupted, ReadFails, LoopEnds, SessionClosed
  <2> QED
    BY <2>1, <2>2, <2>3 DEF MuxInv, FlowInv
<1>7. CASE StopBegins \/ CloseSession \/ CloseStreams \/ SendPing
  <2>1. TypeOK'
    BY <1>1, <1>7, OthersKeepTypes
  <2>2. \A x \in Streams : FlowInv(x)'
    BY <1>1, <1>7, ClosingKeepsFlow, SendPingKeepsFlow
  <2>3. (SessionClosed => wire = <<>>)'
    BY <1>1, <1>7 DEF StopBegins, CloseSession, CloseStreams, SendPing, SessionClosed
  <2> QED
    BY <2>1, <2>2, <2>3 DEF MuxInv, FlowInv
<1>8. CASE UNCHANGED vars
  <2>1. UNCHANGED <<sent, finished, wire, session, writeMu, loop, held, table, closed, ch,
                    handler, writer, writing, client, got>>
    BY <1>8 DEF vars
  <2>2. TypeOK'
    BY <1>1, <2>1 DEF TypeOK
  <2>3. /\ SessionClosed' = SessionClosed
        /\ \A x \in Streams : Holds(x)' = Holds(x) /\ Opened(x)' = Opened(x)
    BY <2>1 DEF SessionClosed, Holds, Opened
  <2>4. ASSUME NEW x \in Streams
        PROVE  FlowInv(x)'
    <3>1. InOrder(x)' /\ NoGap(x)'
      BY <1>1, <2>1, <2>3, LosingKeepsOrder, StayingKeepsNoGap DEF FlowInv
    <3>2. FramesOfOpened(x)' /\ CutAfterLastFrame(x)'
      BY <1>1, <2>1, <2>3 DEF FlowInv, FramesOfOpened, CutAfterLastFrame
    <3> QED
      BY <3>1, <3>2 DEF FlowInv
  <2>5. (SessionClosed => wire = <<>>)'
    BY <1>1, <2>1, <2>3
  <2> QED
    BY <2>2, <2>4, <2>5 DEF MuxInv, FlowInv
<1> QED
  BY <1>3, <1>4, <1>5, <1>6, <1>7, <1>8 DEF Next, HandlerMoves, MuxInv, FlowInv

\* The invariant holds in every reachable state of a session.
THEOREM MuxInvHolds == Spec => []MuxInv
BY MuxInvInit, MuxInvStep, PTL DEF Spec

\* The state of a session has its type.
THEOREM MuxTypeCorrect == Spec => []TypeOK
<1>1. MuxInv => TypeOK
  BY DEF MuxInv
<1> QED
  BY <1>1, MuxInvHolds, PTL

---------------------------------------------------------------------------
(* The pipes.                                                              *)

\* What the writer gives a client is the next chunk, or a later one when the client
\* closed a direction of its connection.
LEMMA WriteDoneDelivers ==
  ASSUME MuxInv, NEW s \in Streams, WriteDone(s)
  PROVE  Pipes!Deliver(s)
<1>1. InOrder(s) /\ NoGap(s) /\ TypeOK
  BY DEF MuxInv
<1>2. /\ writer[s] = "write" /\ client' = client /\ sent' = sent
      /\ got' = [got EXCEPT ![s] = Append(@, writing[s])]
  BY DEF WriteDone, WriterStep, origin
<1>3. /\ writing[s] \in Pipes!LastOf(got[s]) + 1 .. sent[s]
      /\ client[s] = "open" => writing[s] = Pipes!LastOf(got[s]) + 1
  <2>1. /\ writing[s] > Pipes!LastOf(got[s]) /\ Floor(s) = writing[s] /\ Floor(s) <= sent[s]
        /\ writing[s] \in Nat
    BY <1>1, <1>2 DEF InOrder, Floor, TypeOK
  <2> QED
    BY <1>1, <1>2, <2>1, FloorIsNat DEF NoGap
<1> QED
  BY <1>2, <1>3 DEF Pipes!Deliver

\* Every step of the session is one of its pipes' or changes nothing of them.
LEMMA MuxStepIsPipes ==
  ASSUME MuxInv, [Next]_vars
  PROVE  [Pipes!PipesNext]_(Pipes!pipes)
<1> DEFINE lossy == {s \in Streams : client[s] # "open"}
<1>1. TypeOK
  BY DEF MuxInv
<1>2. ASSUME NEW s \in Streams, sent' = sent, got' = got,
             \/ client' = client
             \/ \E c \in {"halfClosed", "gone"} : client' = [client EXCEPT ![s] = c]
      PROVE  [Pipes!PipesNext]_(Pipes!pipes)
  <2>1. lossy' = lossy \/ lossy' = lossy \cup {s}
    BY <1>1, <1>2 DEF TypeOK
  <2> QED
    BY <1>2, <2>1 DEF Pipes!PipesNext, Pipes!Close, Pipes!pipes
<1>3. ASSUME UNCHANGED <<sent, got, client>>
      PROVE  [Pipes!PipesNext]_(Pipes!pipes)
  BY <1>3 DEF Pipes!pipes
<1>4. ASSUME NEW s \in Streams,
             PickSession(s) \/ NotifyFails(s) \/ HandlerCloses(s) \/ HalfClose(s) \/ Leave(s)
      PROVE  [Pipes!PipesNext]_(Pipes!pipes)
  <2>1. sent' = sent /\ got' = got
    BY <1>4 DEF PickSession, NotifyFails, HandlerCloses, HalfClose, Leave, origin
  <2>2. \/ client' = client
        \/ \E c \in {"halfClosed", "gone"} : client' = [client EXCEPT ![s] = c]
    BY <1>4 DEF PickSession, NotifyFails, HandlerCloses, CleanUp, HalfClose, Leave
  <2> QED
    BY <1>2, <2>1, <2>2
<1>5. ASSUME NEW s \in Streams, Produce(s)
      PROVE  [Pipes!PipesNext]_(Pipes!pipes)
  <2>1. Pipes!Send(s)
    BY <1>5 DEF Produce, Pipes!Send
  <2> QED
    BY <2>1 DEF Pipes!PipesNext
<1>6. ASSUME NEW s \in Streams, WriteDone(s)
      PROVE  [Pipes!PipesNext]_(Pipes!pipes)
  <2>1. Pipes!Deliver(s)
    BY <1>6, WriteDoneDelivers
  <2> QED
    BY <2>1 DEF Pipes!PipesNext
<1>7. ASSUME NEW s \in Streams,
             \/ Register(s) \/ NotifyOpen(s) \/ HandlerReads(s) \/ Forwarded(s) \/ ForwardFails(s)
             \/ HandlerReadEnds(s) \/ HandlerDone(s) \/ HandlerBlocks(s)
             \/ Writer(s) \/ Finish(s)
      PROVE  [Pipes!PipesNext]_(Pipes!pipes)
  BY <1>3, <1>7 DEF Register, NotifyOpen, HandlerReads, Forwarded, ForwardFails, HandlerReadEnds,
                    HandlerDone, HandlerBlocks, WriteBlocks, Writer, WriterTakes, WriterStops,
                    WriteFails, Finish, origin
<1>8. CASE \/ Dispatch \/ PongDone \/ ReaderBlocks \/ ReadFails
           \/ StopBegins \/ CloseSession \/ CloseStreams \/ SendPing
  BY <1>3, <1>8 DEF Dispatch, ReadData, ReadClose, ReadPing, PongDone, ReaderBlocks, WriteBlocks,
                    Enqueue, DropClosed, OfferInterrupted, ReadFails, LoopEnds, StopBegins,
                    CloseSession, CloseStreams, SendPing, origin
<1>9. CASE UNCHANGED vars
  BY <1>3, <1>9 DEF vars
<1> QED
  BY <1>4, <1>5, <1>6, <1>7, <1>8, <1>9 DEF Next, Handler, HandlerSent, Environment

\* However its goroutines race, the session moves every stream's chunks as a pipe of
\* that stream's own would: in order, to their client only, and without a gap while
\* the client keeps its connection whole.
THEOREM MuxImplementsPipes == Spec => ImplementsPipes
<1>1. Init => Pipes!PipesInit
  BY DEF Init, Pipes!PipesInit
<1>2. MuxInv /\ [Next]_vars => [Pipes!PipesNext]_(Pipes!pipes)
  BY MuxStepIsPipes
<1> QED
  BY <1>1, <1>2, MuxInvHolds, PTL DEF Spec, ImplementsPipes, Pipes!PipesSpec
=================================================================================
