----------------------------- MODULE RelayMux -----------------------------
(***************************************************************************)
(* The data plane of one origin session of the relay                       *)
(* (server/pkg/relay/relay.go).                                            *)
(*                                                                         *)
(* One goroutine reads the frames of the session's connection and hands    *)
(* each to the stream it names, through that stream's bounded channel.     *)
(* Each client has a handler goroutine, which registers the stream and     *)
(* then reads from the client, and a writer goroutine, which takes chunks  *)
(* off the channel and writes them to the client.  A stream has a `closed` *)
(* channel of its own, the session has another, and the writer and the     *)
(* session's reader select among them; a select takes any ready branch.    *)
(*                                                                         *)
(* The handlers (StreamOpen, what the client sends, StreamClose) and the   *)
(* reader (its answer to a Ping) write to the session's connection under   *)
(* one mutex and without a deadline: an origin that stops reading keeps    *)
(* the one that writes, and all that wait for the mutex.                   *)
(*                                                                         *)
(* Chunks are numbered per stream in the order the origin sends them; what *)
(* clients send is left out but for the writing of it.                     *)
(***************************************************************************)
EXTENDS Naturals, Sequences, FiniteSets

CONSTANTS Streams,       \* streams of the session, each opened at most once
          Fickle,        \* streams their client or the origin may close
          Slow,          \* streams whose client may stop reading for good
          Talking,       \* streams whose client sends something
          Late,          \* bound: streams whose client comes when the others are open
          OriginMayStall,\* whether the origin may stop reading for a while or for good
          Capacity,      \* the buffer of a stream's dataCh (32)
          MaxChunks,     \* bound: chunks the origin sends on each stream
          WireCapacity   \* bound: frames in flight from the origin

ASSUME StreamsAssumption ==
  /\ Fickle \subseteq Streams /\ Slow \subseteq Streams /\ Talking \subseteq Streams
  /\ Late \subseteq Streams
  /\ Streams \cap {"ping", "reader", "nobody"} = {}
ASSUME StallAssumption == OriginMayStall \in BOOLEAN
ASSUME BoundsAssumption ==
  Capacity \in Nat \ {0} /\ MaxChunks \in [Streams -> Nat] /\ WireCapacity \in Nat \ {0}

VARIABLES
  sent,      \* chunks the origin has sent on each stream
  finished,  \* streams the origin has sent StreamClose for
  wire,      \* frames on the session's connection, oldest first
  session,   \* open, stopping (RelayServer.Stop has begun, RelayServer.closed is
             \* closed), closing (its own closed channel is, its streams not yet), closed
  writeMu,   \* who holds the connection's mutex in a write that blocks: a handler, the
             \* reader, nobody
  loop,      \* the session's reader: reading a frame, offering a chunk, answering a
             \* Ping, ended
  held,      \* the frame the reader offers to its stream's channel
  table,     \* session.streams
  closed,    \* streams whose closed channel is closed
  ch,        \* dataCh of each stream
  handler,   \* where each handler goroutine is
  writer,    \* where each writer goroutine is
  writing,   \* the chunk each writer is writing to its client
  client,    \* each client's connection: open, halfClosed, gone
  got        \* the chunks each client received

vars == <<sent, finished, wire, session, writeMu, loop, held, table, closed, ch, handler,
          writer, writing, client, got>>

origin == <<sent, finished>>
reader == <<loop, held>>
streams == <<table, closed>>
writers == <<writer, writing>>

-----------------------------------------------------------------------------

\* A frame from the origin: chunk n of stream s, its StreamClose (n = 0), or a Ping.
Ping == [s |-> "ping", n |-> 0]
Frames == [s : Streams, n : Nat] \cup {Ping}
Chunks == [s : Streams, n : Nat \ {0}]
NoFrame == [s |-> "none", n |-> 0]
IsClose(f) == f # Ping /\ f.n = 0
IsChunk(f) == f.n # 0

SessionClosed == session \in {"closing", "closed"}
StreamClosed(s) == s \in closed

Init ==
  /\ sent = [s \in Streams |-> 0]
  /\ finished = {}
  /\ wire = <<>>
  /\ session = "open"
  /\ writeMu = "nobody"
  /\ loop = "read"
  /\ held = NoFrame
  /\ table = {}
  /\ closed = {}
  /\ ch = [s \in Streams |-> <<>>]
  /\ handler = [s \in Streams |-> "none"]
  /\ writer = [s \in Streams |-> "none"]
  /\ writing = [s \in Streams |-> 0]
  /\ client = [s \in Streams |-> "open"]
  /\ got = [s \in Streams |-> <<>>]

\* Where a handler is in session.sendFrame: StreamOpen, StreamData, StreamClose.
Sending == {"registered", "sending", "closing"}

\* StreamOpen is written.
Opened(s) == handler[s] \in {"reading", "sending", "waiting", "closing", "done"}

HandlerStep(s, from, to) ==
  /\ handler[s] = from
  /\ handler' = [handler EXCEPT ![s] = to]

WriterStep(s, from, to) ==
  /\ writer[s] = from
  /\ writer' = [writer EXCEPT ![s] = to]

-----------------------------------------------------------------------------
\* The handler of a client: handleClientConn.

\* getActiveOrigin finds the session open, or there is none and the client is
\* disconnected.
PickSession(s) ==
  /\ s \in Late => \A t \in Streams \ Late : Opened(t)
  /\ HandlerStep(s, "none", IF SessionClosed THEN "done" ELSE "picked")
  /\ client' = IF SessionClosed THEN [client EXCEPT ![s] = "gone"] ELSE client
  /\ UNCHANGED <<origin, wire, session, writeMu, reader, streams, ch, writers, got>>

Register(s) ==
  /\ HandlerStep(s, "picked", "registered")
  /\ table' = table \cup {s}
  /\ UNCHANGED <<origin, wire, session, writeMu, reader, closed, ch, writers, client, got>>

\* session.sendFrame returns: the frame is written, or the connection is closed.  A
\* write is one step with the waiting for the mutex, but for one that blocks.
SendDone(s, from, to) ==
  /\ writeMu \in {s, "nobody"}
  /\ writeMu' = "nobody"
  /\ HandlerStep(s, from, to)

\* The origin does not read: the write fills the connection and keeps the mutex.
WriteBlocks(holder) ==
  /\ OriginMayStall /\ ~SessionClosed
  /\ writeMu = "nobody"
  /\ writeMu' = holder
  /\ UNCHANGED <<origin, wire, session, reader, streams, ch, handler, writers, client, got>>

HandlerBlocks(s) == handler[s] \in Sending /\ WriteBlocks(s)

\* StreamOpen is written: start the writer and read from the client.
NotifyOpen(s) ==
  /\ ~SessionClosed
  /\ SendDone(s, "registered", "reading")
  /\ WriterStep(s, "none", "select")
  /\ UNCHANGED <<origin, wire, session, reader, streams, ch, writing, client,
                 got>>

\* The deferred function, up to its last sendFrame.
CleanUp(s) ==
  /\ table' = table \ {s}
  /\ closed' = closed \cup {s}
  /\ client' = [client EXCEPT ![s] = "gone"]

NotifyFails(s) ==
  /\ SessionClosed
  /\ SendDone(s, "registered", "closing")
  /\ CleanUp(s)
  /\ UNCHANGED <<origin, wire, session, reader, ch, writers, got>>

\* The client sent something for the origin.
HandlerReads(s) ==
  /\ s \in Talking
  /\ client[s] = "open"
  /\ HandlerStep(s, "reading", "sending")
  /\ UNCHANGED <<origin, wire, session, writeMu, reader, streams, ch, writers, client, got>>

Forwarded(s) ==
  /\ ~SessionClosed
  /\ SendDone(s, "sending", "reading")
  /\ UNCHANGED <<origin, wire, session, reader, streams, ch, writers, client,
                 got>>

\* The connection is closed: as HandlerReadEnds.
ForwardFails(s) ==
  /\ SessionClosed
  /\ SendDone(s, "sending", "waiting")
  /\ closed' = closed \cup {s}
  /\ UNCHANGED <<origin, wire, session, reader, table, ch, writers, client, got>>

\* Mutant of HandlerReadEnds: waits for the writer without closing the stream.
ReadEndsUnannounced(s) ==
  /\ client[s] # "open"
  /\ HandlerStep(s, "reading", "waiting")
  /\ UNCHANGED <<origin, wire, session, writeMu, reader, streams, ch, writers, client, got>>

\* The client closed its sending side or is gone: leave the read loop, close the
\* stream and wait for the writer.
HandlerReadEnds(s) ==
  /\ client[s] # "open"
  /\ HandlerStep(s, "reading", "waiting")
  /\ closed' = closed \cup {s}
  /\ UNCHANGED <<origin, wire, session, writeMu, reader, table, ch, writers, client, got>>

\* Nobody is left to receive from the stream's channel.
HandlerCloses(s) ==
  /\ writer[s] = "exited"
  /\ HandlerStep(s, "waiting", "closing")
  /\ CleanUp(s)
  /\ ch' = [ch EXCEPT ![s] = <<>>]
  /\ UNCHANGED <<origin, wire, session, writeMu, reader, writers, got>>

\* StreamClose is written, or could not be.
HandlerDone(s) ==
  /\ SendDone(s, "closing", "done")
  /\ UNCHANGED <<origin, wire, session, reader, streams, ch, writers, client,
                 got>>

-----------------------------------------------------------------------------
\* The writer of a client: the goroutine handleClientConn starts.

WriterTakes(s) ==
  /\ ch[s] # <<>>
  /\ WriterStep(s, "select", "write")
  /\ writing' = [writing EXCEPT ![s] = Head(ch[s])]
  /\ ch' = [ch EXCEPT ![s] = Tail(@)]
  /\ UNCHANGED <<origin, wire, session, writeMu, reader, streams, handler, client, got>>

\* Mutant of WriterStops: an empty channel ends the writer, too.
WriterStopsIdle(s) ==
  /\ StreamClosed(s) \/ session # "open" \/ ch[s] = <<>>
  /\ WriterStep(s, "select", "exited")
  /\ UNCHANGED <<origin, wire, session, writeMu, reader, streams, ch, handler, writing, client, got>>

\* One of the stream's, the session's and the server's closed channels is closed.
WriterStops(s) ==
  /\ StreamClosed(s) \/ session # "open"
  /\ WriterStep(s, "select", "exited")
  /\ UNCHANGED <<origin, wire, session, writeMu, reader, streams, ch, handler, writing, client, got>>

\* clientConn.Write returns once the client has read enough.
WriteDone(s) ==
  /\ client[s] # "gone"
  /\ WriterStep(s, "write", "select")
  /\ got' = [got EXCEPT ![s] = Append(@, writing[s])]
  /\ writing' = [writing EXCEPT ![s] = 0]
  /\ UNCHANGED <<origin, wire, session, writeMu, reader, streams, ch, handler, client>>

WriteFails(s) ==
  /\ client[s] = "gone"
  /\ WriterStep(s, "write", "exited")
  /\ writing' = [writing EXCEPT ![s] = 0]
  /\ UNCHANGED <<origin, wire, session, writeMu, reader, streams, ch, handler, client, got>>

-----------------------------------------------------------------------------
\* The session's reader: the frame loop of handleControlConn.

\* A chunk for a stream that is not in the table is dropped.
ReadData ==
  /\ loop = "read"
  /\ ~SessionClosed
  /\ wire # <<>>
  /\ IsChunk(Head(wire))
  /\ wire' = Tail(wire)
  /\ IF Head(wire).s \in table
     THEN loop' = "offer" /\ held' = Head(wire)
     ELSE UNCHANGED reader
  /\ UNCHANGED <<origin, session, writeMu, streams, ch, handler, writers, client, got>>

ReadClose ==
  /\ loop = "read"
  /\ ~SessionClosed
  /\ wire # <<>>
  /\ IsClose(Head(wire))
  /\ wire' = Tail(wire)
  /\ table' = table \ {Head(wire).s}
  /\ closed' = closed \cup (table \cap {Head(wire).s})
  /\ UNCHANGED <<origin, session, writeMu, reader, ch, handler, writers, client, got>>

ReadPing ==
  /\ loop = "read"
  /\ ~SessionClosed
  /\ wire # <<>>
  /\ Head(wire) = Ping
  /\ wire' = Tail(wire)
  /\ loop' = "pong"
  /\ UNCHANGED <<origin, session, writeMu, held, streams, ch, handler, writers, client, got>>

ReaderBlocks == loop = "pong" /\ WriteBlocks("reader")

\* Pong is written, or could not be: the loop goes on either way.
PongDone ==
  /\ loop = "pong"
  /\ writeMu \in {"reader", "nobody"}
  /\ writeMu' = "nobody"
  /\ loop' = "read"
  /\ UNCHANGED <<origin, wire, session, held, streams, ch, handler, writers,
                 client, got>>

\* Mutant of DropClosed: a full channel drops the chunk instead of waiting.
DropWhenFull ==
  /\ loop = "offer"
  /\ StreamClosed(held.s) \/ Len(ch[held.s]) = Capacity
  /\ loop' = "read"
  /\ held' = NoFrame
  /\ UNCHANGED <<origin, wire, session, writeMu, streams, ch, handler, writers, client, got>>

\* The three branches of the reader's select.
Enqueue ==
  /\ loop = "offer"
  /\ Len(ch[held.s]) < Capacity
  /\ ch' = [ch EXCEPT ![held.s] = Append(@, held.n)]
  /\ loop' = "read"
  /\ held' = NoFrame
  /\ UNCHANGED <<origin, wire, session, writeMu, streams, handler, writers, client, got>>

DropClosed ==
  /\ loop = "offer"
  /\ StreamClosed(held.s)
  /\ loop' = "read"
  /\ held' = NoFrame
  /\ UNCHANGED <<origin, wire, session, writeMu, streams, ch, handler, writers, client, got>>

\* The session was closed under the reader, or its connection broke: the deferred
\* function closes the session unless it is closed already.
LoopEnds ==
  /\ loop' = "ended"
  /\ held' = NoFrame
  /\ session' = IF SessionClosed THEN session ELSE "closing"
  /\ wire' = <<>>
  /\ UNCHANGED <<origin, writeMu, streams, ch, handler, writers, client, got>>

OfferInterrupted == loop = "offer" /\ SessionClosed /\ LoopEnds

\* Mutant of ReadFails: close() leaves the connection open, so the reader that
\* waits for a frame does not notice.
ReadFailsUnlessClosed == loop = "read" /\ ~SessionClosed /\ LoopEnds

ReadFails == loop = "read" /\ LoopEnds

-----------------------------------------------------------------------------
\* originSession.close, by the reader, by the session that replaces this one or
\* by RelayServer.Stop: the session's channel and connection first, then the
\* streams under their lock.

StopBegins ==
  /\ session = "open"
  /\ session' = "stopping"
  /\ UNCHANGED <<origin, wire, writeMu, reader, streams, ch, handler, writers, client, got>>

CloseSession ==
  /\ ~SessionClosed
  /\ session' = "closing"
  /\ wire' = <<>>
  /\ UNCHANGED <<origin, writeMu, reader, streams, ch, handler, writers, client, got>>

CloseStreams ==
  /\ session = "closing"
  /\ session' = "closed"
  /\ closed' = closed \cup table
  /\ table' = {}
  /\ UNCHANGED <<origin, wire, writeMu, reader, ch, handler, writers, client, got>>

-----------------------------------------------------------------------------
\* The environment: the origin, once it saw StreamOpen, and the clients, whose
\* closing nobody notices before the handler and the writer run.

Produce(s) ==
  /\ Opened(s) /\ ~SessionClosed /\ s \notin finished
  /\ sent[s] < MaxChunks[s]
  /\ Len(wire) < WireCapacity
  /\ sent' = [sent EXCEPT ![s] = @ + 1]
  /\ wire' = Append(wire, [s |-> s, n |-> sent'[s]])
  /\ UNCHANGED <<finished, session, writeMu, reader, streams, ch, handler, writers, client, got>>

Finish(s) ==
  /\ s \in Fickle /\ Opened(s) /\ ~SessionClosed /\ s \notin finished
  /\ Len(wire) < WireCapacity
  /\ finished' = finished \cup {s}
  /\ wire' = Append(wire, [s |-> s, n |-> 0])
  /\ UNCHANGED <<sent, session, writeMu, reader, streams, ch, handler, writers, client, got>>

SendPing ==
  /\ ~SessionClosed
  /\ Len(wire) < WireCapacity
  /\ wire' = Append(wire, Ping)
  /\ UNCHANGED <<origin, session, writeMu, reader, streams, ch, handler, writers, client, got>>

HalfClose(s) ==
  /\ s \in Fickle /\ handler[s] # "none"
  /\ client[s] = "open"
  /\ client' = [client EXCEPT ![s] = "halfClosed"]
  /\ UNCHANGED <<origin, wire, session, writeMu, reader, streams, ch, handler, writers, got>>

Leave(s) ==
  /\ s \in Fickle /\ handler[s] # "none"
  /\ client[s] # "gone"
  /\ client' = [client EXCEPT ![s] = "gone"]
  /\ UNCHANGED <<origin, wire, session, writeMu, reader, streams, ch, handler, writers, got>>

-----------------------------------------------------------------------------

Handler(s) == PickSession(s) \/ Register(s) \/ HandlerReadEnds(s) \/ HandlerCloses(s)

\* A handler's write returns.
HandlerSent(s) == \/ NotifyOpen(s) \/ NotifyFails(s)
                  \/ Forwarded(s) \/ ForwardFails(s)
                  \/ HandlerDone(s)

Writer(s) == WriterTakes(s) \/ WriterStops(s) \/ WriteFails(s)

Dispatch == ReadData \/ ReadClose \/ ReadPing \/ Enqueue \/ DropClosed \/ OfferInterrupted

Environment(s) == Produce(s) \/ Finish(s) \/ HalfClose(s) \/ Leave(s)

Next ==
  \/ \E s \in Streams : \/ Handler(s) \/ HandlerReads(s)
                        \/ HandlerSent(s) \/ HandlerBlocks(s)
                        \/ Writer(s) \/ WriteDone(s)
                        \/ Environment(s)
  \/ Dispatch \/ PongDone \/ ReaderBlocks \/ ReadFails
  \/ StopBegins \/ CloseSession \/ CloseStreams
  \/ SendPing

Spec == Init /\ [][Next]_vars

(***************************************************************************)
(* Fairness.  Every goroutine that can go on does.  Go's mutex goes to     *)
(* each goroutine that waits for it, however often others take it (strong  *)
(* fairness), and a write to the origin returns unless it blocks; one that *)
(* blocks is sure to return once the connection is closed only.  A write   *)
(* to a client returns unless the client is in Slow.  Neither write has a  *)
(* deadline.  Nothing makes a client send or leave, the origin send, or    *)
(* the session end; that ReadFails follows a closed connection is in the   *)
(* last conjunct.                                                          *)
(***************************************************************************)
Unblocked == writeMu = "nobody" \/ SessionClosed

Fairness ==
  /\ \A s \in Streams : /\ WF_vars(Handler(s)) /\ WF_vars(Writer(s))
                        /\ SF_vars(Unblocked /\ HandlerSent(s))
  /\ \A s \in Streams \ Slow : WF_vars(WriteDone(s))
  /\ WF_vars(Dispatch) /\ SF_vars(Unblocked /\ PongDone)
  /\ WF_vars(CloseStreams)
  /\ WF_vars(SessionClosed /\ ReadFails)

FairSpec == Spec /\ Fairness

-----------------------------------------------------------------------------

TypeOK ==
  /\ sent \in [Streams -> Nat]
  /\ \A s \in Streams : sent[s] <= MaxChunks[s]
  /\ finished \subseteq Streams
  /\ wire \in Seq(Frames) /\ Len(wire) <= WireCapacity
  /\ session \in {"open", "stopping", "closing", "closed"}
  /\ writeMu \in Streams \cup {"reader", "nobody"}
  /\ loop \in {"read", "offer", "pong", "ended"}
  /\ held \in IF loop = "offer" THEN Chunks ELSE {NoFrame}
  /\ table \subseteq Streams /\ closed \subseteq Streams
  /\ ch \in [Streams -> Seq(Nat \ {0})]
  /\ \A s \in Streams : Len(ch[s]) <= Capacity
  /\ handler \in [Streams -> {"none", "picked", "registered", "reading", "sending",
                              "waiting", "closing", "done"}]
  /\ writer \in [Streams -> {"none", "select", "write", "exited"}]
  /\ writing \in [Streams -> Nat]
  /\ client \in [Streams -> {"open", "halfClosed", "gone"}]
  /\ got \in [Streams -> Seq(Nat \ {0})]

\* However the goroutines of the session race, each stream behaves as a pipe of
\* its own: nothing is reordered, repeated or delivered to another client, and
\* nothing is skipped while the client keeps its connection whole.
Pipes == INSTANCE StreamPipes WITH lossy <- {s \in Streams : client[s] # "open"}
ImplementsPipes == Pipes!PipesSpec

\* Closing a session frees its reader even when it waits for room in the channel
\* of a client that stopped reading (the session.closed branch of its select).
ClosedSessionEndsReader == SessionClosed ~> (loop = "ended")

\* A write waits for an origin that does not read, and nobody closes the session for it.
OriginStuck == writeMu # "nobody" /\ ~SessionClosed

\* The relay forgets a client that left, in every state of its session: its
\* handler ends, so that RelayServer.Stop can return.  Only an origin that stops
\* reading for good, in a session that nobody closes, can keep it.
LeftClientIsForgotten ==
  \/ <>[]OriginStuck
  \/ \A s \in Streams : (client[s] = "gone" /\ handler[s] # "none") ~> (handler[s] = "done")

Arrived(s, n) == \E i \in DOMAIN got[s] : got[s][i] = n

\* The stream was given up: by the client, by the origin or with the session.
Cut(s) == client[s] # "open" \/ s \in closed \/ session # "open"

\* A chunk the origin sent to a client that reads arrives, unless its stream is
\* given up.
ChunksArrive ==
  \A s \in Streams \ Slow : \A n \in 1 .. MaxChunks[s] :
    (sent[s] = n) ~> (Arrived(s, n) \/ Cut(s))

\* The reader waits for room in the channel of a client that stopped reading.
StalledBySlowClient ==
  loop = "offer" /\ held.s \in Slow /\ Len(ch[held.s]) = Capacity

\* There are two ways for a chunk not to arrive, and no third: for good, the reader
\* waits for a client that stopped reading, or for the connection of an origin that did.
ChunksArriveUnlessStalled == <>[]StalledBySlowClient \/ <>[]OriginStuck \/ ChunksArrive

-----------------------------------------------------------------------------
(***************************************************************************)
(* What the repository says of the data plane and the code does not do.    *)
(***************************************************************************)

\* "No global HOL failure": with an origin that reads, a chunk for a client that
\* reads arrives whatever the clients of the other streams do.
OneSlowStreamBlocksNoOther == ChunksArrive
=============================================================================
