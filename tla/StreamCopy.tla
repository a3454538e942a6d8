------------------------------- MODULE StreamCopy -------------------------------
(***************************************************************************)
(* One of the two directions of a tunnel (copy_until_shutdown,             *)
(* socks5_proto.rs).  Both sockets have the poll timeout: a read that      *)
(* times out is tried again, a write that times out ends the copy half-way *)
(* through its buffer.  Data is counted in pieces, which stay in order.    *)
(***************************************************************************)
EXTENDS Naturals

CONSTANTS
  Length,   \* pieces the sender has
  Buffer,   \* pieces one read returns at most
  Window    \* pieces the receiver's socket holds
ASSUME CopyAssumption == Length \in Nat /\ Buffer \in Nat /\ Window \in Nat

VARIABLES
  sender,     \* [sent, closed]
  read,       \* pieces the copy has read
  written,    \* of these, pieces given to the receiver's socket
  taken,      \* of these, pieces the receiver has taken
  shutdownFlag,
  at,         \* where the loop is; the receiver sees a clean end once it ended
  cut         \* for the properties: why it ended, if not at the sender's end

copyVars == <<sender, read, written, taken, shutdownFlag, at, cut>>

CopyInit ==
  /\ sender = [sent |-> 0, closed |-> FALSE]
  /\ read = 0 /\ written = 0 /\ taken = 0
  /\ shutdownFlag = FALSE
  /\ at = "top"
  /\ cut = "no"

CopyTypeOK ==
  /\ sender \in [sent : Nat, closed : BOOLEAN]
  /\ read \in Nat /\ written \in Nat /\ taken \in Nat
  /\ shutdownFlag \in BOOLEAN
  /\ at \in {"top", "reading", "writing", "ended"}
  /\ cut \in {"no", "shutdown", "stalled", "reset"}

\* The ends of the tunnel, and the stop of the layer.
EndsMove ==
  /\ \/ /\ ~sender.closed /\ sender.sent < Length
        /\ sender' = [sender EXCEPT !.sent = @ + 1]
        /\ UNCHANGED <<taken, shutdownFlag>>
     \/ /\ sender' = [sender EXCEPT !.closed = TRUE]
        /\ UNCHANGED <<taken, shutdownFlag>>
     \/ /\ taken < written
        /\ taken' = taken + 1
        /\ UNCHANGED <<sender, shutdownFlag>>
     \/ /\ shutdownFlag' = TRUE
        /\ UNCHANGED <<sender, taken>>
  /\ UNCHANGED <<read, written, at, cut>>

\* The flag is looked at before every read, and not again until the next.
LooksAtFlag ==
  /\ at = "top"
  /\ IF shutdownFlag THEN at' = "ended" /\ cut' = "shutdown"
     ELSE at' = "reading" /\ UNCHANGED cut
  /\ UNCHANGED <<sender, read, written, taken, shutdownFlag>>

ReadSome ==
  /\ at = "reading"
  /\ \E n \in 1..Buffer : read + n <= sender.sent /\ read' = read + n
  /\ at' = "writing"
  /\ UNCHANGED <<sender, written, taken, shutdownFlag, cut>>

NothingToRead == at = "reading" /\ read = sender.sent

\* Mutant of ReadTimesOut: it ends the copy like any other error.
ReadTimeoutBreaks ==
  /\ NothingToRead /\ ~sender.closed
  /\ at' = "ended"
  /\ UNCHANGED <<sender, read, written, taken, shutdownFlag, cut>>

ReadTimesOut ==
  /\ NothingToRead /\ ~sender.closed
  /\ at' = "top"
  /\ UNCHANGED <<sender, read, written, taken, shutdownFlag, cut>>

ReadEnd ==
  /\ NothingToRead /\ sender.closed
  /\ at' = "ended"
  /\ UNCHANGED <<sender, read, written, taken, shutdownFlag, cut>>

WriteSome ==
  /\ at = "writing" /\ written < taken + Window
  /\ written' = written + 1
  /\ at' = IF written + 1 = read THEN "top" ELSE "writing"
  /\ UNCHANGED <<sender, read, taken, shutdownFlag, cut>>

\* The rest of the buffer is lost, and the receiver is told that this was the end.
WriteTimesOut ==
  /\ at = "writing" /\ written >= taken + Window
  /\ at' = "ended" /\ cut' = "stalled"
  /\ UNCHANGED <<sender, read, written, taken, shutdownFlag>>

StreamIsReset ==
  /\ at \in {"reading", "writing"}
  /\ at' = "ended" /\ cut' = "reset"
  /\ UNCHANGED <<sender, read, written, taken, shutdownFlag>>

CopyNext ==
  \/ EndsMove
  \/ LooksAtFlag
  \/ ReadSome
  \/ ReadTimesOut
  \/ ReadEnd
  \/ WriteSome
  \/ WriteTimesOut
  \/ StreamIsReset

CopySpec == CopyInit /\ [][CopyNext]_copyVars

\* The receiver's clean end is the sender's: all that was sent before it has been
\* given to the receiver, unless the layer was stopped, a socket was reset or the
\* receiver stalled for as long as the poll timeout, which it cannot tell apart.
CopyIsComplete ==
  at = "ended" /\ cut = "no" => sender.closed /\ written = sender.sent
=================================================================================
