---------------------------- MODULE StreamPipes ----------------------------
(***************************************************************************)
(* What a multiplexed relay session promises the clients behind it: every  *)
(* stream is a pipe of its own.  A chunk the origin sent on a stream       *)
(* reaches that stream's client in order and without a gap, whatever       *)
(* happens on the other streams, for as long as the client keeps both      *)
(* directions of its connection open.  After that the pipe may lose chunks *)
(* but never reorders or repeats them.                                     *)
(***************************************************************************)
EXTENDS Naturals, Sequences, SequencesExt

CONSTANT Streams

VARIABLES sent,  \* chunks the origin has sent on each stream: 1 .. sent[s]
          got,   \* the chunks each client received, in order
          lossy  \* the streams whose client no longer keeps its connection whole

pipes == <<sent, got, lossy>>

PipesInit ==
  /\ sent = [s \in Streams |-> 0]
  /\ got = [s \in Streams |-> <<>>]
  /\ lossy = {}

Send(s) ==
  /\ sent' = [sent EXCEPT ![s] = @ + 1]
  /\ UNCHANGED <<got, lossy>>

LastOf(g) == IF g = <<>> THEN 0 ELSE Last(g)

Deliver(s) ==
  /\ \E n \in LastOf(got[s]) + 1 .. sent[s] :
       /\ s \notin lossy => n = LastOf(got[s]) + 1
       /\ got' = [got EXCEPT ![s] = Append(@, n)]
  /\ UNCHANGED <<sent, lossy>>

Close(s) ==
  /\ lossy' = lossy \cup {s}
  /\ UNCHANGED <<sent, got>>

PipesNext == \E s \in Streams : Send(s) \/ Deliver(s) \/ Close(s)

PipesSpec == PipesInit /\ [][PipesNext]_pipes
=============================================================================
