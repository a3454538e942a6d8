------------------------ MODULE DualFailoverProofs ------------------------
(***************************************************************************)
(* Proofs about DualFailover, for any set of workers and any failure       *)
(* threshold.                                                              *)
(***************************************************************************)
EXTENDS DualFailover, TLAPS

USE MaxFailuresAssumption

\* Counting keeps to the range of the count.
LEMMA CountsAreFailures ==
  /\ 0 \in Failures /\ MaxFailures \in Failures
  /\ \A n \in Failures : OneMore(n) \in Failures
BY DEF Failures, OneMore, Threshold

\* The types are an invariant of every step.
LEMMA TypeStep == TypeOK /\ [Next]_vars => TypeOK'
<1> SUFFICES ASSUME TypeOK, [Next]_vars PROVE TypeOK'
  OBVIOUS
<1> USE DEF TypeOK, States, Upstreams, WorkerSteps, OwnerSteps, ListenerSteps,
            Serving, AtStep
<1>1. CASE StartProxy
  BY <1>1 DEF StartProxy
<1>2. CASE Starting
  <2>1. StartFailures \in Failures
    BY CountsAreFailures DEF StartFailures
  <2> QED
    BY <1>2, <2>1 DEF Starting, StartServing, StartBindFailed, StartUnavailable
<1>3. CASE Probe
  BY <1>3 DEF Probe
<1>4. CASE Probing
  BY <1>4, CountsAreFailures
     DEF Probing, ProbeCooldown, ProbeAnswered, ProbeFailed, ProbeSetRole, ProbeSetState
<1>5. CASE Stop \/ Stopping
  BY <1>5 DEF Stop, Stopping, StopJoinListener, StopJoinWorkers, StopSetState
<1>6. CASE Listener
  BY <1>6 DEF Listener, ListenerAccept, ListenerFailed, ListenerSpawn
<1>7. ASSUME NEW w \in Workers, WorkerRuns(w) PROVE TypeOK'
  <2>1. CASE ClientRejected(w) \/ CheckState(w)
    BY <2>1 DEF ClientRejected, CheckState
  <2>2. CASE CheckRole(w)
    BY <2>2 DEF CheckRole, DialOf
  <2>3. CASE PrimaryAnswered(w)
    BY <2>3, CountsAreFailures DEF PrimaryAnswered
  <2>4. CASE PrimaryFailed(w)
    BY <2>4, CountsAreFailures DEF PrimaryFailed
  <2>5. CASE SetFallback(w) \/ SetDegraded(w) \/ StampFailover(w)
    BY <2>5 DEF SetFallback, SetDegraded, StampFailover
  <2>6. CASE FallbackAnswered(w) \/ FallbackFailed(w)
    <3>1. UNCHANGED <<state, role, failures, shutdown, listener, owner, up>>
      BY <2>6 DEF FallbackAnswered, FallbackFailed
    <3>2. \E to \in WorkerSteps : pc' = [pc EXCEPT ![w] = to]
      BY <2>6 DEF FallbackAnswered, FallbackFailed
    <3> QED
      BY <3>1, <3>2
  <2>7. CASE SetOffline(w) \/ SetNone(w)
    BY <2>7 DEF SetOffline, SetNone
  <2> QED
    BY <1>7, <2>1, <2>2, <2>3, <2>4, <2>5, <2>6, <2>7 DEF WorkerRuns
<1>8. ASSUME NEW w \in Workers, RelayEnds(w) PROVE TypeOK'
  BY <1>8 DEF RelayEnds
<1>9. ASSUME NEW u \in Upstreams, UpstreamChanges(u) PROVE TypeOK'
  BY <1>9 DEF UpstreamChanges
<1>10. CASE UNCHANGED vars
  BY <1>10 DEF vars
<1> QED
  BY <1>1, <1>2, <1>3, <1>4, <1>5, <1>6, <1>7, <1>8, <1>9, <1>10
     DEF Next, Owner, Environment

\* The strengthened invariant holds initially.
LEMMA InitIInv == Init => IInv
<1> SUFFICES ASSUME Init PROVE IInv
  OBVIOUS
<1>1. TypeOK
  BY CountsAreFailures
     DEF Init, TypeOK, States, Upstreams, WorkerSteps, OwnerSteps, ListenerSteps
<1>2. OwnerInv
  BY DEF Init, OwnerInv, NoWorkers
<1> QED
  BY <1>1, <1>2 DEF IInv

\* Every step keeps what the owner relies on about its threads.
LEMMA OwnerInvStep == IInv /\ [Next]_vars => OwnerInv'
<1> SUFFICES ASSUME IInv, [Next]_vars PROVE OwnerInv'
  OBVIOUS
<1> USE DEF IInv, TypeOK, OwnerInv, NoWorkers, Serving, AtStep
<1>1. CASE StartProxy
  BY <1>1 DEF StartProxy
<1>2. CASE Starting
  BY <1>2 DEF Starting, StartServing, StartBindFailed, StartUnavailable
<1>3. CASE Probe
  BY <1>3 DEF Probe
<1>4. CASE Probing
  BY <1>4
     DEF Probing, ProbeCooldown, ProbeAnswered, ProbeFailed, ProbeSetRole, ProbeSetState
<1>5. CASE Stop \/ Stopping
  BY <1>5 DEF Stop, Stopping, StopJoinListener, StopJoinWorkers, StopSetState
<1>6. CASE Listener
  \* The listener exists, and only the owner makes it "none".
  <2>1. listener # "none" /\ listener' # "none" /\ UNCHANGED <<owner, role>>
    BY <1>6 DEF Listener, ListenerAccept, ListenerFailed, ListenerSpawn
  <2> QED BY <2>1
<1>7. ASSUME NEW w \in Workers, WorkerRuns(w) \/ RelayEnds(w) PROVE OwnerInv'
  \* A worker is alive, so either a listener exists or stop is joining.
  <2>1. pc[w] # "none" /\ UNCHANGED <<listener, owner>>
    BY <1>7
       DEF WorkerRuns, RelayEnds, ClientRejected, CheckState, CheckRole,
           PrimaryAnswered, PrimaryFailed, SetFallback, SetDegraded, StampFailover,
           FallbackAnswered, FallbackFailed, SetOffline, SetNone
  <2>2. listener # "none" \/ owner = "stopWorkers"
    BY <2>1
  <2> QED BY <2>1, <2>2
<1>8. CASE Environment
  <2>1. UNCHANGED <<state, role, listener, owner, pc>>
    BY <1>8 DEF Environment, UpstreamChanges
  <2> QED BY <2>1
<1>9. CASE UNCHANGED vars
  BY <1>9 DEF vars
<1> QED
  BY <1>1, <1>2, <1>3, <1>4, <1>5, <1>6, <1>7, <1>8, <1>9 DEF Next, Owner

\* Every reachable state satisfies the strengthened invariant.
THEOREM Invariance == Spec => []IInv
<1>1. IInv /\ [Next]_vars => IInv'
  BY TypeStep, OwnerInvStep DEF IInv
<1> QED
  BY InitIInv, <1>1, PTL DEF Spec

\* Type correctness of the dual-relay proxy.
THEOREM TypeCorrect == Spec => []TypeOK
<1>1. IInv => TypeOK
  BY DEF IInv
<1> QED
  BY Invariance, <1>1, PTL

\* stop_internal joins the listener and the workers before it stores role and
\* state: no late store of a worker survives it, whatever the interleaving.
THEOREM StopBarrier == Spec => []StopIsBarrier
<1>1. IInv => StopIsBarrier
  BY DEF IInv, OwnerInv, StopIsBarrier
<1> QED
  BY Invariance, <1>1, PTL
=============================================================================
