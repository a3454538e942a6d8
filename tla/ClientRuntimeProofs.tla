--------------------------- MODULE ClientRuntimeProofs ---------------------------
(***************************************************************************)
(* The client's mechanisms that run beside each other and share no state:  *)
(* the failover controller, the key store and the copy of a tunnel.        *)
(***************************************************************************)
EXTENDS FailoverController, DeviceKeyStore, StreamCopy, TLAPS

---------------------------------------------------------------------------
(* The failover controller for every limit of failures, cooldown and clock *)
(* range: its types, the bound on the failures of the route in use, and    *)
(* the cooldown before a switchback.                                       *)

\* The stamp is the time of the last failover; start does not reset it.
ControllerInv ==
  /\ ControllerTypeOK
  /\ entered = failedOver
  /\ FailuresWithinLimit

\* The limit of consecutive failures is a natural number of at least one.
LEMMA LimitIsPositive == Limit \in Nat /\ Limit >= 1
BY FailoverAssumption DEF Limit

\* The aggregate state is Degraded only for a route in use that has failed.
LEMMA DegradedHasFailed ==
  ASSUME ControllerTypeOK, active # "None" => failures[active] < Limit
  PROVE  AggregateState = "Degraded" => Limit > 1
<1>1. SUFFICES ASSUME AggregateState = "Degraded"
               PROVE  Limit > 1
  OBVIOUS
<1>2. active # "None" /\ failures[active] > 0
  BY <1>1 DEF AggregateState
<1>3. active \in Role /\ failures[active] \in Nat
  BY <1>2 DEF ControllerTypeOK
<1> QED
  BY <1>2, <1>3, LimitIsPositive

\* The controller starts with the invariant.
LEMMA ControllerInvInit == ControllerInit => ControllerInv
<1>1. SUFFICES ASSUME ControllerInit PROVE ControllerInv
  OBVIOUS
<1>2. ControllerTypeOK
  BY <1>1, FailoverAssumption DEF ControllerInit, ControllerTypeOK
<1>3. active # "None" => failures[active] < Limit
  BY <1>1 DEF ControllerInit
<1>4. FailuresWithinLimit
  BY <1>2, <1>3, DegradedHasFailed DEF FailuresWithinLimit
<1> QED
  BY <1>1, <1>2, <1>4 DEF ControllerInit, ControllerInv

\* Every step keeps the types, the stamp and the bound of the route in use.
LEMMA ControllerStep ==
  ASSUME ControllerInv, [ControllerNext]_controllerVars
  PROVE  /\ ControllerTypeOK'
         /\ (entered = failedOver)'
         /\ (active # "None" => failures[active] < Limit)'
<1> USE LimitIsPositive DEF ControllerInv, ControllerTypeOK, FailuresWithinLimit, Role, ProviderState
<1>1. CASE StartController
  BY <1>1 DEF StartController, Limit
<1>2. CASE RecordSuccess
  BY <1>2 DEF RecordSuccess, Limit
<1>3. CASE RecordFailure
  <2>1. active \in {"Primary", "Fallback"} /\ failures[active] \in Nat
    BY <1>3 DEF RecordFailure
  <2>2. CASE failures[active] + 1 < Limit
    BY <1>3, <2>1, <2>2 DEF RecordFailure, Limit
  <2>3. CASE active = "Primary" /\ ~(failures[active] + 1 < Limit)
    <3>1. FailoverToFallback /\ UNCHANGED <<provider, now>>
      BY <1>3, <2>1, <2>3 DEF RecordFailure
    <3>2. CASE ProviderReady("Fallback")
      BY <3>1, <3>2 DEF FailoverToFallback, Limit
    <3>3. CASE ~ProviderReady("Fallback")
      BY <3>1, <3>3 DEF FailoverToFallback, Limit
    <3> QED
      BY <3>2, <3>3
  <2>4. CASE active = "Fallback" /\ ~(failures[active] + 1 < Limit)
    BY <1>3, <2>1, <2>4 DEF RecordFailure, Limit
  <2> QED
    BY <2>1, <2>2, <2>3, <2>4
<1>4. CASE ProbeStandbyPrimary
  BY <1>4 DEF ProbeStandbyPrimary, Limit
<1>5. CASE ShutdownController
  BY <1>5 DEF ShutdownController, Limit
<1>6. CASE ProviderMoves
  BY <1>6 DEF ProviderMoves, Limit
<1>7. CASE ClockMoves
  BY <1>7 DEF ClockMoves, Limit
<1>8. CASE UNCHANGED controllerVars
  BY <1>8 DEF controllerVars, Limit
<1> QED
  BY <1>1, <1>2, <1>3, <1>4, <1>5, <1>6, <1>7, <1>8 DEF ControllerNext

\* The invariant of the controller holds in every state.
THEOREM ControllerInvHolds == ControllerSpec => []ControllerInv
<1>1. ControllerInv /\ [ControllerNext]_controllerVars => ControllerInv'
  <2>1. SUFFICES ASSUME ControllerInv, [ControllerNext]_controllerVars
                 PROVE  ControllerInv'
    OBVIOUS
  <2>2. /\ ControllerTypeOK'
        /\ (entered = failedOver)'
        /\ (active # "None" => failures[active] < Limit)'
    BY <2>1, ControllerStep
  <2>3. (AggregateState = "Degraded" => Limit > 1)'
    BY <2>2, LimitIsPositive DEF AggregateState, ControllerTypeOK, Limit
  <2> QED
    BY <2>2, <2>3 DEF ControllerInv, FailuresWithinLimit
<1> QED
  BY <1>1, ControllerInvInit, PTL DEF ControllerSpec

\* Whatever the limit of failures: a route in use has failed fewer times in a row.
THEOREM ControllerFailuresWithinLimit == ControllerSpec => []FailuresWithinLimit
BY ControllerInvHolds, PTL DEF ControllerInv

\* Only a start or an expired cooldown leads from the fallback to the primary.
LEMMA SwitchbackStep ==
  ASSUME ControllerInv, ControllerNext, active = "Fallback", active' = "Primary"
  PROVE  StartController \/ Cooldown = 0 \/ now >= entered + Cooldown
<1>1. CASE ProbeStandbyPrimary
  <2>1. SinceFailover >= Cooldown
    BY <1>1 DEF ProbeStandbyPrimary
  <2>2. now \in Nat /\ failedOver \in Nat /\ entered = failedOver /\ Cooldown \in Nat
    BY FailoverAssumption DEF ControllerInv, ControllerTypeOK
  <2>3. CASE now >= failedOver
    BY <2>1, <2>2, <2>3 DEF SinceFailover
  <2>4. CASE ~(now >= failedOver)
    BY <2>1, <2>2, <2>4 DEF SinceFailover
  <2> QED
    BY <2>3, <2>4
<1>2. ~RecordFailure
  BY DEF RecordFailure, FailoverToFallback
<1> QED
  BY <1>1, <1>2 DEF ControllerNext, RecordSuccess, ShutdownController, ProviderMoves, ClockMoves

\* Whatever the cooldown and however the clock jumps, a probe does not bring the
\* primary back before the cooldown after the last failover is over.
THEOREM ControllerSwitchback == ControllerSpec => SwitchbackCoolsDown
<1>1. ControllerInv /\ [ControllerNext]_controllerVars
        => [active = "Fallback" /\ active' = "Primary" =>
              StartController \/ Cooldown = 0 \/ now >= entered + Cooldown]_controllerVars
  BY SwitchbackStep
<1> QED
  BY <1>1, ControllerInvHolds, PTL DEF ControllerSpec, SwitchbackCoolsDown

---------------------------------------------------------------------------
(* The device key of a client that is alone on its path, for any set of    *)
(* seeds and any number of crashes, restarts and deletions.                *)

Steps ==
  {"down", "profile", "keyless", "generated", "truncated", "written", "running", "deleting"}

KeyTypeOK ==
  /\ disk \in [key : Keys \cup {Absent, Torn}, tmp : Keys \cup {Absent, Torn}]
  /\ process \in [Processes -> [at : Steps, key : Keys \cup {Absent}]]
  /\ drawn \in SUBSET Keys
  /\ known \in Keys \cup {Absent}

\* Between the draw and the rename the process has the key it is about to store,
\* and after fs::write the temporary file has it too.
KeyInv ==
  /\ KeyTypeOK
  /\ KeyOutlivesCrash
  /\ \A p \in Processes :
       /\ process[p].at \in {"generated", "truncated", "written"} => process[p].key \in Keys
       /\ At(p, "written") => disk.tmp = process[p].key

\* A device starts without a key.
LEMMA KeyInvInit == KeyInit => KeyInv
BY KeysAssumption DEF KeyInit, KeyInv, KeyTypeOK, KeyOutlivesCrash, Steps, Down, At

\* One step of the only process keeps the key file whole.
LEMMA KeyInvStep ==
  ASSUME NEW p, Processes = {p}, KeyInv, [KeyNext]_keyVars
  PROVE  KeyInv'
<1> USE KeysAssumption DEF KeyInv, KeyTypeOK, KeyOutlivesCrash, Steps, Down, At, Goes
<1>1. CASE LoadProfile(p)
  BY <1>1 DEF LoadProfile
<1>2. CASE OpenKeyStore(p)
  BY <1>2 DEF OpenKeyStore
<1>3. CASE GenerateKey(p)
  BY <1>3 DEF GenerateKey
<1>4. CASE TruncateTmp(p)
  BY <1>4 DEF TruncateTmp
<1>5. CASE WriteTmp(p)
  BY <1>5 DEF WriteTmp
<1>6. CASE RenameTmp(p)
  BY <1>6 DEF RenameTmp
<1>7. CASE PersistFails(p)
  BY <1>7 DEF PersistFails
<1>8. CASE DeleteFile(p)
  BY <1>8 DEF DeleteFile
<1>9. CASE ForgetKey(p)
  BY <1>9 DEF ForgetKey
<1>10. CASE Crash(p)
  BY <1>10 DEF Crash
<1>11. CASE UNCHANGED keyVars
  BY <1>11 DEF keyVars
<1> QED
  BY <1>1, <1>2, <1>3, <1>4, <1>5, <1>6, <1>7, <1>8, <1>9, <1>10, <1>11 DEF KeyNext

\* A client alone on its path finds its key file whole or absent after any crash, and
\* every identity it worked with is on the disk until it is deleted.
THEOREM KeyFileOutlivesCrash ==
  ASSUME NEW p, Processes = {p}
  PROVE  KeySpec => []KeyOutlivesCrash
<1>1. KeyInv /\ [KeyNext]_keyVars => KeyInv'
  BY KeyInvStep
<1>2. KeyInv => KeyOutlivesCrash
  BY DEF KeyInv
<1> QED
  BY <1>1, <1>2, KeyInvInit, PTL DEF KeySpec

---------------------------------------------------------------------------
(* One direction of a tunnel, for every length of the data and every size  *)
(* of the buffer and of the receiver's window.                             *)

\* Pieces go from the sender through the copy to the receiver and none is made up
\* on the way; a copy that ended for no other reason had read its sender's end.
CopyInv ==
  /\ CopyTypeOK
  /\ taken <= written /\ written <= read /\ read <= sender.sent
  /\ at \in {"top", "reading"} => written = read
  /\ at = "writing" => written < read
  /\ CopyIsComplete

\* A new copy has moved nothing.
LEMMA CopyInvInit == CopyInit => CopyInv
<1> SUFFICES ASSUME CopyInit PROVE CopyInv
  OBVIOUS
<1>1. sender.sent = 0 /\ sender \in [sent : Nat, closed : BOOLEAN]
  BY DEF CopyInit
<1>2. CopyTypeOK
  BY <1>1 DEF CopyInit, CopyTypeOK
<1>3. taken <= written /\ written <= read /\ read <= sender.sent
  BY <1>1 DEF CopyInit
<1> QED
  BY <1>2, <1>3 DEF CopyInit, CopyInv, CopyIsComplete

\* The sender sends only until it closes, so that an end that was reached stays one.
LEMMA EndsKeepCopyInv ==
  ASSUME CopyInv, EndsMove
  PROVE  CopyInv'
<1> USE DEF CopyInv, CopyTypeOK, CopyIsComplete
<1>1. CASE /\ ~sender.closed /\ sender.sent < Length
           /\ sender' = [sender EXCEPT !.sent = @ + 1]
           /\ UNCHANGED <<taken, shutdownFlag>>
  BY <1>1 DEF EndsMove
<1>2. CASE /\ sender' = [sender EXCEPT !.closed = TRUE]
           /\ UNCHANGED <<taken, shutdownFlag>>
  BY <1>2 DEF EndsMove
<1>3. CASE /\ taken < written
           /\ taken' = taken + 1
           /\ UNCHANGED <<sender, shutdownFlag>>
  BY <1>3 DEF EndsMove
<1>4. CASE shutdownFlag' = TRUE /\ UNCHANGED <<sender, taken>>
  BY <1>4 DEF EndsMove
<1> QED
  BY <1>1, <1>2, <1>3, <1>4 DEF EndsMove

\* Every step of the copy keeps the order of the counters, and ends it cleanly only
\* at the sender's end.
LEMMA CopyInvStep == CopyInv /\ [CopyNext]_copyVars => CopyInv'
<1> SUFFICES ASSUME CopyInv, [CopyNext]_copyVars PROVE CopyInv'
  OBVIOUS
<1> USE DEF CopyInv, CopyTypeOK, CopyIsComplete, NothingToRead
<1>1. CASE EndsMove
  BY <1>1, EndsKeepCopyInv
<1>2. CASE ReadSome
  <2>1. PICK n \in 1..Buffer : read + n <= sender.sent /\ read' = read + n
    BY <1>2 DEF ReadSome
  <2>2. n \in Nat
    BY <2>1, CopyAssumption
  <2> QED
    BY <1>2, <2>1, <2>2 DEF ReadSome
<1>3. CASE ReadTimesOut \/ UNCHANGED copyVars
  BY <1>3 DEF ReadTimesOut, copyVars
<1>4. CASE ReadEnd
  BY <1>4 DEF ReadEnd
<1>5. CASE LooksAtFlag
  BY <1>5 DEF LooksAtFlag
<1>6. CASE WriteSome
  BY <1>6 DEF WriteSome
<1>7. CASE WriteTimesOut
  BY <1>7 DEF WriteTimesOut
<1>8. CASE StreamIsReset
  BY <1>8 DEF StreamIsReset
<1> QED
  BY <1>1, <1>2, <1>3, <1>4, <1>5, <1>6, <1>7, <1>8 DEF CopyNext

\* Whatever the sizes: a clean end at the receiver is the sender's, with all it sent.
THEOREM CopyComplete == CopySpec => []CopyIsComplete
<1>1. CopyInv => CopyIsComplete
  BY DEF CopyInv
<1> QED
  BY <1>1, CopyInvInit, CopyInvStep, PTL DEF CopySpec
==================================================================================
