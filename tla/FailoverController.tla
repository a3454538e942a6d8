--------------------------- MODULE FailoverController ---------------------------
(***************************************************************************)
(* The failover controller (failover.rs) over two transport providers.     *)
(* Its caller reports observations and probes with a clock of its own; the *)
(* providers change state by themselves.  A SecureRelayTransport (relay.rs)*)
(* is the provider that only ever says Stopped or Offline.                 *)
(***************************************************************************)
EXTENDS Naturals

CONSTANTS
  MaxFailures,   \* max_consecutive_failures
  Cooldown,      \* switchback_cooldown_sec
  MaxTime        \* bounds the caller's clock
ASSUME FailoverAssumption == MaxFailures \in Nat /\ Cooldown \in Nat /\ MaxTime \in Nat

Role == {"Primary", "Fallback"}
ProviderState == {"Stopped", "Ready", "Offline"}

VARIABLES
  provider,     \* the state of each provider
  active,       \* active_role, "None" when there is none
  failures,     \* consecutive_failures of each
  failedOver,   \* last_failover_epoch_sec
  now,          \* what the caller's clock says; it may be set back
  entered       \* for the properties: the time of the last failover

controllerVars == <<provider, active, failures, failedOver, now, entered>>

ControllerInit ==
  /\ provider \in [Role -> ProviderState]
  /\ active = "None"
  /\ failures = [r \in Role |-> 0]
  /\ failedOver = 0
  /\ now \in 0..MaxTime
  /\ entered = 0

ControllerTypeOK ==
  /\ provider \in [Role -> ProviderState]
  /\ active \in Role \cup {"None"}
  /\ failures \in [Role -> Nat]
  /\ failedOver \in 0..MaxTime
  /\ now \in 0..MaxTime
  /\ entered \in 0..MaxTime

\* A provider that is Ready has its endpoint.
ProviderReady(r) == provider[r] = "Ready"

\* start forgets the failures, and not when the last failover was.
StartController ==
  /\ active' = IF ProviderReady("Primary") THEN "Primary"
               ELSE IF ProviderReady("Fallback") THEN "Fallback" ELSE "None"
  /\ failures' = [r \in Role |-> 0]
  /\ UNCHANGED <<provider, failedOver, now, entered>>

AggregateState ==
  IF active = "None" \/ ~ProviderReady(active) THEN "Offline"
  ELSE IF failures[active] > 0 THEN "Degraded" ELSE "Ready"

\* The limit of failures is at least one.
Limit == IF MaxFailures > 1 THEN MaxFailures ELSE 1

\* Mutant of FailoverToFallback: the time of the failover is not noted.
FailoverUnstamped ==
  IF ProviderReady("Fallback")
  THEN /\ active' = "Fallback"
       /\ entered' = now
       /\ failures' = [failures EXCEPT !["Primary"] = @ + 1, !["Fallback"] = 0]
       /\ UNCHANGED failedOver
  ELSE /\ active' = "None"
       /\ failures' = [failures EXCEPT !["Primary"] = @ + 1]
       /\ UNCHANGED <<failedOver, entered>>

FailoverToFallback ==
  IF ProviderReady("Fallback")
  THEN /\ active' = "Fallback"
       /\ failedOver' = now /\ entered' = now
       /\ failures' = [failures EXCEPT !["Primary"] = @ + 1, !["Fallback"] = 0]
  ELSE /\ active' = "None"
       /\ failures' = [failures EXCEPT !["Primary"] = @ + 1]
       /\ UNCHANGED <<failedOver, entered>>

RecordSuccess ==
  /\ active # "None" /\ ProviderReady(active)
  /\ failures' = [failures EXCEPT ![active] = 0]
  /\ UNCHANGED <<provider, active, failedOver, now, entered>>

\* A failed attempt, a slow one, or one through a provider that is not Ready.
RecordFailure ==
  /\ active # "None"
  /\ \/ /\ failures[active] + 1 < Limit
        /\ failures' = [failures EXCEPT ![active] = @ + 1]
        /\ UNCHANGED <<active, failedOver, entered>>
     \/ /\ active = "Primary" /\ failures[active] + 1 >= Limit
        /\ FailoverToFallback
     \/ /\ active = "Fallback" /\ failures[active] + 1 >= Limit
        /\ active' = "None"
        /\ failures' = [failures EXCEPT ![active] = @ + 1]
        /\ UNCHANGED <<failedOver, entered>>
  /\ UNCHANGED <<provider, now>>

\* A clock that was set back counts as no time.
SinceFailover == IF now >= failedOver THEN now - failedOver ELSE 0

ProbeStandbyPrimary ==
  /\ active = "Fallback"
  /\ SinceFailover >= Cooldown
  /\ ProviderReady("Primary")
  /\ active' = "Primary"
  /\ failures' = [failures EXCEPT !["Primary"] = 0]
  /\ UNCHANGED <<provider, failedOver, now, entered>>

ShutdownController ==
  /\ active' = "None"
  /\ provider' = [r \in Role |-> "Stopped"]
  /\ UNCHANGED <<failures, failedOver, now, entered>>

ProviderMoves ==
  /\ \E r \in Role, s \in ProviderState : provider' = [provider EXCEPT ![r] = s]
  /\ UNCHANGED <<active, failures, failedOver, now, entered>>

ClockMoves ==
  /\ now' \in 0..MaxTime
  /\ UNCHANGED <<provider, active, failures, failedOver, entered>>

ControllerNext ==
  \/ StartController
  \/ RecordSuccess
  \/ RecordFailure
  \/ ProbeStandbyPrimary
  \/ ShutdownController
  \/ ProviderMoves
  \/ ClockMoves

ControllerSpec == ControllerInit /\ [][ControllerNext]_controllerVars

\* A probe brings the primary back no sooner than the cooldown after the failover,
\* even when the clock is set back meanwhile; only a new start may.
SwitchbackCoolsDown ==
  [][active = "Fallback" /\ active' = "Primary" =>
       StartController \/ Cooldown = 0 \/ now >= entered + Cooldown]_controllerVars

\* A route in use has failed fewer times in a row than the limit, however starts,
\* failovers, probes and the two counts interleave, so that a state the caller
\* sees as Degraded is one in which a further failure may still be the last.
FailuresWithinLimit ==
  /\ active # "None" => failures[active] < Limit
  /\ AggregateState = "Degraded" => Limit > 1
=================================================================================
