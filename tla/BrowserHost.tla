------------------------------ MODULE BrowserHost ------------------------------
(***************************************************************************)
(* A host that calls one capsule's methods in any order, and the Android   *)
(* activity (android_lifecycle.rs) whose bundle keeps the capsule's page   *)
(* over a recreation.                                                      *)
(***************************************************************************)
EXTENDS BrowserCapsule

CONSTANTS Rules, Urls, Proxies, MaxRecreations

\* What a host calls with: URLs, and endpoints, which are never missing.
ASSUME HostAssumption == Urls \subseteq UrlRecord /\ None \notin Proxies

VARIABLES
  capsule,
  activity    \* [state, saved, trimmed, recreations] of the lifecycle probe

hostVars == <<capsule, activity>>

HostInit ==
  /\ capsule = NewCapsule(Rules)
  /\ activity = [state |-> "Uninitialized", saved |-> None, trimmed |-> FALSE, recreations |-> 0]

CallCapsule ==
  /\ \/ \E endpoint \in Proxies : capsule' = AttachProxy(capsule, endpoint)
     \/ capsule' = StartCapsule(capsule)
     \/ \E url \in Urls : capsule' = Navigate(capsule, url)
     \/ capsule' = Pause(capsule)
     \/ capsule' = Resume(capsule)
     \/ capsule' = LowMemory(capsule)
     \/ capsule' = ShutdownCapsule(capsule)
  /\ UNCHANGED activity

\* The host hands back the bundle that was saved, or whatever it kept instead of it.
Bundles == Urls \cup ({activity.saved} \ {None})

RestorePage ==
  /\ \E url \in Bundles : capsule' = RestoreState(capsule, url)
  /\ UNCHANGED activity

\* The dispatch table; any other event is an error and changes nothing.
Transitions ==
  {<<"Uninitialized", "Created">>, <<"Destroyed", "Created">>,
   <<"Created", "Started">>, <<"Stopped", "Started">>,
   <<"Started", "Resumed">>, <<"Paused", "Resumed">>,
   <<"Resumed", "Paused">>, <<"Paused", "Stopped">>,
   <<"Stopped", "Destroyed">>, <<"Created", "Destroyed">>}

MoveActivity ==
  /\ \E to \in {t[2] : t \in Transitions} :
       /\ <<activity.state, to>> \in Transitions
       /\ activity' = [activity EXCEPT !.state = to]
  /\ UNCHANGED capsule

SaveInstanceState ==
  /\ activity.state \in {"Paused", "Stopped", "Created"} /\ capsule.current # None
  /\ activity' = [activity EXCEPT !.saved = capsule.current]
  /\ UNCHANGED capsule

RestoreInstanceState ==
  /\ activity.state \in {"Started", "Created"}
  /\ activity.recreations < MaxRecreations  \* bounds the counter
  /\ \E bundle \in Bundles :
       activity' = [activity EXCEPT !.saved = bundle, !.recreations = @ + 1]
  /\ UNCHANGED capsule

TrimMemory ==
  /\ activity' = [activity EXCEPT !.trimmed = TRUE]
  /\ UNCHANGED capsule

HostNext ==
  \/ CallCapsule
  \/ RestorePage
  \/ MoveActivity
  \/ SaveInstanceState
  \/ RestoreInstanceState
  \/ TrimMemory

HostSpec == HostInit /\ [][HostNext]_hostVars

\* Whatever the order of the calls, capsule and adapter agree on their state; a
\* capsule that runs has a proxy, and fetches what it may navigate to; the page
\* that the adapter has is the capsule's and passed the policy; and the text of a
\* page brings the same page back after a recreation, unless its host is an
\* address with colons: as_url_string leaves the brackets out, and the policy then
\* rejects the text.
CapsuleAgrees ==
  /\ HasAdapter(capsule) => capsule.adapter.state = capsule.state
  /\ capsule.state \in {"Ready", "Paused"} => HasAdapter(capsule) /\ capsule.proxy # None
  /\ \A url \in Urls : Fetches(capsule, url) = Navigates(capsule, url)
  /\ capsule.adapter.active # None =>
       /\ UrlAllowed(capsule.rules, capsule.adapter.active)
       /\ capsule.current = ValidatedUrl(capsule.adapter.active)
  /\ capsule.current # None /\ capsule.current.host # IPv6 =>
       /\ UrlAllowed(capsule.rules, capsule.current)
       /\ ValidatedUrl(capsule.current) = capsule.current
================================================================================
