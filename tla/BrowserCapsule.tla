---------------------------- MODULE BrowserCapsule ----------------------------
(***************************************************************************)
(* The browser capsule (capsule.rs) with its contract adapter (adapter.rs) *)
(* as a record; a method is an operator from a capsule to a capsule.  A    *)
(* method that fails returns Err and, but for Start and Resume, leaves the *)
(* capsule as it is.                                                       *)
(***************************************************************************)
EXTENDS DestinationRules

CONSTANT None

NoAdapter == [state |-> "none", proxy |-> None, active |-> None, cleared |-> FALSE]

\* initialize passes through Starting within the call.
Adapter(proxy) ==
  [state |-> "Ready", proxy |-> proxy, active |-> None, cleared |-> FALSE]

NewCapsule(rules) ==
  [state |-> "Stopped", proxy |-> None, rules |-> rules, current |-> None,
   purged |-> FALSE, adapter |-> NoAdapter]

HasAdapter(c) == c.adapter # NoAdapter

AttachProxy(c, endpoint) == [c EXCEPT !.proxy = endpoint]

\* An endpoint of type HttpProxyEndpoint is loopback and bound, so initialize
\* does not fail on it.
StartCapsule(c) ==
  IF c.proxy = None THEN [c EXCEPT !.state = "Failed"]
  ELSE [c EXCEPT !.state = "Ready", !.adapter = Adapter(c.proxy)]

Navigates(c, url) == c.state = "Ready" /\ UrlAllowed(c.rules, url)

Navigate(c, url) ==
  IF ~Navigates(c, url) THEN c
  ELSE [c EXCEPT
    !.current = ValidatedUrl(url),
    !.adapter = IF @.state = "Ready" THEN [@ EXCEPT !.active = url] ELSE @]

\* The fetch leaves through the endpoint that the adapter was started with.
Fetches(c, url) == Navigates(c, url) /\ c.adapter.state = "Ready"

Pause(c) ==
  IF c.state # "Ready" THEN c
  ELSE [c EXCEPT
    !.state = "Paused",
    !.adapter = IF @.state = "Ready" THEN [@ EXCEPT !.state = "Paused"] ELSE @]

\* Mutant of Resume: the adapter is not told.
ResumeCapsuleOnly(c) ==
  IF c.state = "Paused" THEN [c EXCEPT !.state = "Ready"] ELSE c

Resume(c) ==
  IF c.state # "Paused" THEN c
  ELSE IF c.proxy = None THEN [c EXCEPT !.state = "Failed"]
  ELSE [c EXCEPT
    !.state = "Ready",
    !.adapter = IF @.state = "Paused" THEN [@ EXCEPT !.state = "Ready"] ELSE @]

\* In any state: neither capsule nor adapter looks at its own.
RestoreState(c, url) ==
  IF ~UrlAllowed(c.rules, url) THEN c
  ELSE [c EXCEPT
    !.current = ValidatedUrl(url),
    !.adapter = IF HasAdapter(c) THEN [@ EXCEPT !.active = url] ELSE @]

LowMemory(c) ==
  [c EXCEPT
    !.purged = TRUE,
    !.adapter = IF HasAdapter(c) THEN [@ EXCEPT !.cleared = TRUE] ELSE @]

ShutdownCapsule(c) == NewCapsule(c.rules)

\* What the contract adapter can show of a renderer: no engine, no view, no frame.
RendererQualification(c) ==
  [engine |-> FALSE, view |-> FALSE, loaded |-> FALSE, frames |-> 0, observed |-> None,
   requested |-> c.adapter.active,
   proxy |-> HasAdapter(c),
   live |-> c.adapter.state \in {"Ready", "Paused"}]

QualifiesOpen(q) ==
  /\ q.engine /\ q.view /\ q.proxy /\ q.loaded
  /\ q.frames > 0
  /\ q.live
  /\ q.requested # None
  /\ q.requested = q.observed
===============================================================================
