-------------------------- MODULE ApplicationSessions --------------------------
(***************************************************************************)
(* The running client: its one GUI thread (main.rs), the profile it serves *)
(* and rebinds, and the sessions with their capsules (session.rs).  The    *)
(* transport is the environment: its status changes at any time.           *)
(***************************************************************************)
EXTENDS ClientConfig, BrowserCapsule

CONSTANTS
  Texts,        \* profile texts that a request may bring
  Targets,      \* URLs that a request may ask for
  Endpoints,    \* endpoints the bridge may have
  TransportStates,  \* states the transport may be seen in
  MaxSessions   \* bounds next_sequence

\* An endpoint that there is, is none that is missing.
ASSUME EndpointsAssumption == None \notin Endpoints

ASSUME TransportStatesAssumption ==
  TransportStates \subseteq {"Stopped", "Starting", "Ready", "Degraded", "Offline"}

VARIABLES
  profile,
  status,       \* what ClientTransportStatus::snapshot returns now
  sessions,     \* by sequence number: [state, target, capsule]
  gui           \* the GUI thread: [at, request, snapshot]

sessionVars == <<profile, status, sessions, gui>>

Statuses ==
  {[state |-> s, endpoint |-> None] : s \in TransportStates}
  \cup {[state |-> s, endpoint |-> e] :
          s \in TransportStates \cap {"Ready", "Degraded"}, e \in Endpoints}

\* What a request asks for, with what extract_json_string_field finds in its body;
\* "other" are the pages, the status and all that changes neither profile nor sessions.
Request(kind) == [kind |-> kind, text |-> <<>>, target |-> None, session |-> 0]

GuiRequests ==
  {Request(k) : k \in {"other", "bind", "open", "close"}}
  \cup {[Request("bind") EXCEPT !.text = text] : text \in Texts}
  \cup {[Request("open") EXCEPT !.target = url] : url \in Targets}
  \cup {[Request("close") EXCEPT !.session = id] : id \in 1..MaxSessions}

Waiting == [at |-> "accept", request |-> Request("none"), snapshot |-> None]

SessionsInit ==
  /\ profile = DefaultProfile
  /\ status \in Statuses
  /\ sessions = <<>>
  /\ gui = Waiting

---------------------------------------------------------------------------
(* broker.rs: the gate that opening and navigating pass with a token of    *)
(* their own.                                                              *)

RequiredCapability ==
  [Navigate |-> "NavigateService", GetDeviceStatus |-> "QueryDeviceStatus",
   RefreshSession |-> "RefreshSession", CloseCapsule |-> "CloseCapsule",
   ReportTelemetry |-> "ReportError"]

Gate(token) ==
  [active |-> TRUE, token |-> token,
   granted |-> {"NavigateService", "QueryDeviceStatus", "CloseCapsule"}]

VerifyRequest(gate, token, payload) ==
  /\ gate.active
  /\ token = gate.token
  /\ RequiredCapability[payload] \in gate.granted

---------------------------------------------------------------------------
(* session.rs                                                              *)

Usable(snapshot) == snapshot.state \in {"Ready", "Degraded"} /\ snapshot.endpoint # None

NoCapsule == [state |-> "none"]

\* A session that comes to nothing keeps its record, and no capsule.
TerminalSession(target, state) ==
  [state |-> state, target |-> target, capsule |-> NoCapsule]

ProtectedBrowser(endpoint) ==
  StartCapsule(AttachProxy(NewCapsule(profile.domains), endpoint))

\* A capsule that navigated is kept, qualified or not.
OpenSession(target, snapshot) ==
  LET started == ProtectedBrowser(snapshot.endpoint)
      shown   == Navigate(started, target) IN
  CASE ~VerifyRequest(Gate("internal"), "internal", "Navigate") -> TerminalSession(target, "Denied")
    [] ~Usable(snapshot) -> TerminalSession(target, "Offline")
    [] started.state # "Ready" -> TerminalSession(target, "Failed")
    [] ~Navigates(started, target) -> TerminalSession(target, "Denied")
    [] OTHER -> [state |-> IF QualifiesOpen(RendererQualification(shown))
                           THEN "Open" ELSE "RendererUnqualified",
                 target |-> target, capsule |-> shown]

OpenApplication(target, snapshot) == sessions' = Append(sessions, OpenSession(target, snapshot))

\* Mutant of CloseSession: the capsule is shut down and not let go.
CloseKeepsCapsule(id) ==
  sessions' = [sessions EXCEPT ![id].state = "Closed",
                               ![id].capsule = IF @ = NoCapsule THEN @ ELSE ShutdownCapsule(@)]

\* A closed session may be closed again; its record stays in the map.
CloseSession(id) ==
  sessions' = [sessions EXCEPT ![id].state = "Closed", ![id].capsule = NoCapsule]

---------------------------------------------------------------------------
(* main.rs: handle_client_stream, one connection after the other.          *)

TransportMoves ==
  /\ status' \in Statuses \ {status}
  /\ UNCHANGED <<profile, sessions, gui>>

ClientConnectsToGui ==
  /\ gui.at = "accept"
  /\ gui' = [gui EXCEPT !.at = "read"]
  /\ UNCHANGED <<profile, status, sessions>>

\* No timeout is set: the thread waits for the request of whoever connected.  An
\* empty or unreadable one is not answered.
GuiReads ==
  /\ gui.at = "read"
  /\ \/ \E request \in GuiRequests :
          /\ request.kind = "open" => Len(sessions) < MaxSessions
          /\ gui' = [gui EXCEPT !.at = "snapshot", !.request = request]
     \/ gui' = Waiting
  /\ UNCHANGED <<profile, status, sessions>>

GuiTakesSnapshot ==
  /\ gui.at = "snapshot"
  /\ gui' = [gui EXCEPT !.at = "handle", !.snapshot = status]
  /\ UNCHANGED <<profile, status, sessions>>

\* Mutant of BindConfig: the profile is stored before it is validated.
BindThenValidate(text) ==
  profile' = IF TextIsReadable(text) THEN FromText(text) ELSE profile

\* transactional_bind_config: the write is the last thing that can happen.  The
\* transport keeps the profile it was started with.
BindConfig(text) ==
  profile' = IF TextIsAccepted(text) THEN FromText(text) ELSE profile

\* /api/navigate asks the gate and looks at the transport, and opens nothing: "other".
GuiHandles ==
  LET request == gui.request IN
  /\ gui.at = "handle"
  /\ CASE request.kind = "bind" ->
            BindConfig(request.text) /\ UNCHANGED sessions
       [] request.kind = "open" /\ request.target # None ->
            OpenApplication(request.target, gui.snapshot) /\ UNCHANGED profile
       [] request.kind = "close" /\ request.session \in DOMAIN sessions ->
            CloseSession(request.session) /\ UNCHANGED profile
       [] OTHER -> UNCHANGED <<profile, sessions>>
  /\ gui' = Waiting
  /\ UNCHANGED status

SessionsNext ==
  \/ TransportMoves
  \/ ClientConnectsToGui
  \/ GuiReads
  \/ GuiTakesSnapshot
  \/ GuiHandles

SessionsSpec == SessionsInit /\ [][SessionsNext]_sessionVars

---------------------------------------------------------------------------

\* Whatever was bound, opened and closed in whatever order and with whatever
\* transport: a session has a capsule exactly while its renderer is unqualified,
\* none is ever reported open, and the capsule runs behind a proxy, on the page
\* asked for, which its own rules admit.
SessionOwnsCapsule ==
  \A id \in DOMAIN sessions :
    LET s == sessions[id] IN
    /\ s.state \in {"Denied", "Offline", "Failed", "RendererUnqualified", "Closed"}
    /\ s.capsule # NoCapsule <=> s.state = "RendererUnqualified"
    /\ s.capsule # NoCapsule =>
         /\ s.capsule.state = "Ready"
         /\ s.capsule.proxy \in Endpoints
         /\ s.capsule.current = ValidatedUrl(s.target)
         /\ NavigationAdmits(s.capsule.rules, s.target.host)

\* A request that cannot be bound leaves the profile as it was, so that the one in
\* use always passes validate.
BoundProfileIsValid == ProfileIsValid(profile)
================================================================================
