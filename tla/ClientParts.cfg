\* Every part of the client that shares no state with another, its transport among them.
SPECIFICATION FairSpec
CONSTANTS
  None = None
  RuleSets <- MCRuleSets
  Ports = {443}
  Authorities <- MCAuthorities
  Rules = {}
  Urls <- MCHostUrls
  Proxies = {e1, e2}
  MaxRecreations = 1
  Texts <- MCTexts
  Targets <- MCTargets
  Endpoints = {e1}
  TransportStates = {"Ready", "Degraded", "Offline"}
  MaxSessions = 2
  Processes = {p1}
  Keys = {k1, k2, k3}
  Absent = Absent
  Torn = Torn
  MaxFailures = 2
  Cooldown = 2
  MaxTime = 4
  Length = 4
  Buffer = 3
  Window = 1
  Versions <- MCVersions
  Platforms = {linux, android}
  Digests = {d1, d2}
  MaxNumber = 10
  r1 = r1
  r2 = r2
  Requests = {r1, r2}
  Slow = {r2}
INVARIANTS
  DialedIsConfigured
  CapsuleAgrees
  SessionOwnsCapsule
  BoundProfileIsValid
  KeyOutlivesCrash
  CopyIsComplete
  InstalledNeverGoesBack
  EndpointWasServed
  StopIsBarrier
PROPERTIES
  SwitchbackCoolsDown
  DropTerminates
  ClientsAnswered
CHECK_DEADLOCK FALSE
