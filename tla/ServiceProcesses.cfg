\* Two services for two slugs and two operators; two starts, so that an exit of an
\* older instance can be noticed after a newer one was started, and one crash.
SPECIFICATION FairSpec
CONSTANTS
  s1 = s1
  s2 = s2
  x1 = x1
  trimmed2 = trimmed2
  Services = {s1, s2}
  Trimmed <- MCNoSpaces
  Slugs = {x1, x2}
  Operators = {admin, bot}
  Admin = admin
  ConfigSlug <- MCConfigSlug
  Executables <- MCExecutables
  Unvalidated = {s1}
  Pids = {p1, p2}
  MaxStarts = 2
  MaxCrashes = 1
INVARIANTS
  RoutesMatchServices
  NoResurrection
  NoFakeRunning
  NoChildForgotten
  CrashIsNotAStop
PROPERTY
  ExitIsVisible
CHECK_DEADLOCK FALSE
