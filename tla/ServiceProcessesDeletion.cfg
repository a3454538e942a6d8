\* The identifier of one service has spaces around it.
SPECIFICATION Spec
CONSTANTS
  s1 = s1
  s2 = s2
  x1 = x1
  trimmed2 = trimmed2
  Services = {s1, s2}
  Trimmed <- MCSpaces
  Slugs = {x1, x2}
  Operators = {admin}
  Admin = admin
  ConfigSlug <- MCConfigSlug
  Executables <- MCExecutables
  Unvalidated = {}
  Pids = {p1}
  MaxStarts = 1
  MaxCrashes = 1
INVARIANT DeletionIsDurable
CHECK_DEADLOCK FALSE
