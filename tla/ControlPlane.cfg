\* Both starts of one crash use an event each, so that two are left for requests,
\* whose times may clash.
SPECIFICATION Spec
CONSTANTS
  Devices = {d}
  Challenges = {c1, c2}
  Requests = {g}
  Times = {t1, t2}
  MaxEvents = 4
  MaxCrashes = 1
SYMMETRY NameSymmetry
INVARIANTS
  TypeOK
  MemoryIsDurable
  AcknowledgedIsAudited
PROPERTIES
  AuditOnlyGrows
  ImplementsLedger
CHECK_DEADLOCK FALSE
