\* One challenge, issued before its device is revoked.
SPECIFICATION Spec
CONSTANTS
  Devices = {d}
  Challenges = {c1}
  Requests = {g}
  Times = {t1}
  MaxEvents = 4
  MaxCrashes = 1
PROPERTY RevokedNeedsFreshProof
CHECK_DEADLOCK FALSE
