\* One crash of the relay gives the first stream id out again.
SPECIFICATION Spec
CONSTANTS
  Clients = {c1, c2}
  MaxConns = 2
  MaxFlight = 1
  MaxCrashes = 1
  MaxBreaks = 0
  Stuck = {}
SYMMETRY ClientSymmetry
INVARIANT NoCrosstalk
CHECK_DEADLOCK FALSE
