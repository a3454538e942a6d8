\* Two clients, so that their streams can be mixed up; the relay crashes once and
\* one connection breaks, so that an id comes back and sessions overlap.
SPECIFICATION Spec
CONSTANTS
  Clients = {c1, c2}
  MaxConns = 2
  MaxFlight = 1
  MaxCrashes = 1
  MaxBreaks = 1
  Stuck = {}
SYMMETRY ClientSymmetry
INVARIANTS
  LiveSessionIsRegistered
  StreamsApartWithinALife
CHECK_DEADLOCK FALSE
