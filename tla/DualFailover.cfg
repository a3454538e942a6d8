\* Two workers racing each other, the probe and stop; failover at the second
\* consecutive failure.  No symmetry, which is unsound for liveness.
SPECIFICATION FairSpec
CONSTANTS
  Workers = {w1, w2}
  MaxFailures = 2
INVARIANT StopIsBarrier
PROPERTIES
  StopTerminates
  ClientsAnswered
