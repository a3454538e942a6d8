SPECIFICATION Spec
CONSTANTS
  Workers = {w1, w2}
  MaxFailures = 1
SYMMETRY WorkerSymmetry
INVARIANT ServingHasRoute
