SPECIFICATION Spec
CONSTANTS
  Node = {n1, n2, n3}
  Client = {c1}
  Total = 2
  NumRequests = 2
  Lossy = FALSE
  Slow = TRUE
  Targets <- AnyReplica
SYMMETRY NodeSymmetry
INVARIANT ExecutedByMajority
CHECK_DEADLOCK FALSE
