SPECIFICATION Spec
CONSTANTS
  Node = {n1, n2, n3}
  Client = {c1}
  Total = 2
  NumRequests = 3
  Lossy = FALSE
  Slow = FALSE
  Targets <- AnyReplica
SYMMETRY NodeSymmetry
INVARIANTS Traced OneHolder LateInert
PROPERTIES CommitStable ImplementsLog
CHECK_DEADLOCK FALSE
