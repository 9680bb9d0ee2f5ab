SPECIFICATION Spec
CONSTANTS
  Node = {n1, n2, n3}
  Client = {c1, c2}
  Total = 1
  NumRequests = 1
  Lossy = FALSE
  Slow = FALSE
  Targets <- AnyReplica
INVARIANT Agreement
CHECK_DEADLOCK FALSE
