SPECIFICATION FairSpec
CONSTANTS
  Node = {n1, n2, n3}
  Client = {c1}
  Total = 2
  NumRequests = 2
  Lossy = FALSE
  Slow = FALSE
  Targets <- AnyReplica
PROPERTY EveryWriteAnswered
CHECK_DEADLOCK FALSE
