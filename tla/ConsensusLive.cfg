SPECIFICATION FairSpec
CONSTANTS
  Node = {n1, n2, n3}
  Client = {c1}
  Total = 1
  NumRequests = 2
  Lossy = FALSE
  Slow = FALSE
  Targets <- RoundRobin
PROPERTY EveryWriteAnswered
CHECK_DEADLOCK FALSE
