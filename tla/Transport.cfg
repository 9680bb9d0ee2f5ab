SPECIFICATION FairSpec
CONSTANTS
  Node = {n1, n2}
  Schemes = {"tcp", "chan"}
  Requests <- MCRequests
  Attempts = 2
  ChanBufferSize = 1
  Wire = 1
  MaxVotes = 1
PROPERTIES ImplementsLinks AllHandled
CHECK_DEADLOCK FALSE
