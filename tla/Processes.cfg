SPECIFICATION ProcessesSpec
CONSTANTS
  Caller = {w1, w2}
  N = 2
  MaxPuts = 5
  MaxGets = 1
  Peer = {r1, r2, r3, r4}
  Local = {r1, r2, r3}
  Ops = {"GetMUL", "PutMUL", "QuorumGet", "LocalQuorumGet", "QuorumPut"}
  Errors = TRUE
  Req = {1, 2, 3, 4}
  CommandOf <- MCCommandOf
  Worker = {w1, w2, w3}
  Modes = {"N", "T", "Load"}
  NumRequests = 4
  LatencyCap = 1
  Reads = TRUE
  WriteErrors = TRUE
  s1 = s1  s2 = s2  s3 = s3  c1 = c1  c2 = c2  c3 = c3  c4 = c4  c5 = c5
  None = None
  Server = {s1, s2, s3}
  Conn = {c1, c2, c3, c4, c5}
  Id <- OneAgain
  n = 3
  MaxBroken = 1
INVARIANTS Settles RoundRobin Paired AllHeard WaitCounts Numbered InStep Complete ReplicasConfigured
PROPERTIES RequestsSent OpReturns ForwardsAnswered Returns AllAnswered
CHECK_DEADLOCK FALSE
