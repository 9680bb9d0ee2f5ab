SPECIFICATION Spec
CONSTANTS
  Node = {n1, n2, n3}
  Client = {c1}
  Total = 2
  NumRequests = 2
  Lossy = TRUE
  Slow = TRUE
  Targets <- AnyReplica
SYMMETRY NodeSymmetry
INVARIANTS SoundVotes ExecutedCertified ReplyDurable
CHECK_DEADLOCK FALSE
