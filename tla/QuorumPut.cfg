SPECIFICATION FanoutSpec
CONSTANTS
  Peer = {r1, r2, r3, r4}
  Local = {r1, r2, r3}
  Ops = {"QuorumPut"}
  Errors = FALSE
INVARIANT MajorityWritten
CHECK_DEADLOCK FALSE
