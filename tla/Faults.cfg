SPECIFICATION FairSpec
CONSTANTS
  Node = {n1, n2, n3}
  Durations = {0, 1}
  Injectable = {"crash", "drop", "slow", "flaky", "partition"}
  ChanBuffer = 1
  Senders = {n1}
  Targets = {n2}
  MaxTime = 2
  MaxCalls = 2
  MaxEvents = 3
INVARIANTS FaultsBacked PartitionCuts 
PROPERTIES FaultsEnd CrashLasts
CHECK_DEADLOCK FALSE
