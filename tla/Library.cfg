SPECIFICATION LibrarySpec
CONSTANTS
  Element = {a, b}
  Nil = nil
  Capacity = 2
  MaxCapacity = 4
  Vertex = {v1, v2, v3, v4}
  Hash = {1, 2, 3, 4, 5}
  RingValue = {x, y}
  MaxNodes = 4
  Second = 4
  Rate = 2
  MaxClock = 30
  Field = 4
  Zones = {0, 1, 3, 4, 6}
  Nodes = {0, 1, 3, 4, 6}
  WordOr <- MCWordOr
  StoreKey = {x, y}
  StoreValue = {a, b}
  NoValue = nil
  MaxStored = 1
  MaxBatch = 2
  Replica = {r1, r2, r3}
  Key = {k1, k2}
  Value = {a, b}
  NilValue = nil
  MultiVersion = TRUE
  MaxWrites = 2
  MaxAudits = 1
INVARIANTS SearchesRight RateKept Commute Current NoFalseAlarm DivergenceFound
PROPERTIES ImplementsFifo KeysMove BallotsGrow
CHECK_DEADLOCK FALSE
