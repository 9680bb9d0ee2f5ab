SPECIFICATION Spec
CONSTANTS
  Vertex = {a, b, c}
  Unit = unit
INVARIANT SCCsFound
CHECK_DEADLOCK FALSE
