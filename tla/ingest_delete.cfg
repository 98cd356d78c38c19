\* A delete after a write, one listener.
CONSTANTS
  w1 = w1
  w2 = w2
  x1 = x1
  x2 = x2
  d3 = d3
  i1 = i1
  i2 = i2
  path1 = path1
  path2 = path2
  Events <- WithDelete
  Path <- WithDeletePath
  Version <- WithDeleteVersion
  Order <- WithDeleteOrder
  Ingesters = {i1}
  Paths = {path1, path2}
  Known = {}
  MaxLines = 4
  MaxFaults = 1
SPECIFICATION Spec
INVARIANTS
  DroppedIsStale
\* The audit lines run out.
CHECK_DEADLOCK FALSE
