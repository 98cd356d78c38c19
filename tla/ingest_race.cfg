\* Two listeners on a path never seen before.
CONSTANTS
  w1 = w1
  w2 = w2
  x1 = x1
  x2 = x2
  d3 = d3
  i1 = i1
  i2 = i2
  path1 = path1
  path2 = path2
  Events <- Writes
  Path <- WritesPath
  Version <- WritesVersion
  Order <- WritesOrder
  Ingesters = {i1, i2}
  Paths = {path1, path2}
  Known = {}
  MaxLines = 4
  MaxFaults = 1
SPECIFICATION Spec
PROPERTIES
  AlwaysSerializes
\* The audit lines run out.
CHECK_DEADLOCK FALSE
