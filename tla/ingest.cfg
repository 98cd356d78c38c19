\* Two listeners on a known path and one never seen before, statements run fairly.
CONSTANTS
  w1 = w1
  w2 = w2
  x1 = x1
  x2 = x2
  d3 = d3
  i1 = i1
  i2 = i2
  path1 = path1
  path2 = path2
  Events <- Writes
  Path <- WritesPath
  Version <- WritesVersion
  Order <- WritesOrder
  Ingesters = {i1, i2}
  Paths = {path1, path2}
  Known = {path1}
  MaxLines = 5
  MaxFaults = 1
SPECIFICATION FairSpec
INVARIANTS
  TypeOK
  QueuedOnce
  WatermarkHasTask
  DroppedIsStale
  NoCircle
PROPERTIES
  Serializes
  IngestEnds
\* The audit lines run out.
CHECK_DEADLOCK FALSE
