\* Two connections, changes and lines that are skipped or too long, with fairness.
CONSTANTS
  n1 = n1
  n2 = n2
  Conns = {n1, n2}
  Requests <- AllRequests
  History <- Nodes
  ChanCap = 2
  MaxFaults = 2
SPECIFICATION FairSpec
INVARIANTS
  TypeOK
  NoneDropped
  NobodyLeft
  BacklogBounded
PROPERTIES
  KeepsOrder
  ShutdownEnds
  ChangesArrive
\* The lines run out and the process may have ended.
CHECK_DEADLOCK FALSE
