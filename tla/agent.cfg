\* One delivery, two ExternalSecrets that come and go, with fairness.
CONSTANTS
  d1 = d1
  s1 = s1
  s2 = s2
  Deliveries = {d1}
  Secrets = {s1, s2}
  Res = 2
  PollTimeout = 1
  ShutdownTimeout = 1
  MaxTime = 3
  MaxFaults = 1
SPECIFICATION FairSpec
INVARIANTS
  TypeOK
  SyncedIsRecent
  AcceptedMeansPatched
PROPERTIES
  EveryWatchEnds
\* The clock stops at its bound and the process may have exited.
CHECK_DEADLOCK FALSE
