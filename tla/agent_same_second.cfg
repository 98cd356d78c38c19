\* One delivery, one ExternalSecret.
CONSTANTS
  d1 = d1
  s1 = s1
  s2 = s2
  Deliveries = {d1}
  Secrets = {s1}
  Res = 2
  PollTimeout = 2
  ShutdownTimeout = 1
  MaxTime = 4
  MaxFaults = 1
SPECIFICATION Spec
INVARIANTS
  SyncedAfterPatch
\* The clock stops at its bound and the process may have exited.
CHECK_DEADLOCK FALSE
