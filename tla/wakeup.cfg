\* The LISTEN connection comes and goes while rows are committed and drained.
CONSTANTS
  BatchSize = 2
  PoolSize = 4
  MaxRows = 4
  MaxFaults = 3
SPECIFICATION FairSpec
INVARIANTS
  TypeOK
  NoLostWakeup
  WorkerFindsConnection
PROPERTIES
  EventuallyDrained
