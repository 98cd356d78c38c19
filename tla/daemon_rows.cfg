\* One request queued twice, two clusters, a batch of both rows, a changing policy.
CONSTANTS
  r1 = r1
  c1 = c1
  c2 = c2
  Requests = {r1}
  Clusters = {c1, c2}
  Policies <- Moving
  MaxAttempts = 2
  MaxBackoff = 300
  BatchSize = 2
  MaxTaskId = 2
  MaxFaults = 1
SPECIFICATION Spec
INVARIANTS
  TypeOK
  DispatchedImpliesAccepted
  BatchFresh
  AttemptsWithinCap
  CallbackFindsRow
  RedeliveryBound
  FanoutComplete
PROPERTIES
  ImplementsDelivery
\* Everything may be settled and the faults used up.
CHECK_DEADLOCK FALSE
