\* One row with the maxAttempts and maxBackoff of the code, queued twice, fair.
CONSTANTS
  r1 = r1
  c1 = c1
  c2 = c2
  Requests = {r1}
  Clusters = {c1}
  Policies <- OneRow
  MaxAttempts = 5
  MaxBackoff = 300
  BatchSize = 1
  MaxTaskId = 2
  MaxFaults = 2
SPECIFICATION FairSpec
INVARIANTS
  OutageTolerated
PROPERTIES
  EventuallySettled
\* Everything may be settled and the faults used up.
CHECK_DEADLOCK FALSE
