\* Two generations of an agent, with fairness.
CONSTANTS
  MaxGen = 2
  MaxAttempts <- RegisterMaxAttempts
  ClientTimeout <- RegisterTimeout
  RetryInterval <- RegisterRetryInterval
  MaxFaults = 2
SPECIFICATION FairSpec
INVARIANTS
  TypeOK
  RowIsCurrent
  GivesUpLate
  GivesUpInTime
PROPERTIES
  RegistrationEnds
\* The last generation may have ended.
CHECK_DEADLOCK FALSE
