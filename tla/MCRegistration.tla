--------------------------- MODULE MCRegistration ---------------------------
(* Registration with the times and attempts of the code, in units of 5 s.    *)
EXTENDS Registration

Unit == 5
Seconds(n) == n \div Unit
RegisterTimeout == Seconds(5)
RegisterRetryInterval == Seconds(10)
RegisterMaxAttempts == 6
=============================================================================
