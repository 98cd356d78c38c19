------------------------------ MODULE MCWakeup ------------------------------
(* Wakeup on a few rows, more than one batch of them.                        *)
EXTENDS Wakeup
=============================================================================
