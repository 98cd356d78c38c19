-------------------------------- MODULE Pipe --------------------------------
(***************************************************************************)
(* What the way from Vault's audit devices to the database promises: the   *)
(* changes of one source arrive in the order Vault made them, each at most *)
(* once, with no gap but for an ingest that failed.                        *)
(***************************************************************************)
EXTENDS Naturals

CONSTANTS
  Sources,  \* audit connections
  Changes   \* the positions of a source's stream that are changes

VARIABLES
  got,   \* changes ingested, as pairs of source and position
  lost   \* changes whose ingest failed

Init == got = {} /\ lost = {}

\* A change is handled when all changes before it on its source were.
Ripe(c, k) ==
  /\ k \in Changes[c] /\ <<c, k>> \notin got \cup lost
  /\ \A j \in Changes[c] : j < k => <<c, j>> \in got \cup lost

Deliver(c, k) == Ripe(c, k) /\ got' = got \cup {<<c, k>>} /\ UNCHANGED lost
Lose(c, k) == Ripe(c, k) /\ lost' = lost \cup {<<c, k>>} /\ UNCHANGED got

Next == \E c \in Sources : \E k \in Changes[c] : Deliver(c, k) \/ Lose(c, k)

Spec == Init /\ [][Next]_<<got, lost>>
=============================================================================
