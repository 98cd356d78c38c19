------------------------------- MODULE Inbox --------------------------------
(***************************************************************************)
(* What Store.Ingest promises as one indivisible operation: an event wins  *)
(* when its version is above the watermark of its path, and winning moves  *)
(* the watermark and queues one task, both or neither.                     *)
(***************************************************************************)
EXTENDS Integers

CONSTANTS
  Events,   \* audit events, one per Vault request_id
  Paths,    \* (mount, path) pairs
  Path,     \* the path of an event
  Version   \* the KV version of an event

VARIABLES
  watermark,  \* version stored for a path, -1 before the first
  inbox       \* events queued and not yet taken

vars == <<watermark, inbox>>

Init ==
  /\ watermark \in [Paths -> Int]
  /\ inbox = {}

Accept(e) ==
  /\ Version[e] > watermark[Path[e]]
  /\ watermark' = [watermark EXCEPT ![Path[e]] = Version[e]]
  /\ inbox' = inbox \cup {e}

Take(e) ==
  /\ e \in inbox
  /\ inbox' = inbox \ {e}
  /\ UNCHANGED watermark

Next == \E e \in Events : Accept(e) \/ Take(e)

Spec == Init /\ [][Next]_vars
=============================================================================
