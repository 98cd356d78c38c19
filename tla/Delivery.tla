------------------------------ MODULE Delivery ------------------------------
(***************************************************************************)
(* What the panel promises for the Vault operations it was told of: each   *)
(* is owed, at once, to all the clusters the policy of that moment names.  *)
(* An owed event is tried until the cluster's agent has seen it and it is  *)
(* delivered, or until Cap attempts failed and it is abandoned.  An event  *)
(* is owed once and settled once; the agent may see it again.              *)
(***************************************************************************)
EXTENDS Naturals

CONSTANTS
  Requests,  \* Vault operations
  Clusters,  \* clusters they may concern
  Policies,  \* functions from an operation to the clusters subscribed to it
  Cap        \* failed attempts after which an event is abandoned

VARIABLES
  inbox,   \* operations told and not yet owed to anybody
  policy,  \* the policy in force
  fate,    \* of an event: none, owed, delivered or abandoned
  seen,    \* the agent has accepted the event
  tries    \* failed attempts counted so far

vars == <<inbox, policy, fate, seen, tries>>

Pairs == Requests \X Clusters

Init ==
  /\ inbox = {}
  /\ policy \in Policies
  /\ fate = [k \in Pairs |-> "none"]
  /\ seen = [k \in Pairs |-> FALSE]
  /\ tries = [k \in Pairs |-> 0]

\* An operation is told, possibly once more after it was owed.
Tell(r) ==
  /\ r \notin inbox
  /\ inbox' = inbox \cup {r}
  /\ UNCHANGED <<policy, fate, seen, tries>>

\* The events of one operation become owed together; those that were stay as they are.
Owe(r) ==
  /\ r \in inbox
  /\ inbox' = inbox \ {r}
  /\ fate' = [k \in Pairs |->
                IF k[1] = r /\ k[2] \in policy[r] /\ fate[k] = "none" THEN "owed" ELSE fate[k]]
  /\ UNCHANGED <<policy, seen, tries>>

Change ==
  /\ policy' \in Policies
  /\ UNCHANGED <<inbox, fate, seen, tries>>

\* The agent sees the event, possibly again, possibly after it was settled.
See(k) ==
  /\ fate[k] # "none"
  /\ seen' = [seen EXCEPT ![k] = TRUE]
  /\ UNCHANGED <<inbox, policy, fate, tries>>

\* An attempt fails; the last one abandons the event.
Fail(k) ==
  /\ fate[k] = "owed"
  /\ tries' = [tries EXCEPT ![k] = tries[k] + 1]
  /\ fate' = [fate EXCEPT ![k] = IF tries[k] + 1 = Cap THEN "abandoned" ELSE "owed"]
  /\ UNCHANGED <<inbox, policy, seen>>

Deliver(k) ==
  /\ fate[k] = "owed" /\ seen[k]
  /\ fate' = [fate EXCEPT ![k] = "delivered"]
  /\ UNCHANGED <<inbox, policy, seen, tries>>

Next ==
  \/ \E r \in Requests : Tell(r) \/ Owe(r)
  \/ Change
  \/ \E k \in Pairs : See(k) \/ Fail(k) \/ Deliver(k)

Spec == Init /\ [][Next]_vars
=============================================================================
