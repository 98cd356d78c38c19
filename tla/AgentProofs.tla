----------------------------- MODULE AgentProofs -----------------------------
(* Proofs about Agent for all deliveries, ExternalSecrets and timeouts.      *)
EXTENDS Agent, TLAPS

\* Comparing whole seconds says that a time is less than a second too early.
LEMMA WholeSeconds ==
  ASSUME NEW a \in Nat, NEW b \in Nat, a \div Res >= b \div Res
  PROVE  a > b - Res
<1>1. Res \in Nat /\ Res > 0
  BY AgentAssumption
<1>2. a = Res * (a \div Res) + (a % Res) /\ a % Res \in 0..(Res - 1) /\ a \div Res \in Nat
  BY <1>1
<1>3. b = Res * (b \div Res) + (b % Res) /\ b % Res \in 0..(Res - 1) /\ b \div Res \in Nat
  BY <1>1
<1> QED BY <1>1, <1>2, <1>3

-----------------------------------------------------------------------------
(* The inductive invariant *)

\* What Patch has left of its list: it patched it, it still has to, it noted an
\* error, or the ExternalSecret is gone; and it patches only what existed.
PatchAccounts ==
  \A d \in Deliveries :
    /\ patched[d] \subseteq present \cup gone
    /\ step[d] \in {"new", "list"} => patched[d] = {}
    /\ step[d] \in {"patch", "poll", "callback", "done"} =>
         \/ failed[d] = TRUE /\ step[d] = "patch"
         \/ listed[d] \ patched[d] \subseteq gone \cup todo[d]
    /\ step[d] \in {"poll", "callback", "done"} => todo[d] = {}
    /\ listed[d] \subseteq present \cup gone

\* A result of true is about the ExternalSecrets this delivery patched, and it
\* stays right: reconciles only get later, and deleted secrets do not come back.
TrueIsRecent ==
  \A d \in Deliveries :
    result[d] = "true" =>
      /\ step[d] \in {"callback", "done"}
      /\ \A s \in patched[d] \cap present :
           reconciledAt[s] # Never /\ reconciledAt[s] > patchedAt[d] - Res

\* The clock does not run backwards, and the panel repeats what a Watch found.
Recorded ==
  /\ \A s \in Secrets : reconciledAt[s] <= now
  /\ \A d \in Deliveries : step[d] \in {"callback", "done"} => result[d] # "null"
  /\ synced = "true" => \E d \in Deliveries : result[d] = "true"

IInv == TypeOK /\ PatchAccounts /\ TrueIsRecent /\ Recorded

\* No delivery has patched, polled or called back in an initial state.
LEMMA InitIInv == Init => IInv
BY DEF Init, IInv, TypeOK, PatchAccounts, TrueIsRecent, Recorded, Never

\* Every step keeps the variables well typed.
LEMMA TypeStep == TypeOK /\ [Next]_vars => TypeOK'
<1> SUFFICES ASSUME TypeOK, [Next]_vars PROVE TypeOK'
  OBVIOUS
<1> USE AgentAssumption
    DEF TypeOK, cluster, handler, shutdown, Handling, Watching, Goto, Never
<1>1. ASSUME NEW d \in Deliveries, HandleEvent(d) PROVE TypeOK'
  BY <1>1 DEF HandleEvent
<1>2. ASSUME NEW d \in Deliveries, ListSecrets(d) PROVE TypeOK'
  BY <1>2 DEF ListSecrets
<1>3. ASSUME NEW d \in Deliveries, ListError(d) PROVE TypeOK'
  BY <1>3 DEF ListError, Fault
<1>4. ASSUME NEW d \in Deliveries, NEW s \in Secrets, PatchOne(d, s) PROVE TypeOK'
  BY <1>4 DEF PatchOne
<1>5. ASSUME NEW d \in Deliveries, NEW s \in Secrets, PatchOneError(d, s) PROVE TypeOK'
  BY <1>5 DEF PatchOneError, Fault
<1>6. ASSUME NEW d \in Deliveries, PatchReturns(d) PROVE TypeOK'
  BY <1>6 DEF PatchReturns
<1>7. ASSUME NEW d \in Deliveries, PollSynced(d) PROVE TypeOK'
  BY <1>7 DEF PollSynced
<1>8. ASSUME NEW d \in Deliveries, PollTimesOut(d) PROVE TypeOK'
  BY <1>8 DEF PollTimesOut
<1>9. ASSUME NEW d \in Deliveries, CallbackApplied(d) PROVE TypeOK'
  BY <1>9 DEF CallbackApplied
<1>10. ASSUME NEW d \in Deliveries, CallbackLost(d) PROVE TypeOK'
  BY <1>10 DEF CallbackLost, Fault
<1>11. ASSUME NEW s \in Secrets, Reconcile(s) PROVE TypeOK'
  BY <1>11 DEF Reconcile
<1>12. ASSUME NEW s \in Secrets, CreateSecret(s) \/ DeleteSecret(s) PROVE TypeOK'
  BY <1>12 DEF CreateSecret, DeleteSecret
<1>13. CASE Signal
  BY <1>13 DEF Signal
<1>14. CASE ShutdownReturns \/ WaitReturns \/ MainReturns
  BY <1>14 DEF ShutdownReturns, WaitReturns, MainReturns
<1>15. CASE Tick
  BY <1>15 DEF Tick
<1>16. CASE UNCHANGED vars
  BY <1>16 DEF vars
<1> QED
  BY <1>1, <1>2, <1>3, <1>4, <1>5, <1>6, <1>7, <1>8, <1>9, <1>10, <1>11, <1>12,
     <1>13, <1>14, <1>15, <1>16
  DEF Next, HandlerStep, WatchStep, FaultStep

\* Patch accounts for every ExternalSecret it listed: to do, bumped or gone,
\* or it has recorded an error.
LEMMA PatchAccountsStep == IInv /\ [Next]_vars => PatchAccounts'
<1> SUFFICES ASSUME IInv, [Next]_vars PROVE PatchAccounts'
  OBVIOUS
<1> USE DEF IInv, TypeOK, PatchAccounts, cluster, handler, Goto
<1>1. ASSUME NEW d \in Deliveries, HandleEvent(d) PROVE PatchAccounts'
  BY <1>1 DEF HandleEvent
<1>2. ASSUME NEW d \in Deliveries, ListSecrets(d) PROVE PatchAccounts'
  BY <1>2 DEF ListSecrets
<1>3. ASSUME NEW d \in Deliveries, ListError(d) PROVE PatchAccounts'
  BY <1>3 DEF ListError
<1>4. ASSUME NEW d \in Deliveries, NEW s \in Secrets, PatchOne(d, s) PROVE PatchAccounts'
  BY <1>4 DEF PatchOne
<1>5. ASSUME NEW d \in Deliveries, NEW s \in Secrets, PatchOneError(d, s)
      PROVE  PatchAccounts'
  BY <1>5 DEF PatchOneError
<1>6. ASSUME NEW d \in Deliveries, PatchReturns(d) PROVE PatchAccounts'
  BY <1>6 DEF PatchReturns
<1>7. ASSUME NEW d \in Deliveries, PollSynced(d) \/ PollTimesOut(d) PROVE PatchAccounts'
  BY <1>7 DEF PollSynced, PollTimesOut
<1>8. ASSUME NEW d \in Deliveries, CallbackApplied(d) \/ CallbackLost(d)
      PROVE  PatchAccounts'
  BY <1>8 DEF CallbackApplied, CallbackLost
<1>9. ASSUME NEW s \in Secrets, Reconcile(s) \/ CreateSecret(s) \/ DeleteSecret(s)
      PROVE  PatchAccounts'
  BY <1>9 DEF Reconcile, CreateSecret, DeleteSecret
<1>10. CASE Signal \/ ShutdownReturns \/ WaitReturns \/ MainReturns \/ Tick
  BY <1>10 DEF Signal, ShutdownReturns, WaitReturns, MainReturns, Tick
<1>11. CASE UNCHANGED vars
  BY <1>11 DEF vars
<1> QED
  BY <1>1, <1>2, <1>3, <1>4, <1>5, <1>6, <1>7, <1>8, <1>9, <1>10, <1>11
  DEF Next, HandlerStep, WatchStep, FaultStep

\* A Watch decides true from what allSynced lists, which includes whatever the
\* delivery patched and still exists.
LEMMA TrueIsRecentStep == IInv /\ [Next]_vars => TrueIsRecent'
<1> SUFFICES ASSUME IInv, [Next]_vars PROVE TrueIsRecent'
  OBVIOUS
<1> USE AgentAssumption
    DEF IInv, TypeOK, TrueIsRecent, cluster, handler, Goto, Never
<1>1. ASSUME NEW d \in Deliveries,
             HandleEvent(d) \/ ListSecrets(d) \/ ListError(d) \/ PatchReturns(d)
      PROVE  TrueIsRecent'
  BY <1>1 DEF HandleEvent, ListSecrets, ListError, PatchReturns
<1>2. ASSUME NEW d \in Deliveries, NEW s \in Secrets,
             PatchOne(d, s) \/ PatchOneError(d, s)
      PROVE  TrueIsRecent'
  BY <1>2 DEF PatchOne, PatchOneError
<1>3. ASSUME NEW d \in Deliveries, PollSynced(d) PROVE TrueIsRecent'
  <2>1. ASSUME NEW s \in present
        PROVE  reconciledAt[s] # Never /\ reconciledAt[s] > patchedAt[d] - Res
    <3>1. reconciledAt[s] # Never /\ reconciledAt[s] \div Res >= patchedAt[d] \div Res
      BY <1>3 DEF PollSynced, AllSynced, RefreshTime
    <3>2. reconciledAt[s] \in Nat /\ patchedAt[d] \in Nat
      BY <3>1
    <3> QED BY <3>1, <3>2, WholeSeconds
  <2> QED BY <1>3, <2>1 DEF PollSynced
<1>4. ASSUME NEW d \in Deliveries, PollTimesOut(d) PROVE TrueIsRecent'
  BY <1>4 DEF PollTimesOut
<1>5. ASSUME NEW d \in Deliveries, CallbackApplied(d) \/ CallbackLost(d)
      PROVE  TrueIsRecent'
  BY <1>5 DEF CallbackApplied, CallbackLost
<1>6. ASSUME NEW s \in Secrets, Reconcile(s) PROVE TrueIsRecent'
  BY <1>6 DEF Reconcile, Recorded
<1>7. ASSUME NEW s \in Secrets, CreateSecret(s) PROVE TrueIsRecent'
  BY <1>7 DEF CreateSecret, PatchAccounts
<1>8. ASSUME NEW s \in Secrets, DeleteSecret(s) PROVE TrueIsRecent'
  BY <1>8 DEF DeleteSecret
<1>9. CASE Signal \/ ShutdownReturns \/ WaitReturns \/ MainReturns \/ Tick
  BY <1>9 DEF Signal, ShutdownReturns, WaitReturns, MainReturns, Tick
<1>10. CASE UNCHANGED vars
  BY <1>10 DEF vars
<1> QED
  BY <1>1, <1>2, <1>3, <1>4, <1>5, <1>6, <1>7, <1>8, <1>9, <1>10
  DEF Next, HandlerStep, WatchStep, FaultStep

\* The panel's synced=true was the result of one of the deliveries.
LEMMA RecordedStep == IInv /\ [Next]_vars => Recorded'
<1> SUFFICES ASSUME IInv, [Next]_vars PROVE Recorded'
  OBVIOUS
<1> USE AgentAssumption
    DEF IInv, TypeOK, Recorded, cluster, handler, Goto, Never
<1>1. ASSUME NEW d \in Deliveries,
             HandleEvent(d) \/ ListSecrets(d) \/ ListError(d) \/ PatchReturns(d)
      PROVE  Recorded'
  BY <1>1 DEF HandleEvent, ListSecrets, ListError, PatchReturns
<1>2. ASSUME NEW d \in Deliveries, NEW s \in Secrets,
             PatchOne(d, s) \/ PatchOneError(d, s)
      PROVE  Recorded'
  BY <1>2 DEF PatchOne, PatchOneError
<1>3. ASSUME NEW d \in Deliveries, PollSynced(d) PROVE Recorded'
  BY <1>3 DEF PollSynced
<1>4. ASSUME NEW d \in Deliveries, PollTimesOut(d) PROVE Recorded'
  <2>1. result[d] # "true"
    BY <1>4 DEF PollTimesOut, TrueIsRecent
  <2> QED BY <1>4, <2>1 DEF PollTimesOut
<1>5. ASSUME NEW d \in Deliveries, CallbackApplied(d) \/ CallbackLost(d) PROVE Recorded'
  BY <1>5 DEF CallbackApplied, CallbackLost
<1>6. ASSUME NEW s \in Secrets, Reconcile(s) \/ CreateSecret(s) \/ DeleteSecret(s)
      PROVE  Recorded'
  BY <1>6 DEF Reconcile, CreateSecret, DeleteSecret
<1>7. CASE Signal \/ ShutdownReturns \/ WaitReturns \/ MainReturns
  BY <1>7 DEF Signal, ShutdownReturns, WaitReturns, MainReturns
<1>8. CASE Tick
  BY <1>8 DEF Tick
<1>9. CASE UNCHANGED vars
  BY <1>9 DEF vars
<1> QED
  BY <1>1, <1>2, <1>3, <1>4, <1>5, <1>6, <1>7, <1>8, <1>9
  DEF Next, HandlerStep, WatchStep, FaultStep

\* The inductive invariant holds in every reachable state.
LEMMA IInvHolds == Spec => []IInv
<1>1. IInv /\ [Next]_vars => IInv'
  BY TypeStep, PatchAccountsStep, TrueIsRecentStep, RecordedStep DEF IInv
<1> QED BY InitIInv, <1>1, PTL DEF Spec

-----------------------------------------------------------------------------
(* Theorems *)

\* Type correctness of the handlers, the Watches and the cluster.
THEOREM TypeCorrect == Spec => []TypeOK
<1>1. IInv => TypeOK BY DEF IInv
<1> QED BY IInvHolds, <1>1, PTL

\* What the panel may conclude from synced=true, for any resolution of the clock.
THEOREM SyncedWithinASecond == Spec => []SyncedIsRecent
<1>1. IInv => SyncedIsRecent
  BY DEF IInv, TrueIsRecent, Recorded, SyncedIsRecent
<1> QED BY IInvHolds, <1>1, PTL

\* A 202 is never sent over an ExternalSecret that Patch failed to bump.
THEOREM NoPartialAccept == Spec => []AcceptedMeansPatched
<1>1. IInv => AcceptedMeansPatched
  BY DEF IInv, TypeOK, PatchAccounts, AcceptedMeansPatched, Watching
<1> QED BY IInvHolds, <1>1, PTL

\* A confirmation, once justified, stays so: reconciles of a secret only get later.
LEMMA ConfirmedStep ==
  Res = 1 /\ IInv /\ SyncedAfterPatch /\ [Next]_vars => SyncedAfterPatch'
<1> SUFFICES ASSUME Res = 1, IInv, SyncedAfterPatch, [Next]_vars PROVE SyncedAfterPatch'
  OBVIOUS
<1> USE DEF IInv, TypeOK, SyncedAfterPatch, cluster, handler, Goto, Never
<1>1. ASSUME NEW d \in Deliveries,
             HandleEvent(d) \/ ListSecrets(d) \/ ListError(d) \/ PatchReturns(d)
      PROVE  SyncedAfterPatch'
  BY <1>1 DEF HandleEvent, ListSecrets, ListError, PatchReturns
<1>2. ASSUME NEW d \in Deliveries, NEW s \in Secrets,
             PatchOne(d, s) \/ PatchOneError(d, s)
      PROVE  SyncedAfterPatch'
  BY <1>2 DEF PatchOne, PatchOneError
<1>3. ASSUME NEW d \in Deliveries, PollSynced(d) PROVE SyncedAfterPatch'
  <2>1. PICK s \in present : TRUE
    BY <1>3 DEF PollSynced, AllSynced
  <2>2. /\ reconciledAt[s] # Never
        /\ reconciledAt[s] \div Res >= patchedAt[d] \div Res
    BY <1>3 DEF PollSynced, AllSynced, RefreshTime
  <2>3. reconciledAt[s] \in Nat /\ patchedAt[d] \in Nat /\ s \in Secrets
    BY <2>2
  <2>4. reconciledAt[s] >= patchedAt[d]
    <3>1. reconciledAt[s] > patchedAt[d] - Res
      BY <2>2, <2>3, WholeSeconds
    <3> QED BY <2>3, <3>1
  <2> QED BY <1>3, <2>3, <2>4 DEF PollSynced
<1>4. ASSUME NEW d \in Deliveries, PollTimesOut(d) PROVE SyncedAfterPatch'
  BY <1>4 DEF PollTimesOut
<1>5. ASSUME NEW d \in Deliveries, CallbackApplied(d) \/ CallbackLost(d)
      PROVE  SyncedAfterPatch'
  BY <1>5 DEF CallbackApplied, CallbackLost
<1>6. ASSUME NEW s \in Secrets, Reconcile(s) PROVE SyncedAfterPatch'
  <2>1. \A r \in Secrets : reconciledAt'[r] >= reconciledAt[r]
    BY <1>6 DEF Reconcile, Recorded
  <2>2. \A r \in Secrets : reconciledAt[r] \in Int /\ reconciledAt'[r] \in Int
    BY <1>6 DEF Reconcile
  <2> QED BY <1>6, <2>1, <2>2 DEF Reconcile
<1>7. ASSUME NEW s \in Secrets, CreateSecret(s) \/ DeleteSecret(s) PROVE SyncedAfterPatch'
  BY <1>7 DEF CreateSecret, DeleteSecret
<1>8. CASE Signal \/ ShutdownReturns \/ WaitReturns \/ MainReturns \/ Tick
  BY <1>8 DEF Signal, ShutdownReturns, WaitReturns, MainReturns, Tick
<1>9. CASE UNCHANGED vars
  BY <1>9 DEF vars
<1> QED
  BY <1>1, <1>2, <1>3, <1>4, <1>5, <1>6, <1>7, <1>8, <1>9
  DEF Next, HandlerStep, WatchStep, FaultStep

\* With times of one resolution, patchedAt and refreshTime alike, a callback with
\* synced=true is only sent after a reconcile at or after the handler's start: the
\* truncation in allSynced is all that breaks what the package comment promises.
THEOREM WholeSecondsConfirm == Res = 1 => (Spec => []SyncedAfterPatch)
<1> SUFFICES ASSUME Res = 1 PROVE Spec => []SyncedAfterPatch
  OBVIOUS
<1>1. Init => SyncedAfterPatch
  BY DEF Init, SyncedAfterPatch
<1>2. IInv /\ SyncedAfterPatch /\ [Next]_vars => SyncedAfterPatch'
  BY ConfirmedStep
<1> QED BY <1>1, <1>2, IInvHolds, PTL DEF Spec
=============================================================================
