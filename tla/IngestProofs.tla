---------------------------- MODULE IngestProofs ----------------------------
(***************************************************************************)
(* Proofs about Ingest for every set of listeners, events and paths.       *)
(***************************************************************************)
EXTENDS Ingest, TLAPS

\* The initial tables and listeners are well typed.
LEMMA InitType == Init => TypeOK
BY IngestAssumption, FreeAssumption DEF Init, TypeOK, Steps, NoVersion

\* Every statement keeps the tables, locks and listeners well typed.
LEMMA NextType == TypeOK /\ [Next]_vars => TypeOK'
<1> SUFFICES ASSUME TypeOK, [Next]_vars PROVE TypeOK'
  OBVIOUS
<1> USE IngestAssumption DEF TypeOK, Steps, tables, locks, Goto, Release, NoVersion
<1>1. ASSUME NEW i \in Ingesters, NEW e \in Events, Begin(i, e) PROVE TypeOK'
  BY <1>1 DEF Begin
<1>2. ASSUME NEW i \in Ingesters, SelectNothing(i) PROVE TypeOK'
  BY <1>2 DEF SelectNothing
<1>3. ASSUME NEW i \in Ingesters, SelectRow(i) PROVE TypeOK'
  BY <1>3 DEF SelectRow
<1>4. ASSUME NEW i \in Ingesters, UpsertVersion(i) PROVE TypeOK'
  BY <1>4 DEF UpsertVersion
<1>5. ASSUME NEW i \in Ingesters, InsertTask(i) PROVE TypeOK'
  BY <1>5 DEF InsertTask
<1>6. ASSUME NEW i \in Ingesters, CommitOld(i) PROVE TypeOK'
  BY <1>6 DEF CommitOld
<1>7. ASSUME NEW i \in Ingesters, CommitNew(i) PROVE TypeOK'
  BY <1>7 DEF CommitNew
<1>8. ASSUME NEW i \in Ingesters, CommitDup(i) PROVE TypeOK'
  BY <1>8 DEF CommitDup
<1>9. ASSUME NEW i \in Ingesters, Rollback(i) PROVE TypeOK'
  BY <1>9 DEF Rollback
<1>10. ASSUME NEW e \in Events, TakeTask(e) PROVE TypeOK'
  BY <1>10 DEF TakeTask
<1>11. CASE UNCHANGED vars
  BY <1>11 DEF vars
<1> QED
  BY <1>1, <1>2, <1>3, <1>4, <1>5, <1>6, <1>7, <1>8, <1>9, <1>10, <1>11
  DEF Next, Statement

\* Type correctness of the tables, the locks and the listeners' progress.
THEOREM TypeCorrect == Spec => []TypeOK
BY InitType, NextType, PTL DEF Spec

-----------------------------------------------------------------------------
(* The inductive invariant of the guarded paths *)

\* An ingester past its SELECT.
Decided == {"commitOld", "upsert", "insert", "commitNew", "commitDup"}

\* An ingester whose event won.
Won == {"upsert", "insert", "commitNew", "commitDup"}

\* From the SELECT to the end of its transaction an ingester of a known path has
\* the row lock, unless nobody could compete for it.
HoldsLock ==
  /\ \A p \in Known : versions[p] # NoVersion
  /\ \A i \in Ingesters :
       pc[i] \in Decided /\ Path[ev[i]] \in Known => Alone \/ versionLock[Path[ev[i]]] = i

\* So what the watermark test found is still true when the commit uses it.
StillAbove ==
  \A i \in Ingesters :
    pc[i] \in Won /\ Guarded(Path[ev[i]]) => Version[ev[i]] > versions[Path[ev[i]]]

\* An event that was queued is at or below the watermark of its path.
QueuedBelow ==
  \A e \in Events :
    /\ e \in tasks => queued[e] > 0
    /\ queued[e] > 0 /\ Guarded(Path[e]) => Version[e] <= versions[Path[e]]

\* So no ingest that won finds its own task: no DroppedDuplicateRequest.
NoDuplicate == \A i \in Ingesters : Guarded(Path[ev[i]]) => pc[i] # "commitDup"

IInv == TypeOK /\ HoldsLock /\ StillAbove /\ QueuedBelow /\ QueuedOnce /\ NoDuplicate

\* Without tasks and locks the inductive invariant holds initially.
LEMMA InitIInv == Init => IInv
<1> SUFFICES ASSUME Init PROVE IInv
  OBVIOUS
<1>1. HoldsLock
  BY IngestAssumption DEF Init, HoldsLock, Decided, NoVersion
<1> QED BY <1>1, InitType DEF Init, IInv, StillAbove, Won, QueuedBelow, QueuedOnce,
       NoDuplicate, GuardedEvents

\* A listener past its SELECT keeps the lock of its path until it ends.
LEMMA HoldsLockStep == IInv /\ [Next]_vars => HoldsLock'
<1> SUFFICES ASSUME IInv, [Next]_vars PROVE HoldsLock'
  OBVIOUS
<1> USE IngestAssumption, FreeAssumption
    DEF IInv, TypeOK, HoldsLock, Decided, Alone, tables, locks, Goto, Release, NoVersion
<1>1. ASSUME NEW i \in Ingesters, NEW e \in Events, Begin(i, e) PROVE HoldsLock'
  BY <1>1 DEF Begin
<1>2. ASSUME NEW i \in Ingesters, SelectNothing(i) PROVE HoldsLock'
  BY <1>2 DEF SelectNothing
<1>3. ASSUME NEW i \in Ingesters, SelectRow(i) PROVE HoldsLock'
  BY <1>3 DEF SelectRow
<1>4. ASSUME NEW i \in Ingesters, UpsertVersion(i) PROVE HoldsLock'
  BY <1>4 DEF UpsertVersion
<1>5. ASSUME NEW i \in Ingesters, InsertTask(i) PROVE HoldsLock'
  BY <1>5 DEF InsertTask
<1>6. ASSUME NEW i \in Ingesters, CommitOld(i) PROVE HoldsLock'
  BY <1>6 DEF CommitOld
<1>7. ASSUME NEW i \in Ingesters, CommitNew(i) \/ CommitDup(i) PROVE HoldsLock'
  BY <1>7 DEF CommitNew, CommitDup
<1>8. ASSUME NEW i \in Ingesters, Rollback(i) PROVE HoldsLock'
  BY <1>8 DEF Rollback
<1>9. ASSUME NEW e \in Events, TakeTask(e) PROVE HoldsLock'
  BY <1>9 DEF TakeTask
<1>10. CASE UNCHANGED vars
  BY <1>10 DEF vars
<1> QED
  BY <1>1, <1>2, <1>3, <1>4, <1>5, <1>6, <1>7, <1>8, <1>9, <1>10
  DEF Next, Statement

\* Only the holder of the lock moves the watermark of a path.
LEMMA StillAboveStep == IInv /\ [Next]_vars => StillAbove'
<1> SUFFICES ASSUME IInv, [Next]_vars PROVE StillAbove'
  OBVIOUS
<1> USE IngestAssumption, FreeAssumption
    DEF IInv, TypeOK, StillAbove, Won, tables, locks, Goto, NoVersion
<1>1. ASSUME NEW i \in Ingesters, NEW e \in Events, Begin(i, e) PROVE StillAbove'
  BY <1>1 DEF Begin
<1>2. ASSUME NEW i \in Ingesters, SelectNothing(i) PROVE StillAbove'
  BY <1>2 DEF SelectNothing, HoldsLock
<1>3. ASSUME NEW i \in Ingesters, SelectRow(i) PROVE StillAbove'
  BY <1>3 DEF SelectRow, Stale
<1>4. ASSUME NEW i \in Ingesters, UpsertVersion(i) \/ InsertTask(i) PROVE StillAbove'
  BY <1>4 DEF UpsertVersion, InsertTask
<1>5. ASSUME NEW i \in Ingesters, CommitOld(i) PROVE StillAbove'
  BY <1>5 DEF CommitOld
<1>6. ASSUME NEW i \in Ingesters, CommitNew(i) \/ CommitDup(i) PROVE StillAbove'
  <2>1. ASSUME NEW j \in Ingesters, j # i, pc[j] \in Won, Guarded(Path[ev[j]])
        PROVE  Path[ev[j]] # Path[ev[i]]
    BY <1>6, <2>1 DEF CommitNew, CommitDup, HoldsLock, Decided, Alone, Guarded
  <2> QED BY <1>6, <2>1 DEF CommitNew, CommitDup
<1>7. ASSUME NEW i \in Ingesters, Rollback(i) PROVE StillAbove'
  BY <1>7 DEF Rollback
<1>8. ASSUME NEW e \in Events, TakeTask(e) PROVE StillAbove'
  BY <1>8 DEF TakeTask
<1>9. CASE UNCHANGED vars
  BY <1>9 DEF vars
<1> QED
  BY <1>1, <1>2, <1>3, <1>4, <1>5, <1>6, <1>7, <1>8, <1>9 DEF Next, Statement

\* A queued event stays at or below a watermark that only grows.
LEMMA QueuedStep == IInv /\ [Next]_vars => QueuedBelow' /\ QueuedOnce'
<1> SUFFICES ASSUME IInv, [Next]_vars PROVE QueuedBelow' /\ QueuedOnce'
  OBVIOUS
<1> USE IngestAssumption
    DEF IInv, TypeOK, QueuedBelow, QueuedOnce, GuardedEvents, tables, NoVersion
<1>1. CASE UNCHANGED <<versions, tasks, queued>>
  BY <1>1
<1>2. ASSUME NEW i \in Ingesters, CommitNew(i) PROVE QueuedBelow' /\ QueuedOnce'
  <2>1. ev[i] \in Events
    OBVIOUS
  <2>2. CASE Guarded(Path[ev[i]])
    <3>1. Version[ev[i]] > versions[Path[ev[i]]]
      BY <1>2, <2>2 DEF CommitNew, StillAbove, Won
    <3>2. queued[ev[i]] = 0
      BY <2>1, <2>2, <3>1
    <3> QED BY <1>2, <2>1, <3>1, <3>2 DEF CommitNew
  <2>3. CASE ~Guarded(Path[ev[i]])
    BY <1>2, <2>1, <2>3 DEF CommitNew
  <2> QED BY <2>2, <2>3
<1>3. ASSUME NEW i \in Ingesters, CommitDup(i) PROVE QueuedBelow' /\ QueuedOnce'
  <2>1. ev[i] \in Events /\ ~Guarded(Path[ev[i]])
    BY <1>3 DEF CommitDup, NoDuplicate
  <2> QED BY <1>3, <2>1 DEF CommitDup
<1>4. ASSUME NEW e \in Events, TakeTask(e) PROVE QueuedBelow' /\ QueuedOnce'
  BY <1>4 DEF TakeTask
<1> QED
  BY <1>1, <1>2, <1>3, <1>4
  DEF Next, Statement, Begin, SelectNothing, SelectRow, UpsertVersion, InsertTask,
      CommitOld, Rollback, vars

\* No transaction meets its own request_id already in the inbox.
LEMMA NoDuplicateStep == IInv /\ [Next]_vars => NoDuplicate'
<1> SUFFICES ASSUME IInv, [Next]_vars PROVE NoDuplicate'
  OBVIOUS
<1> USE DEF IInv, TypeOK, NoDuplicate, Goto
<1>1. ASSUME NEW i \in Ingesters, InsertTask(i) PROVE NoDuplicate'
  <2>1. CASE Guarded(Path[ev[i]])
    <3>1. Version[ev[i]] > versions[Path[ev[i]]] /\ ev[i] \in Events
      BY <1>1, <2>1 DEF InsertTask, StillAbove, Won
    <3>2. Path[ev[i]] \in Paths /\ Version[ev[i]] \in Nat /\ queued[ev[i]] \in Nat
          /\ versions[Path[ev[i]]] \in Nat \cup {-1}
      BY <3>1, IngestAssumption DEF NoVersion
    <3>3. ev[i] \notin tasks
      BY <2>1, <3>1, <3>2 DEF QueuedBelow
    <3> QED BY <1>1, <3>3 DEF InsertTask
  <2>2. CASE ~Guarded(Path[ev[i]])
    BY <1>1, <2>2 DEF InsertTask
  <2> QED BY <2>1, <2>2
<1> QED
  BY <1>1
  DEF Next, Statement, Begin, SelectNothing, SelectRow, UpsertVersion,
      CommitOld, CommitNew, CommitDup, Rollback, TakeTask, vars

\* The conjuncts above are inductive together.
LEMMA Inductive == IInv /\ [Next]_vars => IInv'
BY NextType, HoldsLockStep, StillAboveStep, QueuedStep, NoDuplicateStep DEF IInv

\* The inductive invariant holds in every reachable state.
LEMMA IInvHolds == Spec => []IInv
BY InitIInv, Inductive, PTL DEF Spec

\* A request of a known path, or of any path when there is one listener, is
\* queued at most once, however often its audit line is delivered and whichever
\* listeners ingest it.
THEOREM QueuedAtMostOnce == Spec => []QueuedOnce
<1>1. IInv => QueuedOnce BY DEF IInv
<1> QED BY IInvHolds, <1>1, PTL

-----------------------------------------------------------------------------
(* Ingest implements Inbox *)

\* Every statement is the atomic Ingest, a daemon step of it or a stutter.
LEMMA AtomicStep == IInv /\ [Next]_vars => [Atomic!Next]_(Atomic!vars)
<1> SUFFICES ASSUME IInv, [Next]_vars PROVE [Atomic!Next]_(Atomic!vars)
  OBVIOUS
<1> USE DEF IInv, TypeOK, Atomic!vars, tables
<1>1. CASE UNCHANGED <<versions, tasks>>
  BY <1>1
<1>2. ASSUME NEW i \in Ingesters, CommitNew(i), Guarded(Path[ev[i]]) PROVE Atomic!Next
  <2>1. ev[i] \in GuardedEvents /\ Path[ev[i]] \in GuardedPaths
    BY <1>2, IngestAssumption DEF GuardedEvents, GuardedPaths
  <2>2. Version[ev[i]] > versions[Path[ev[i]]]
    BY <1>2 DEF CommitNew, StillAbove, Won
  <2>3. [p \in GuardedPaths |-> versions'[p]]
          = [[p \in GuardedPaths |-> versions[p]] EXCEPT ![Path[ev[i]]] = Version[ev[i]]]
    BY <1>2, <2>1 DEF CommitNew, GuardedPaths
  <2>4. tasks' \cap GuardedEvents = (tasks \cap GuardedEvents) \cup {ev[i]}
    BY <1>2, <2>1 DEF CommitNew
  <2>5. PICK e \in GuardedEvents : e = ev[i]
    BY <2>1
  <2>6. Atomic!Accept(e)
    BY <2>1, <2>2, <2>3, <2>4, <2>5 DEF Atomic!Accept
  <2> QED BY <2>6 DEF Atomic!Next
<1>3. ASSUME NEW i \in Ingesters, CommitNew(i) \/ CommitDup(i), ~Guarded(Path[ev[i]])
      PROVE  UNCHANGED Atomic!vars
  <2>1. ev[i] \notin GuardedEvents /\ Path[ev[i]] \notin GuardedPaths
    BY <1>3 DEF GuardedEvents, GuardedPaths
  <2>2. \A p \in GuardedPaths : versions'[p] = versions[p]
    BY <1>3, <2>1 DEF CommitNew, CommitDup, GuardedPaths
  <2>3. tasks' \cap GuardedEvents = tasks \cap GuardedEvents
    BY <1>3, <2>1 DEF CommitNew, CommitDup
  <2> QED BY <2>2, <2>3
<1>4. ASSUME NEW e \in GuardedEvents, TakeTask(e) PROVE Atomic!Next
  <2>1. (tasks \ {e}) \cap GuardedEvents = (tasks \cap GuardedEvents) \ {e}
    OBVIOUS
  <2>2. Atomic!Take(e)
    BY <1>4, <2>1 DEF TakeTask, Atomic!Take
  <2> QED BY <2>2 DEF Atomic!Next
<1>5. ASSUME NEW e \in Events \ GuardedEvents, TakeTask(e) PROVE UNCHANGED Atomic!vars
  <2>1. (tasks \ {e}) \cap GuardedEvents = tasks \cap GuardedEvents
    BY <1>5
  <2> QED BY <1>5, <2>1 DEF TakeTask
<1>6. ASSUME NEW i \in Ingesters, CommitDup(i) PROVE ~Guarded(Path[ev[i]])
  BY <1>6 DEF CommitDup, NoDuplicate
<1>7. ASSUME NEW i \in Ingesters, Statement(i) PROVE [Atomic!Next]_(Atomic!vars)
  BY <1>1, <1>2, <1>3, <1>6, <1>7
  DEF Statement, SelectNothing, SelectRow, UpsertVersion, InsertTask, CommitOld
<1>8. ASSUME NEW i \in Ingesters, NEW e \in Events, Rollback(i) \/ Begin(i, e)
      PROVE  [Atomic!Next]_(Atomic!vars)
  BY <1>1, <1>8 DEF Rollback, Begin
<1>9. CASE UNCHANGED vars
  BY <1>1, <1>9 DEF vars
<1> QED
  BY <1>4, <1>5, <1>7, <1>8, <1>9 DEF Next

\* Concurrent ingests of paths that have a watermark serialize: any number of
\* listeners together implement the indivisible Ingest of Inbox.tla, and so does
\* one listener on any paths, whatever fails on the way.
THEOREM GuardedIngestsSerialize == Spec => Serializes
<1>1. Init => Atomic!Init
  <2> SUFFICES ASSUME Init PROVE Atomic!Init
    OBVIOUS
  <2>1. [p \in GuardedPaths |-> versions[p]] \in [GuardedPaths -> Int]
    BY DEF Init, GuardedPaths, NoVersion
  <2>2. tasks \cap GuardedEvents = {}
    BY DEF Init
  <2> QED
    BY <2>1, <2>2 DEF Atomic!Init
<1> QED BY <1>1, IInvHolds, AtomicStep, PTL DEF Spec, Serializes, Atomic!Spec
-----------------------------------------------------------------------------
(* Where watermarks and drops come from, on every path *)

\* A watermark and a task in the inbox both stem from an event that was queued.
Provenance ==
  /\ WatermarkHasTask
  /\ \A e \in tasks : queued[e] > 0
  /\ \A i \in Ingesters : pc[i] = "commitDup" => queued[ev[i]] > 0

\* Every commit that moves a watermark is of an event queued then or before.
LEMMA ProvenanceStep == TypeOK /\ Provenance /\ [Next]_vars => Provenance'
<1> SUFFICES ASSUME TypeOK, Provenance, [Next]_vars PROVE Provenance'
  OBVIOUS
<1> USE IngestAssumption DEF TypeOK, Provenance, WatermarkHasTask, tables, Goto, NoVersion
<1>1. ASSUME NEW i \in Ingesters, InsertTask(i) PROVE Provenance'
  BY <1>1 DEF InsertTask
<1>2. ASSUME NEW i \in Ingesters, CommitNew(i) \/ CommitDup(i) PROVE Provenance'
  <2>1. ev[i] \in Events /\ queued' \in [Events -> Nat] /\ queued'[ev[i]] > 0
    BY <1>2 DEF CommitNew, CommitDup
  <2>2. \A e \in Events : queued[e] > 0 => queued'[e] > 0
    BY <1>2 DEF CommitNew, CommitDup
  <2>3. WatermarkHasTask'
    BY <1>2, <2>1, <2>2 DEF CommitNew, CommitDup
  <2>4. \A e \in tasks' : queued'[e] > 0
    BY <1>2, <2>1, <2>2 DEF CommitNew, CommitDup
  <2>5. \A j \in Ingesters : pc'[j] = "commitDup" => queued'[ev'[j]] > 0
    BY <1>2, <2>1, <2>2 DEF CommitNew, CommitDup
  <2> QED BY <2>3, <2>4, <2>5
<1>3. ASSUME NEW e \in Events, TakeTask(e) PROVE Provenance'
  BY <1>3 DEF TakeTask
<1>4. ASSUME NEW i \in Ingesters, NEW e \in Events, Begin(i, e) PROVE Provenance'
  BY <1>4 DEF Begin
<1> QED
  BY <1>1, <1>2, <1>3, <1>4
  DEF Next, Statement, SelectNothing, SelectRow, UpsertVersion, CommitOld, Rollback, vars

\* Watermark and task move together or not at all, whatever statement fails.
THEOREM WatermarksHaveTasks == Spec => []WatermarkHasTask
<1>1. Init => Provenance
  BY IngestAssumption DEF Init, Provenance, WatermarkHasTask, NoVersion
<1>2. Provenance => WatermarkHasTask
  BY DEF Provenance
<1> QED BY <1>1, <1>2, TypeCorrect, ProvenanceStep, PTL DEF Spec

\* The versions of a path grow in the order Vault performed its events, and each
\* has one: no delete, whose audit line parseLine gives version 0.
VersionsFollowOrder ==
  \A e, f \in Events :
    /\ Version[e] > 0
    /\ Path[e] = Path[f] /\ Version[f] <= Version[e] => Order[f] <= Order[e]

\* A drop that was justified when the SELECT decided it stays justified.
LEMMA DropStep ==
  VersionsFollowOrder /\ TypeOK /\ Provenance /\ DroppedIsStale /\ [Next]_vars
    => DroppedIsStale'
<1> SUFFICES ASSUME VersionsFollowOrder, TypeOK, Provenance, DroppedIsStale, [Next]_vars
             PROVE  DroppedIsStale'
  OBVIOUS
<1> USE IngestAssumption DEF TypeOK, DroppedIsStale, tables, Goto, NoVersion
<1>1. ASSUME NEW i \in Ingesters, SelectRow(i) PROVE DroppedIsStale'
  <2>1. CASE Stale(ev[i])
    <3>1. ev[i] \in Events /\ Path[ev[i]] \in Paths /\ Version[ev[i]] > 0
      BY DEF VersionsFollowOrder
    <3>2. versions[Path[ev[i]]] >= Version[ev[i]]
          /\ versions[Path[ev[i]]] \in Nat \cup {-1} /\ Version[ev[i]] \in Nat
      BY <2>1, <3>1 DEF Stale
    <3>3. PICK e \in Events : /\ Path[e] = Path[ev[i]] /\ queued[e] > 0
                              /\ Version[e] = versions[Path[ev[i]]]
      BY <3>1, <3>2 DEF Provenance, WatermarkHasTask
    <3>4. Order[e] >= Order[ev[i]]
      BY <3>1, <3>2, <3>3 DEF VersionsFollowOrder
    <3> QED BY <1>1, <3>3, <3>4 DEF SelectRow
  <2>2. CASE ~Stale(ev[i])
    BY <1>1, <2>2 DEF SelectRow
  <2> QED BY <2>1, <2>2
<1>2. ASSUME NEW i \in Ingesters, CommitNew(i) PROVE DroppedIsStale'
  <2>1. \A e \in Events : queued[e] > 0 => queued'[e] > 0
    BY <1>2 DEF CommitNew
  <2> QED BY <1>2, <2>1 DEF CommitNew
<1>3. ASSUME NEW i \in Ingesters, NEW e \in Events, Begin(i, e) PROVE DroppedIsStale'
  BY <1>3 DEF Begin
<1> QED
  BY <1>1, <1>2, <1>3
  DEF Next, Statement, SelectNothing, UpsertVersion, InsertTask, CommitOld, CommitDup,
      Rollback, TakeTask, vars

\* Without deletes, an audit line that Ingest drops as an old version is a replay
\* or out of order: the same event or a later one of its path was queued.
THEOREM DropsAreStale == VersionsFollowOrder => (Spec => []DroppedIsStale)
<1> SUFFICES ASSUME VersionsFollowOrder PROVE Spec => []DroppedIsStale
  OBVIOUS
<1>1. Init => Provenance /\ DroppedIsStale
  BY IngestAssumption DEF Init, Provenance, WatermarkHasTask, DroppedIsStale, NoVersion
<1>2. Provenance /\ DroppedIsStale /\ TypeOK /\ [Next]_vars
        => Provenance' /\ DroppedIsStale'
  BY ProvenanceStep, DropStep
<1> QED BY <1>1, <1>2, TypeCorrect, PTL DEF Spec

-----------------------------------------------------------------------------
(* Locks *)

\* Whoever holds the lock of a versions row has its event on that path and will
\* release it, after the task's lock if it takes one: the locks are ordered.
LocksHeld ==
  /\ \A p \in Paths, i \in Ingesters :
       versionLock[p] = i => pc[i] \in Decided /\ Path[ev[i]] = p
  /\ \A e \in Events, i \in Ingesters :
       taskLock[e] = i => pc[i] = "commitNew" /\ ev[i] = e

\* Locks are taken in order and all given up at the end of the transaction.
LEMMA LocksHeldStep == TypeOK /\ LocksHeld /\ [Next]_vars => LocksHeld'
<1> SUFFICES ASSUME TypeOK, LocksHeld, [Next]_vars PROVE LocksHeld'
  OBVIOUS
<1> USE IngestAssumption, FreeAssumption
    DEF TypeOK, LocksHeld, Decided, tables, locks, Goto, Release, NoVersion
<1>1. ASSUME NEW i \in Ingesters, NEW e \in Events, Begin(i, e) PROVE LocksHeld'
  BY <1>1 DEF Begin
<1>2. ASSUME NEW i \in Ingesters, SelectNothing(i) PROVE LocksHeld'
  BY <1>2 DEF SelectNothing
<1>3. ASSUME NEW i \in Ingesters, SelectRow(i) PROVE LocksHeld'
  BY <1>3 DEF SelectRow
<1>4. ASSUME NEW i \in Ingesters, UpsertVersion(i) PROVE LocksHeld'
  BY <1>4 DEF UpsertVersion
<1>5. ASSUME NEW i \in Ingesters, InsertTask(i) PROVE LocksHeld'
  BY <1>5 DEF InsertTask
<1>6. ASSUME NEW i \in Ingesters, CommitOld(i) \/ CommitNew(i) \/ CommitDup(i) \/ Rollback(i)
      PROVE  LocksHeld'
  BY <1>6 DEF CommitOld, CommitNew, CommitDup, Rollback
<1>7. ASSUME NEW e \in Events, TakeTask(e) PROVE LocksHeld'
  BY <1>7 DEF TakeTask
<1>8. CASE UNCHANGED vars
  BY <1>8 DEF vars
<1> QED
  BY <1>1, <1>2, <1>3, <1>4, <1>5, <1>6, <1>7, <1>8 DEF Next, Statement

\* The locks always have such owners.
LEMMA LocksAreHeld == Spec => []LocksHeld
<1>1. Init => LocksHeld
  BY FreeAssumption DEF Init, LocksHeld
<1> QED BY <1>1, TypeCorrect, LocksHeldStep, PTL DEF Spec

\* The owner of a task's lock is about to commit; the owner of a row's lock waits
\* at most for such a one.
LEMMA OwnersGoOn == TypeOK /\ LocksHeld => NoCircle
<1> SUFFICES ASSUME TypeOK, LocksHeld, NEW i \in Ingesters, pc[i] # "idle"
             PROVE  \E j \in Ingesters : pc[j] # "idle" /\ ~Waits(j)
  BY DEF NoCircle
<1> USE IngestAssumption, FreeAssumption DEF TypeOK
<1>1. ASSUME NEW e \in Events, NEW j \in Ingesters, taskLock[e] = j
      PROVE  pc[j] # "idle" /\ ~Waits(j)
  BY <1>1 DEF LocksHeld, Waits
<1>2. ASSUME NEW p \in Paths, NEW j \in Ingesters, versionLock[p] = j
      PROVE  \E k \in Ingesters : pc[k] # "idle" /\ ~Waits(k)
  <2>1. pc[j] \in Decided /\ Path[ev[j]] = p
    BY <1>2 DEF LocksHeld
  <2>2. CASE pc[j] = "insert" /\ taskLock[ev[j]] # Free
    <3>1. taskLock[ev[j]] \in Ingesters /\ ev[j] \in Events
      BY <2>2
    <3> QED BY <1>1, <3>1
  <2>3. CASE ~(pc[j] = "insert" /\ taskLock[ev[j]] # Free)
    BY <1>2, <2>1, <2>3 DEF Waits, Decided
  <2> QED BY <2>2, <2>3
<1>3. CASE pc[i] = "insert" /\ taskLock[ev[i]] # Free
  <2>1. taskLock[ev[i]] \in Ingesters /\ ev[i] \in Events
    BY <1>3
  <2> QED BY <1>1, <2>1
<1>4. CASE versionLock[Path[ev[i]]] # Free
  <2>1. Path[ev[i]] \in Paths /\ versionLock[Path[ev[i]]] \in Ingesters
    BY <1>4
  <2> QED BY <1>2, <2>1
<1>5. CASE ~Waits(i)
  BY <1>5
<1> QED BY <1>3, <1>4, <1>5 DEF Waits

\* However many listeners ingest however many events, their transactions never
\* wait for each other in a circle, so that Postgres never has to abort one.
THEOREM TransactionsGoOn == Spec => []NoCircle
BY TypeCorrect, LocksAreHeld, OwnersGoOn, PTL

-----------------------------------------------------------------------------
(* When the comment in Ingest is true *)

\* If every path has its versions row, or there is one listener only, any two
\* ingests of one path serialize: the unguarded first insert is all that breaks
\* what the comment promises.
THEOREM SerializesIfGuarded == GuardedPaths = Paths => (Spec => AlwaysSerializes)
<1> SUFFICES ASSUME GuardedPaths = Paths PROVE Spec => AlwaysSerializes
  OBVIOUS
<1>1. GuardedEvents = Events
  BY IngestAssumption DEF GuardedPaths, GuardedEvents
<1>2. ASSUME TypeOK
      PROVE  /\ [p \in GuardedPaths |-> versions[p]] = versions
             /\ tasks \cap GuardedEvents = tasks
  BY <1>1, <1>2 DEF TypeOK
<1>3. ASSUME TypeOK', IInv, [Next]_vars PROVE [Always!Next]_(Always!vars)
  <2>1. /\ [p \in GuardedPaths |-> versions'[p]] = versions'
        /\ tasks' \cap GuardedEvents = tasks'
    BY <1>1, <1>3 DEF TypeOK
  <2>2. [Atomic!Next]_(Atomic!vars)
    BY <1>3, AtomicStep
  <2>3. /\ [p \in GuardedPaths |-> versions[p]] = versions
        /\ tasks \cap GuardedEvents = tasks
    BY <1>2, <1>3 DEF IInv
  <2> QED BY <1>1, <2>1, <2>2, <2>3
      DEF Always!Next, Always!vars, Always!Accept, Always!Take,
          Atomic!Next, Atomic!vars, Atomic!Accept, Atomic!Take
<1>4. Init => Always!Init
  BY IngestAssumption DEF Init, Always!Init, NoVersion
<1>5. IInv => TypeOK
  BY DEF IInv
<1> QED BY <1>3, <1>4, <1>5, IInvHolds, PTL DEF Spec, AlwaysSerializes, Always!Spec

\* The watermark of a path that has a row, or of any path with one listener, never
\* goes back.
Grows == \A p \in GuardedPaths : versions'[p] >= versions[p]

\* No replay, late line or failure reopens a path for versions below its watermark.
THEOREM WatermarkGrows == Spec => [][Grows]_vars
<1>1. ASSUME IInv, [Atomic!Next]_(Atomic!vars), NEW p \in GuardedPaths
      PROVE  versions'[p] >= versions[p]
  <2>1. versions[p] \in Int
    BY <1>1 DEF IInv, TypeOK, GuardedPaths, NoVersion
  <2>2. \A e \in GuardedEvents : Path[e] \in GuardedPaths /\ Version[e] \in Nat
    BY IngestAssumption DEF GuardedEvents, GuardedPaths
  <2> DEFINE w == [q \in GuardedPaths |-> versions[q]]
  <2>3. w[p] = versions[p] /\ w'[p] = versions'[p]
    OBVIOUS
  <2>4. \A q \in GuardedPaths : w[q] = versions[q]
    OBVIOUS
  <2>5. w' = w \/ \E e \in GuardedEvents :
          Version[e] > w[Path[e]] /\ w' = [w EXCEPT ![Path[e]] = Version[e]]
    BY <1>1, Zenon DEF Atomic!Next, Atomic!vars, Atomic!Accept, Atomic!Take
  <2>6. w \in [GuardedPaths -> Int]
    BY <1>1 DEF IInv, TypeOK, GuardedPaths, NoVersion
  <2> HIDE DEF w
  <2> QED BY <2>1, <2>2, <2>3, <2>5, <2>6
<1>2. IInv /\ [Next]_vars => Grows
  BY <1>1, AtomicStep DEF Grows
<1> QED BY <1>2, IInvHolds, PTL DEF Spec
=============================================================================
