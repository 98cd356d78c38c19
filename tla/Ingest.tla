------------------------------- MODULE Ingest -------------------------------
(***************************************************************************)
(* Store.Ingest of scp-listener, run by one or more listener processes     *)
(* against one Postgres at READ COMMITTED.  Every statement of the         *)
(* transaction is a step.  SELECT ... FOR UPDATE locks the row it finds    *)
(* and waits for a row somebody else has locked, but it neither sees nor   *)
(* waits for a row another transaction has inserted and not committed; an  *)
(* INSERT does wait for that one, because of the unique key.               *)
(***************************************************************************)
EXTENDS Integers

CONSTANTS
  Ingesters,  \* listener processes; pump runs one Ingest at a time in each
  Events,     \* audit events, one per Vault request_id
  Paths,      \* (mount, path) pairs
  Path,       \* the path of an event
  Version,    \* the KV version parseLine finds; 0 when the line has none
  Order,      \* place of the event in Vault's own history of its path
  Known,      \* paths that have a versions row before the run
  MaxLines,   \* bound: audit lines, of any events and any number of times each
  MaxFaults   \* bound: failed statements and killed listeners

ASSUME IngestAssumption ==
  /\ Path \in [Events -> Paths]
  /\ Version \in [Events -> Nat]
  /\ Order \in [Events -> Nat]
  /\ Known \subseteq Paths
  /\ MaxLines \in Nat
  /\ MaxFaults \in Nat

NoVersion == -1
Free == "free"
ASSUME FreeAssumption == Free \notin Ingesters

VARIABLES
  versions,     \* versions: committed version of a path, NoVersion without a row
  versionLock,  \* holder of the row lock, or of the uncommitted new row
  tasks,        \* tasks: committed rows
  taskLock,     \* holder of the uncommitted row of a request_id
  pc,           \* the statement an ingester is about to run
  ev,           \* the event it ingests
  queued,       \* history: tasks committed per event
  lines,        \* bound: audit lines used
  faults        \* bound: faults used

tables == <<versions, tasks>>
locks  == <<versionLock, taskLock>>
vars == <<tables, locks, pc, ev, queued, lines, faults>>

Steps == {"idle", "select", "commitOld", "upsert", "insert", "commitNew", "commitDup"}

TypeOK ==
  /\ versions \in [Paths -> Nat \cup {NoVersion}]
  /\ versionLock \in [Paths -> Ingesters \cup {Free}]
  /\ tasks \subseteq Events
  /\ taskLock \in [Events -> Ingesters \cup {Free}]
  /\ pc \in [Ingesters -> Steps]
  /\ ev \in [Ingesters -> Events]
  /\ queued \in [Events -> Nat]
  /\ lines \in Nat
  /\ faults \in Nat

Init ==
  /\ versions = [p \in Paths |-> IF p \in Known THEN 0 ELSE NoVersion]
  /\ versionLock = [p \in Paths |-> Free]
  /\ tasks = {}
  /\ taskLock = [e \in Events |-> Free]
  /\ pc = [i \in Ingesters |-> "idle"]
  /\ ev \in [Ingesters -> Events]
  /\ queued = [e \in Events |-> 0]
  /\ lines = 0
  /\ faults = 0

Goto(i, step) == pc' = [pc EXCEPT ![i] = step]

\* The end of a transaction, committed or rolled back, gives up its locks.
Release(i) ==
  /\ versionLock' = [p \in Paths |-> IF versionLock[p] = i THEN Free ELSE versionLock[p]]
  /\ taskLock' = [e \in Events |-> IF taskLock[e] = i THEN Free ELSE taskLock[e]]

\* pump receives an event from the channel and calls Ingest: BeginTx.
Begin(i, e) ==
  /\ pc[i] = "idle" /\ lines < MaxLines
  /\ ev' = [ev EXCEPT ![i] = e]
  /\ lines' = lines + 1
  /\ Goto(i, "select")
  /\ UNCHANGED <<tables, locks, queued, faults>>

\* The watermark test of Ingest.
StaleOnlyIfLower(e) == Version[e] < versions[Path[e]]
Stale(e) == Version[e] <= versions[Path[e]]

\* SELECT ... FOR UPDATE finds no row, locks nothing and falls through.
SelectNothing(i) ==
  /\ pc[i] = "select" /\ versions[Path[ev[i]]] = NoVersion
  /\ Goto(i, "upsert")
  /\ UNCHANGED <<tables, locks, ev, queued, lines, faults>>

\* SELECT ... FOR UPDATE finds the row, waits for it and locks it.
SelectUnlocked(i) ==
  LET p == Path[ev[i]]
  IN  /\ pc[i] = "select" /\ versions[p] # NoVersion
      /\ Goto(i, IF Stale(ev[i]) THEN "commitOld" ELSE "upsert")
      /\ UNCHANGED <<tables, locks, ev, queued, lines, faults>>
SelectRowLocksPath(i) ==
  LET p == Path[ev[i]]
  IN  /\ pc[i] = "select" /\ versions[p] # NoVersion /\ versionLock[p] = Free
      /\ versionLock' = [versionLock EXCEPT ![p] = p]
      /\ Goto(i, IF Stale(ev[i]) THEN "commitOld" ELSE "upsert")
      /\ UNCHANGED <<tables, taskLock, ev, queued, lines, faults>>
SelectRow(i) ==
  LET p == Path[ev[i]]
  IN  /\ pc[i] = "select" /\ versions[p] # NoVersion /\ versionLock[p] = Free
      /\ versionLock' = [versionLock EXCEPT ![p] = i]
      /\ Goto(i, IF Stale(ev[i]) THEN "commitOld" ELSE "upsert")
      /\ UNCHANGED <<tables, taskLock, ev, queued, lines, faults>>

\* INSERT INTO versions ... ON CONFLICT DO UPDATE: whatever version is there.
UpsertVersionOutsideTx(i) ==
  LET p == Path[ev[i]]
  IN  /\ pc[i] = "upsert" /\ versionLock[p] \in {Free, i}
      /\ versions' = [versions EXCEPT ![p] = Version[ev[i]]]
      /\ Goto(i, "insert")
      /\ UNCHANGED <<tasks, locks, ev, queued, lines, faults>>
UpsertVersion(i) ==
  LET p == Path[ev[i]]
  IN  /\ pc[i] = "upsert" /\ versionLock[p] \in {Free, i}
      /\ versionLock' = [versionLock EXCEPT ![p] = i]
      /\ Goto(i, "insert")
      /\ UNCHANGED <<tables, taskLock, ev, queued, lines, faults>>

\* INSERT INTO tasks ... ON CONFLICT DO NOTHING: a committed row conflicts, an
\* uncommitted one is waited for.
InsertTask(i) ==
  /\ pc[i] = "insert" /\ taskLock[ev[i]] = Free
  /\ IF ev[i] \in tasks
     THEN Goto(i, "commitDup") /\ UNCHANGED taskLock
     ELSE Goto(i, "commitNew") /\ taskLock' = [taskLock EXCEPT ![ev[i]] = i]
  /\ UNCHANGED <<tables, versionLock, ev, queued, lines, faults>>

\* tx.Commit with the result DroppedOldVersion.
CommitOld(i) ==
  /\ pc[i] = "commitOld"
  /\ Release(i) /\ Goto(i, "idle")
  /\ UNCHANGED <<tables, ev, queued, lines, faults>>

\* tx.Commit with the result Inserted.
CommitNew(i) ==
  /\ pc[i] = "commitNew"
  /\ versions' = [versions EXCEPT ![Path[ev[i]]] = Version[ev[i]]]
  /\ tasks' = tasks \cup {ev[i]}
  /\ queued' = [queued EXCEPT ![ev[i]] = @ + 1]
  /\ Release(i) /\ Goto(i, "idle")
  /\ UNCHANGED <<ev, lines, faults>>

\* tx.Commit with the result DroppedDuplicateRequest: the watermark moves.
CommitDup(i) ==
  /\ pc[i] = "commitDup"
  /\ versions' = [versions EXCEPT ![Path[ev[i]]] = Version[ev[i]]]
  /\ Release(i) /\ Goto(i, "idle")
  /\ UNCHANGED <<tasks, ev, queued, lines, faults>>

\* A statement or the commit returned an error, or the listener was killed:
\* the deferred Rollback, and pump goes on with the next event.  A commit that
\* succeeded although its answer was lost is CommitOld, CommitNew or CommitDup.
RollbackForgotten(i) ==
  /\ pc[i] # "idle" /\ faults < MaxFaults
  /\ faults' = faults + 1
  /\ Goto(i, "idle")
  /\ UNCHANGED <<tables, locks, ev, queued, lines>>
Rollback(i) ==
  /\ pc[i] # "idle" /\ faults < MaxFaults
  /\ faults' = faults + 1
  /\ Release(i) /\ Goto(i, "idle")
  /\ UNCHANGED <<tables, ev, queued, lines>>

\* scp-daemon fans the task out and deletes it.
TakeTask(e) ==
  /\ e \in tasks
  /\ tasks' = tasks \ {e}
  /\ UNCHANGED <<versions, locks, pc, ev, queued, lines, faults>>

Statement(i) ==
  \/ SelectNothing(i)
  \/ SelectRow(i)
  \/ UpsertVersion(i)
  \/ InsertTask(i)
  \/ CommitOld(i)
  \/ CommitNew(i)
  \/ CommitDup(i)

Next ==
  \/ \E i \in Ingesters : Statement(i) \/ Rollback(i) \/ \E e \in Events : Begin(i, e)
  \/ \E e \in Events : TakeTask(e)

Spec == Init /\ [][Next]_vars

\* Statements that can run do run; a statement that waits for a lock cannot.
FairSpec == Spec /\ \A i \in Ingesters : WF_vars(Statement(i))

-----------------------------------------------------------------------------
(* Properties *)

\* Whose ingests exclude each other: paths that have their versions row, or any
\* path when there is one listener, whose pump ingests one event at a time.
Alone == \A i, j \in Ingesters : i = j
Guarded(p) == p \in Known \/ Alone
GuardedPaths == {p \in Paths : Guarded(p)}
GuardedEvents == {e \in Events : Guarded(Path[e])}

\* Two concurrent ingests of one such path serialize: the transactions take
\* effect as if Ingest were one indivisible step, watermark and task together.
Atomic == INSTANCE Inbox WITH
  Events <- GuardedEvents, Paths <- GuardedPaths,
  watermark <- [p \in GuardedPaths |-> versions[p]],
  inbox <- tasks \cap GuardedEvents
Serializes == Atomic!Spec

\* The same of every path, as the comment in Ingest has it.
Always == INSTANCE Inbox WITH watermark <- versions, inbox <- tasks
AlwaysSerializes == Always!Spec

\* An audit line delivered again, by another device, connection or listener,
\* never queues its request a second time, even after the daemon took the task;
\* on a path that has its versions row, or on any path when there is one listener.
QueuedOnce == \A e \in GuardedEvents : queued[e] <= 1

\* No partial state: a watermark above the initial one belongs to an event
\* that was queued, whatever statement failed or listener died on the way.
WatermarkHasTask ==
  \A p \in Paths :
    versions[p] \in {NoVersion, 0} \/
    \E e \in Events : Path[e] = p /\ Version[e] = versions[p] /\ queued[e] > 0

\* An event dropped as DroppedOldVersion is a replay or came out of order: the
\* same event, or one that Vault performed later on the path, was queued.
DroppedIsStale ==
  \A i \in Ingesters : pc[i] = "commitOld" =>
    \E e \in Events :
      /\ Path[e] = Path[ev[i]] /\ Order[e] >= Order[ev[i]]
      /\ queued[e] > 0

\* An ingester whose statement waits for the lock of another one.
Waits(i) ==
  \/ pc[i] = "select" /\ versions[Path[ev[i]]] # NoVersion /\ versionLock[Path[ev[i]]] # Free
  \/ pc[i] = "upsert" /\ versionLock[Path[ev[i]]] \notin {Free, i}
  \/ pc[i] = "insert" /\ taskLock[ev[i]] # Free

\* The transactions never stand still: among listeners that hold and await locks of
\* rows and of request_ids one can go on, whatever failed or died before.
NoCircle ==
  (\E i \in Ingesters : pc[i] # "idle") =>
    \E i \in Ingesters : pc[i] # "idle" /\ ~Waits(i)

\* Every Ingest ends: transactions wait for each other's locks, never in a circle.
IngestEnds == \A i \in Ingesters : pc[i] # "idle" ~> pc[i] = "idle"
=============================================================================
