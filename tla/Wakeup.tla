------------------------------- MODULE Wakeup -------------------------------
(***************************************************************************)
(* How a worker of scp-daemon learns that there is work: Subscribe holds a *)
(* LISTEN connection and turns notifications into a token in a channel of  *)
(* capacity one; the worker waits for the token or for its ticker and then *)
(* drains the table in a loop.  The same code serves tasks_new with        *)
(* RunProcessor and events_new with RunDispatcher; rows are only counted.  *)
(***************************************************************************)
EXTENDS Naturals

CONSTANTS
  BatchSize,  \* batchSize
  PoolSize,   \* pool_max_conns; pgx takes at least 4 when the DSN is silent
  MaxRows,    \* bound: rows ever committed
  MaxFaults   \* bound: lost connections, failed fetches and failed rows

ASSUME WakeupAssumption ==
  /\ BatchSize \in Nat \ {0}
  /\ PoolSize \in Nat /\ PoolSize >= 4
  /\ MaxRows \in Nat
  /\ MaxFaults \in Nat

VARIABLES
  ready,   \* rows FetchTasks or FetchPending would return
  later,   \* events rows that wait for their next_retry_at
  made,    \* bound: rows committed so far
  conn,    \* subscriber: "down", "acquired" or "listening"
  notes,   \* notifications in the session WaitForNotification has not returned
  inUse,   \* connections the pool has lent out for longer than a statement
  other,   \* of them, to the other pair: its subscriber and its worker
  token,   \* tokens in the wake-up channel
  tick,    \* ticks in the ticker's channel
  worker,  \* "select", "fetch", "handle" or "return" (an empty fetch)
  todo,    \* fetched rows not yet handled
  gap,     \* history: 1 if a row since the last empty fetch got no wake-up
  faults   \* bound: faults used

subscriber == <<conn, notes>>
pool == <<inUse, other>>
rows == <<ready, later, made>>
vars == <<rows, subscriber, pool, token, tick, worker, todo, gap, faults>>

TypeOK ==
  /\ ready \in Nat /\ later \in Nat /\ made \in Nat
  /\ conn \in {"down", "acquired", "listening"}
  /\ notes \in Nat
  /\ inUse \in 0..PoolSize /\ other \in 0..2
  /\ token \in 0..1 /\ tick \in 0..1
  /\ worker \in {"select", "fetch", "handle", "return"}
  /\ todo \in Nat
  /\ gap \in 0..1
  /\ faults \in Nat

Init ==
  /\ ready = 0 /\ later = 0 /\ made = 0
  /\ conn = "down" /\ notes = 0
  /\ inUse = 0 /\ other = 0
  /\ token = 0 /\ tick = 0
  /\ worker = "select" /\ todo = 0
  /\ gap = 0
  /\ faults = 0

Fault == faults < MaxFaults /\ faults' = faults + 1

-----------------------------------------------------------------------------
(* Postgres: NOTIFY reaches the sessions that LISTEN when it commits *)

\* Ingest or FanoutTask commits a row and its NOTIFY.
Commit ==
  /\ made < MaxRows
  /\ made' = made + 1 /\ ready' = ready + 1
  /\ IF conn = "listening"
     THEN notes' = notes + 1 /\ UNCHANGED gap
     ELSE gap' = 1 /\ UNCHANGED notes
  /\ UNCHANGED <<later, conn, pool, token, tick, worker, todo, faults>>

\* A next_retry_at passes; nothing notifies.
RetryDue ==
  /\ later > 0
  /\ later' = later - 1 /\ ready' = ready + 1 /\ gap' = 1
  /\ UNCHANGED <<made, subscriber, pool, token, tick, worker, todo, faults>>

-----------------------------------------------------------------------------
(* Subscribe and subscribeOnce *)

Acquire ==
  /\ conn = "down" /\ inUse < PoolSize
  /\ conn' = "acquired" /\ inUse' = inUse + 1
  /\ UNCHANGED <<rows, notes, other, token, tick, worker, todo, gap, faults>>

Listen ==
  /\ conn = "acquired" /\ conn' = "listening"
  /\ UNCHANGED <<rows, notes, pool, token, tick, worker, todo, gap, faults>>

\* WaitForNotification returns; a token is added unless one is pending.
ReceiveUnbuffered ==
  /\ conn = "listening" /\ notes > 0
  /\ notes' = notes - 1
  /\ token' = IF worker = "select" THEN 1 ELSE token
  /\ UNCHANGED <<rows, conn, pool, tick, worker, todo, gap, faults>>
ReceiveQueues ==
  /\ conn = "listening" /\ notes > 0
  /\ notes' = notes - 1 /\ token' = token + 1
  /\ UNCHANGED <<rows, conn, pool, tick, worker, todo, gap, faults>>
Receive ==
  /\ conn = "listening" /\ notes > 0
  /\ notes' = notes - 1 /\ token' = 1
  /\ UNCHANGED <<rows, conn, pool, tick, worker, todo, gap, faults>>

\* LISTEN or WaitForNotification returned an error: the deferred Release, the
\* notifications of the session are gone, and Subscribe sleeps and starts again.
\* (An Acquire that fails leaves Subscribe where it was.)
ConnectionLeaked ==
  /\ conn # "down" /\ Fault
  /\ conn' = "down" /\ notes' = 0
  /\ gap' = IF notes > 0 THEN 1 ELSE gap
  /\ UNCHANGED <<rows, pool, token, tick, worker, todo>>
ConnectionLost ==
  /\ conn # "down" /\ Fault
  /\ conn' = "down" /\ notes' = 0 /\ inUse' = inUse - 1
  /\ gap' = IF notes > 0 THEN 1 ELSE gap
  /\ UNCHANGED <<rows, other, token, tick, worker, todo>>

\* The other pair's subscriber and worker borrow a connection each.
OtherBorrows ==
  /\ other < 2 /\ inUse < PoolSize
  /\ other' = other + 1 /\ inUse' = inUse + 1
  /\ UNCHANGED <<rows, subscriber, token, tick, worker, todo, gap, faults>>
OtherReturns ==
  /\ other > 0
  /\ other' = other - 1 /\ inUse' = inUse - 1
  /\ UNCHANGED <<rows, subscriber, token, tick, worker, todo, gap, faults>>

-----------------------------------------------------------------------------
(* RunProcessor and RunDispatcher, drainTasks and drainPending *)

TickerFires ==
  /\ tick = 0 /\ tick' = 1
  /\ UNCHANGED <<rows, subscriber, pool, token, worker, todo, gap, faults>>

\* The select takes the token or the tick.
WakeOnToken ==
  /\ worker = "select" /\ token = 1
  /\ token' = 0 /\ worker' = "fetch"
  /\ UNCHANGED <<rows, subscriber, pool, tick, todo, gap, faults>>
WakeOnTickIgnored ==
  /\ worker = "select" /\ tick = 1
  /\ tick' = 0
  /\ UNCHANGED <<rows, subscriber, pool, token, worker, todo, gap, faults>>
WakeOnTick ==
  /\ worker = "select" /\ tick = 1
  /\ tick' = 0 /\ worker' = "fetch"
  /\ UNCHANGED <<rows, subscriber, pool, token, todo, gap, faults>>

\* A statement waits for a connection of the pool.
Borrow == inUse < PoolSize

\* A fetch of up to batchSize rows; they stay in the table until handled.
FetchSome ==
  /\ worker = "fetch" /\ Borrow /\ ready > 0
  /\ todo' = IF ready < BatchSize THEN ready ELSE BatchSize
  /\ worker' = "handle"
  /\ UNCHANGED <<rows, subscriber, pool, token, tick, gap, faults>>

FetchNone ==
  /\ worker = "fetch" /\ Borrow /\ ready = 0
  /\ worker' = "return" /\ gap' = 0
  /\ UNCHANGED <<rows, subscriber, pool, token, tick, todo, faults>>

\* The drain returns with an error and leaves what is there to the next wake-up.
FetchError ==
  /\ worker = "fetch" /\ Borrow /\ Fault
  /\ worker' = "return" /\ gap' = 1
  /\ UNCHANGED <<rows, subscriber, pool, token, tick, todo>>

Handled == todo' = todo - 1 /\ worker' = IF todo = 1 THEN "fetch" ELSE "handle"

\* FanoutTask committed, or the event was dispatched or is dead.
HandleRow ==
  /\ worker = "handle" /\ Borrow /\ Handled
  /\ ready' = ready - 1
  /\ UNCHANGED <<later, made, subscriber, pool, token, tick, gap, faults>>

\* recordFailure gave the event a next_retry_at.
HandleDeferred ==
  /\ worker = "handle" /\ Borrow /\ Handled /\ Fault
  /\ ready' = ready - 1 /\ later' = later + 1
  /\ UNCHANGED <<made, subscriber, pool, token, tick, gap>>

\* FanoutTask, AgentEndpoint or a Mark failed: logged, the row stays as it is.
HandleError ==
  /\ worker = "handle" /\ Borrow /\ Handled /\ Fault
  /\ UNCHANGED <<rows, subscriber, pool, token, tick, gap>>

\* The drain has returned; between the fetch and the select a row may come.
BackToSelect ==
  /\ worker = "return" /\ worker' = "select"
  /\ UNCHANGED <<rows, subscriber, pool, token, tick, todo, gap, faults>>

-----------------------------------------------------------------------------
WorkerStep ==
  WakeOnToken \/ WakeOnTick \/ FetchSome \/ FetchNone \/ HandleRow \/ BackToSelect

SubscriberStep == Acquire \/ Listen \/ Receive

Next ==
  \/ WorkerStep \/ SubscriberStep
  \/ Commit \/ RetryDue \/ TickerFires
  \/ OtherBorrows \/ OtherReturns
  \/ ConnectionLost \/ FetchError \/ HandleDeferred \/ HandleError

Spec == Init /\ [][Next]_vars

\* The goroutine runs, its ticker fires and retry deadlines pass; nothing is
\* assumed of the LISTEN connection, nor of the other pair, which may keep its
\* connections for ever.
FairSpec ==
  Spec /\ WF_vars(WorkerStep) /\ WF_vars(TickerFires) /\ WF_vars(RetryDue)

-----------------------------------------------------------------------------
(* Properties *)

\* While the connection holds, a dropped token loses nothing: a worker that
\* found the table empty and waits for work has a notification or a token on
\* its way for whatever was committed since, the ticker set aside.
NoLostWakeup ==
  worker \in {"return", "select"} /\ ready > 0 /\ gap = 0 => notes > 0 \/ token = 1

\* A worker that wants a connection of the pool finds one, however often the
\* subscribers lost theirs: no step of a drain ever waits for the pool.
WorkerFindsConnection == worker \in {"fetch", "handle"} => Borrow

\* Every row is eventually handled through the ticker alone, although the
\* subscriber may never connect, and also the retries nobody notifies.
EventuallyDrained == ready + later > 0 ~> ready + later = 0
=============================================================================
