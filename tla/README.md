# A TLA+ model of the secret control panel

The panel watches Vault's audit stream and makes the External Secrets
Operator (ESO) of every subscribed Kubernetes cluster refresh a secret soon
after it changed in Vault. This directory holds TLA+ modules of its core, TLC
configurations that check them on small instances, and TLAPS proofs of what
matters most for every value of the constants.

## 1. Inventory

```
 Vault audit socket      tasks, versions          events, agents
  ----------> scp-listener ----------> scp-daemon ------------> scp-agent (one per cluster)
              (parse, Ingest)  NOTIFY  (fan out,     POST        (patch ExternalSecrets,
                                        dispatch)                 watch refreshTime)
                                            ^                         |
                                            |  events.synced, agents  |
                                            +------- scp-api <--------+  register, callback
```

The processes share one PostgreSQL database and nothing else; the daemon and
the agents talk HTTP.

| Component | State | Operations | Interacts through |
|---|---|---|---|
| audit socket listener, parser (`internal/scp/audit`) | open connections | parse a line, push an event | channel of 16 events |
| pump (`cmd/scp-listener`), `listener.Store.Ingest` | `versions`, `tasks` | dedup by KV version, queue a task, NOTIFY `tasks_new` | Postgres |
| processor (`daemon/processor.go`) | batch of tasks, policy | fan a task out into `events`, delete it, NOTIFY `events_new` | Postgres |
| dispatcher (`daemon/dispatcher.go`) | batch of events, one open POST | look the agent up, POST, mark dispatched, failed or dead | Postgres, HTTP |
| subscribers (`daemon/listen.go`) | LISTEN connection | turn notifications into a wake-up | channels of capacity 1 |
| policy store (`policy`), `vaultpath` | rules read at start | `Load`, `Resolve` | call |
| scp-api (`api`) | `agents`, `events.synced` | register an agent, apply a callback, check a token | HTTP, Postgres |
| agent handler, patcher (`agent/server`, `agent/patcher`) | one per request | list, patch each match, answer 202 or 500 | HTTP, Kubernetes |
| sync watcher (`agent/syncer`) | one goroutine per event | poll `refreshTime`, send one callback | Kubernetes, HTTP |
| agent process (`cmd/scp-agent`) | listener, shutdown goroutine | register, serve, shut down | HTTP |

Hard behaviour, and what has to hold of it:

* **Audit stream.** One goroutine per connection, one bounded channel, one
  consumer that may be slow or fail, and a signal at any moment. Changes should
  arrive once and in the order of their connection, and the process should end
  although everybody may be waiting for everybody.
* **Ingest.** Several listener processes may run; each audit line can arrive
  more than once. Concurrent transactions on one path should serialize, a
  request should be queued once, and a watermark without a task would lose a
  change for good.
* **Policies.** Rules that overlap or are spelled differently, an unstable sort
  and a reload that fails half way must not change which rule decides.
* **Fan-out.** Any statement can fail and a restart may read another
  `policies.yaml`. A task must not vanish without its rows, and rows must not be
  reset when a request comes a second time.
* **Dispatch.** There is a window between the SELECT that fills the batch, the
  POST and the UPDATE. The batch has to stay valid in it, `attempts` has to be
  right although it is computed from the snapshot, no event may be marked
  dispatched that no agent saw, redelivery has to be bounded, an outage of some
  length has to be survived, and everything has to be settled in the end.
* **Wake-ups.** Notifications are dropped when one is pending, when the
  connection is down, and never sent for retries. No row may be forgotten, and
  two subscribers and two workers have to get by with one connection pool.
* **Agent.** ExternalSecrets come, go and refresh while the handler and the
  Watch look at them. A 202 and a `synced=true` should mean something, every
  Watch should end, and a shutdown should let it.
* **Registration.** An agent registers once per start and gives up after six
  tries. Its requests may be overtaken by their own successors, and scp-api
  handles what it was sent although the client may have given up.

`PROJECT.json` lists each hazard at its line with the property that covers it,
or with the reason why none does.

## 2. Modules

| Module | What it is | Code |
|---|---|---|
| `Pipe` | abstract: changes of each connection arrive once, in order, but for failed ingests | – |
| `AuditStream` | Run, handleConn, the line filter, the channel, pump, start and shutdown | `internal/scp/audit`, `cmd/scp-listener` |
| `AuditStreamProofs` | proofs about `AuditStream`, and that it implements `Pipe` | |
| `Inbox` | abstract: Ingest as one indivisible operation | – |
| `Ingest` | the transaction of `Store.Ingest`, statement by statement | `internal/scp/listener`, `cmd/scp-listener` |
| `IngestProofs` | proofs about `Ingest`, and that it implements `Inbox` on guarded paths | |
| `Delivery` | abstract: a request is owed at once to the clusters of the policy in force, each event is settled once | – |
| `Daemon` | processor, dispatcher, the tables, what reaches them from listener, agents and api | `internal/scp/daemon`, `internal/scp/api`, `cmd/scp-daemon` |
| `DaemonProofs` | proofs about `Daemon`, and that it implements `Delivery` | |
| `Wakeup` | Subscribe, the capacity-one channel, ticker, drain loop, connection pool | `internal/scp/daemon/listen.go` and the loops of both workers |
| `WakeupProofs` | proofs about `Wakeup` | |
| `VaultPath` | `Normalize` and `Join` on sequences of characters | `internal/shared/vaultpath` |
| `PolicyStore` | `Load` rule by rule, `parseWildcard`, `Resolve` | `internal/scp/policy` |
| `PolicyStoreProofs` | proofs about `PolicyStore` | |
| `Agent` | handler, patcher, Watch, process shutdown | `internal/agent`, `cmd/scp-agent` |
| `AgentProofs` | proofs about `Agent` | |
| `Registration` | `registerWithPanel`, authorize, `UpsertAgent`, restarts of both sides | `cmd/scp-agent`, `internal/scp/api`, `cmd/scp-api` |
| `RegistrationProofs` | proofs about `Registration` | |
| `LeastNumber` | least elements of sets of natural numbers, and induction over them, for the proofs | |
| `MC*` | values for TLC | |

The modules meet where the processes do. What `AuditStream` calls `IngestOk` is
a whole transaction of `Ingest`; what `Ingest` commits is what `Daemon`'s
`Ingest` action queues; a `Commit` of `Wakeup` is such a commit, or one of
`FanoutTask`; `Daemon`'s `Policies` are the values `PolicyStore`'s `Resolve` can
have; its `Register` is `Registration`'s `UpsertAgent`; its `AgentAccepts` is
`Agent`'s `PatchReturns` with a 202, and its `ApplyCallback` is what `Agent`
sends.

Definitions carry the names of the code where they can. `PROJECT.json` `map`
gives the lines each one stands for.

### Daemon

One SQL statement or transaction is one step, so anything may happen between
two of them. An `events` row is known by its unique key `<<request_id,
cluster>>`; `status`, `attempts` and `synced` are its columns, and `wait` is
`next_retry_at` as the seconds still to go (one clock for daemon and database).
`batch` maps the fetched rows to the `attempts` they were fetched with, because
`recordFailure` computes from that copy. `ppc` and `dpc` are the places of the
two goroutines: `drain` in the loop, `posting` with an open POST, `markOk` and
`markFail` before the UPDATE. Rows of one fan-out get one `eventId`; the order
among them is any.

A POST can be answered (`AgentAccepts`, `PostOk`), refused, time out or lose
its answer (`PostError`, before or after the agent accepted), and the agent can
complete one that the dispatcher has given up (`AgentAcceptsLate`). Every
statement can fail (`FanoutError`, `FetchTasksError`, `FetchPendingError`,
`AgentEndpointError`, `MarkError`) and `Restart` may come anywhere; it takes the
memory, keeps the tables and reads any policies file. An UPDATE or commit
whose answer is lost has the effect of the success step, because the code goes
on to the next row in either case.

`Ingest`, `Register` and `ApplyCallback` are the other processes as the daemon
sees them. `Ingest` may queue a request again when its task is gone: `Ingest`
in the module of that name shows how two listeners can do so on a new path.
`synced` is written by the last callback. `age`, `posts`, `queued` (every tasks
row ever), `fanned` (which of them was fanned out under which policy) and
`nextEvent` are history the properties read (`nextEvent` also stands for the
serial counter).

### AuditStream

A connection carries a fixed history of requests, each with two lines; a request
is a record of the fields `parseLine` tests (`Change`), with `under` for the part
of the KV API its path is in and `long` for a line above `maxSocketLine`. `Conns`
are connections rather than nodes: when one breaks, its node opens another
member. A handler is in `scan`, in the `select` of `send`, or has returned.
`RunReturns` is the end of `wg.Wait`, `PumpReturns` and `MainReturns` what
follows a signal. `Failure` is a fault before the signal and free after it,
because cancelling ctx closes the connections and fails the statements. Until
then Ingest may fail and the event is forgotten, as the code has it.

`BacklogBounded` is about what was scanned and not handled, and so about what a
slow database can hold up. It is no bound on what a shutdown throws away: after
the signal pump's `select` may go on receiving, each of these Ingests fails on
the cancelled context (`IngestFails`), and lines already in the buffer of a
`bufio.Scanner` are not modelled at all. The code gives no such bound; it leaves
gaps to Vault's second audit device.

### Ingest

The rules of PostgreSQL at READ COMMITTED that matter: `SELECT ... FOR UPDATE`
locks the row it finds, waiting for its holder; it neither sees nor waits for a
row another transaction inserted and has not committed; an INSERT does wait for
that one because of the unique key. `versionLock` and `taskLock` are the
holders, `versions` and `tasks` what is committed, and a commit publishes both
writes at once. `Rollback` is any failed statement or a killed listener;
`TakeTask` is the daemon's DELETE. `Version` is what `parseLine` finds (0
without a response) and `Order` is Vault's own order, which the code does not
see. A request_id is taken to belong to one path.

### Wakeup

Rows are counted: `ready` (what a fetch would return), `later` (waiting for
`next_retry_at`). The module stands for both `tasks_new` with `RunProcessor`
and `events_new` with `RunDispatcher`; `later` stays 0 for the former. `gap`
records that a row came while nobody listened, a notification was lost with its
connection, a retry became due, or a fetch failed: what the code leaves to the
ticker.

`inUse` counts the connections of the pool that are kept: by this subscriber, and
by the other pair's subscriber and worker (`other`), which may keep theirs for
ever. `Borrow` is the guard of every statement.

### PolicyStore

Characters matter only as `/`, `*` and others. `Load` takes the file rule by
rule into local indexes (`AddExact`, `AddWildcard`), may meet a bad rule at any
point (`Reject`), and ends in `Swap`, which sorts and publishes; the sort is any
permutation that is longest first, since `sort.Slice` is not stable. The daemon
loads once, but the store promises to be usable concurrently, so `Resolve` is an
operator on the published state and is asked in every state. `Size` and
`List`, with `Split`, feed log lines only and are left out.

### Registration

`gen` counts the starts of one cluster's agent, each with an endpoint of its own;
the next one starts after the one before it has ended. A request is on its way
(`sent`), past `authorize` (`authorized`), or answered, and stays in scp-api when
its client is gone (`abandoned`) until its context ends it or it is done. Time
counts down in `timer`; the panel may stop and start, the token be revoked,
requests get lost and statements fail.

### Agent

Each List, Patch, poll and callback is a step; ESO reconciles (`Reconcile`) and
users create and delete ExternalSecrets between any two. `Secrets` are the
ExternalSecrets whose annotation names the path. Time is in ticks of which
`Res` make a second, because `refreshTime` has whole seconds and `patchedAt`
does not. A poll that finds them not all refreshed, or fails, changes nothing
and is a stutter. A delivery is one POST; two of them are a redelivery.
`Signal`, `ShutdownReturns`, `WaitReturns` and `MainReturns` are the shutdown
goroutine and main.

## 3. Runs

All bounds are constants named in the modules (`MaxTaskId`, `MaxLines`,
`MaxRows`, `MaxTime`, `MaxGen`, `MaxFaults`). Each run but `policy` has at least
one fault; the interesting cases need one (a lost mark, a rollback, a lost
connection, a failed patch), and each property is broken by a plausible bug under
the very same bounds (`mutants` in `PROJECT.json`), so none holds because its
case is out of reach.

| Run | Instance | Checks | Result |
|---|---|---|---|
| `stream` | 2 connections with 5 requests each, channel of 2, 2 faults, a signal, fair goroutines | `TypeOK`, `NoneDropped`, `NobodyLeft`, `BacklogBounded`, `KeepsOrder`, `ShutdownEnds`, `ChangesArrive` | hold |
| `ingest` | 2 listeners, a path with a watermark and a new one, 2 writes each, 5 audit lines, fair statements | `TypeOK`, `QueuedOnce`, `WatermarkHasTask`, `DroppedIsStale`, `NoCircle`, `Serializes`, `IngestEnds` | hold |
| `ingest_race` | 2 listeners, new paths | `AlwaysSerializes` | **violated** |
| `ingest_delete` | 1 listener, a delete after two writes | `DroppedIsStale` | **violated** |
| `daemon_rows` | 1 request queued twice, 2 clusters that policies files add and remove, batches of 2, cap 2 | `TypeOK`, `DispatchedImpliesAccepted`, `BatchFresh`, `AttemptsWithinCap`, `CallbackFindsRow`, `RedeliveryBound`, `FanoutComplete`, `ImplementsDelivery` | hold |
| `daemon_settles` | 1 row queued twice, the 5 attempts and 300 s of the code, 2 faults, fair workers | `OutageTolerated`, `EventuallySettled` | hold |
| `wakeup` | 4 rows, batches of 2, pool of 4, 3 faults, fair worker and ticker | `TypeOK`, `NoLostWakeup`, `WorkerFindsConnection`, `EventuallyDrained` | hold |
| `policy` | 2 loads of up to 3 of 44 rules (11 spellings, 4 lists), 5 lookups | `TypeOK`, `FileDecides` | hold |
| `agent` | 1 delivery, 2 ExternalSecrets, fair goroutines | `TypeOK`, `SyncedIsRecent`, `AcceptedMeansPatched`, `EveryWatchEnds` | hold |
| `agent_same_second` | 1 delivery, 1 ExternalSecret | `SyncedAfterPatch` | **violated** |
| `agent_exit` | 1 delivery, a signal | `ExitWaitsForWatches` | **violated** |
| `registration` | 2 generations, the 6 attempts and the times of the code in units of 5 s, 2 faults, fair loop and handlers | `TypeOK`, `RowIsCurrent`, `GivesUpLate`, `GivesUpInTime`, `RegistrationEnds` | hold |

Deadlock is not checked where the bounds let the system run dry (the audit
lines, loads, generations, faults or clock ticks are used up, or the process has
ended); `Wakeup` always has a ticker, so its run checks it.

What the violations show:

* `ingest_race`: two listeners that see a path for the first time both find no
  row to lock. The commit that comes second wins, even with the lower version,
  so the watermark can go back and both are queued. With a row in place (a path
  of `Known` in `ingest`), or with one listener, it cannot happen: the theorems
  `GuardedIngestsSerialize` and, of the violated property itself,
  `SerializesIfGuarded`.
* `ingest_delete`: a delete has no version in its audit line, compares as 0 and
  is dropped as an old version on every path that was written before.
* `agent_same_second`: a reconcile from before the event arrived, in the same
  second, is reported as the confirmation. `SyncedIsRecent` states what is
  certain: at most a second too early. The truncation is the only cause: with
  one resolution for both times the property is a theorem (`WholeSecondsConfirm`).
* `agent_exit`: `ListenAndServe` returns as soon as `Shutdown` has closed the
  listener, so main does not wait for the goroutine that waits for the Watches.

### Why the bounds are enough

Rows of different (request, cluster) pairs meet only in the dispatcher's batch
and its order and in the policy, and two of them meet in every way; a batch of
two is full with both and not full with one. The cap of 2 has a retry, and the
exact arithmetic of the code's five attempts has a run of its own. Two listeners
and two writes are the least that race, and the second path shows that a race
there does not disturb the first. Two connections, a channel of two and three
changes on one of them fill the channel with events of both while a handler
waits; the skipped lines stand before, between and after changes, and a line
that is too long stands before a change. Three rules are a nested pair and a
rival; the spellings include stray slashes, two spellings of one path and of one
wildcard, a bare star, two stars and a star
right behind a name. Two generations are the least in which an older registration
can overtake a newer one. `Wakeup` has more rows than a batch and more faults
than one reconnect needs. One delivery over two ExternalSecrets has a
partial failure and a set that changes under the Watch; deliveries share nothing
but the cluster, and the proofs cover any number of them. The agent's clock runs past the poll timeout of the
run, and every relation between second boundaries occurs in it; a deadline past
the bound counts as reached there (`Expired`).

### Fairness

Liveness assumes only what the code's scheduling gives. The goroutines of the
daemon wait in a `select` with a ticker and their POST has a 5 s timeout, so
their next step always comes (`WF` of `ProcessorStep` and `DispatcherStep`,
and of the worker and its ticker in `Wakeup`). Time passes (`Tick`,
`RetryDue`). Statements that are not waiting for a lock run (`Statement`). The
socket listener's, pump's and agent's goroutines run, a read on a connection that
was closed because ctx is done returns, and contexts expire; lines that Vault
has written arrive. The loop of `registerWithPanel` and the handlers of scp-api
run. Nothing is assumed of agents answering, of Kubernetes, ESO, the LISTEN
connection, the panel coming back or the callers, and the number of faults is
finite, as it must be for anything to settle.

## 4. Proofs

`tlapm` checks these for every value of the constants that satisfies the named
assumptions of the modules (`DaemonAssumption`, `IngestAssumption` and so on:
types of the constants, and at least one policies file, attempt, row per batch,
place in the channel, and four connections in the pool). `ShiftAssumption` states of the thirty powers of two that `backoff`
can shift to that the first is 2 and each the double of the one before; TLC
evaluates it, and the provers know nothing of exponentiation. None of the bounds of the runs is needed: they are arbitrary
natural numbers.

* `DaemonProofs`. The inductive invariant is the conjunction of the checked
  invariants with three links: `InFlight` (the row being handled is in the
  batch and only it has an open POST), `Evidence` (an answer or `markOk` means
  the agent accepted; a POST or acceptance means there is a row) and
  `InboxHolds` (a fetched task is still in the inbox, and no task has the id that
  stands for none). `FanoutComplete` is inductive with these: a task goes in the
  step that puts its rows in, and no row goes. `BatchFresh` is the heart of it: no step of anybody else changes
  `status` or `attempts` of a fetched row, or makes a due one undue, and this
  is why computing `attempts` from the snapshot is right. From it follow
  `AttemptsCapped`, `RedeliveryIsBounded` and the rest, and
  `DaemonImplementsDelivery` maps each step to `Tell` (a committed Ingest), `Owe`
  (a fan-out under the daemon's policy), `Change` (a restart), `See`, `Fail`,
  `Deliver` or a stutter: which clusters are owed, and that the task goes in that
  very step, is part of the promise. `SettledOnce` reads off that refinement what the tables owe their
  readers: no step reopens a settled row or takes an attempt back.
  `OutagesAreTolerated` is about time. `Paced` says that a failed row has been
  failing for at least the waits between its attempts (`RetryTime`), less the part
  of the last wait that is still to come; time alone makes that part smaller, and
  a row is tried only when nothing of it is left. `RetryTime` is a recursive sum
  of backoffs, so its value at the next attempt has to be derived first: partial
  sums exist for every length (`SumsExist`, by induction) and agree
  (`SumsAgree`), hence `RetryTimeDef`. `HalfAMinute` computes it for the limits of
  the code: thirty seconds.
* `LeastNumber` derives the least element of a set of natural numbers, and from it
  induction in a first-order form (a set with 0 that is closed under successor),
  from the well-foundedness of `<`; the library's induction theorems take an
  operator, which the provers cannot instantiate.
* `IngestProofs`. A path is *guarded* if it has a watermark from the start, or if
  there is one listener (`Guarded`); the invariants and the refinement are
  about guarded paths, whatever happens on the others at the same time. A
  listener holds the row of such a path from the SELECT to the end
  (`HoldsLock`), or is alone; so what the watermark test found is still true at
  the commit. Hence `QueuedAtMostOnce` and `GuardedIngestsSerialize`, the
  refinement of `Inbox`. For all paths the latter is false (`ingest_race`).
  `WatermarksHaveTasks` needs no guard, only where a version came from
  (`Provenance`). `DropsAreStale` assumes `VersionsFollowOrder`: versions grow in
  the order of Vault, that is, no deletes; with one it is false
  (`ingest_delete`). `TransactionsGoOn` (no deadlock) rests on the order of the
  locks (`LocksHeld`): whoever has the lock of a task only has its commit left,
  whoever has the lock of a row waits at most for such a one. `WatermarkGrows` and
  `SerializesIfGuarded` follow from the refinement; the latter is the property
  that `ingest_race` violates, under the hypothesis that every path is guarded.
* `WakeupProofs`. `NoLostWakeup` is inductive together with the types, the fact
  that a batch never holds more rows than the table, and the account of the pool
  (`Lent`: what is in use is this subscriber's connection and the other
  pair's). From the last one follows `PoolSuffices` for a pool of at least four,
  the least that pgx chooses when the DSN is silent (`WakeupAssumption`).
* `PolicyStoreProofs`. The published index is tied to the last accepted file, and
  the local one to the rules taken so far: every entry comes from a rule, every
  rule has its entry, no two entries have one key, and the list is longest
  first. Two prefixes of one length that a path starts with are equal, so the
  first hit is the one most specific rule and the order the sort leaves among
  equals does not matter. `NormalizeTrims` is the full meaning of `Normalize` for
  paths of any length (what is missing is slashes, and no slash is left at an
  end); from it, that keys are in normal form and `SlashesDoNotMatter`.
* `AuditStreamProofs`. The events of a connection are at any moment a sequence cut
  into what is handled, what pump holds, what is in the channel in that order,
  what its handler holds, and what was not scanned yet. `StreamImplementsPipe`,
  `NoGaps` and `NothingDropped` read off this cut, and so does `BacklogIsBounded`:
  what is scanned and not handled is in the channel or pump's hands, but for the
  last line of a connection, and a sequence has no more elements than places.
  `ShutdownJoinsHandlers` needs only that no handler runs after `wg.Wait`.
* `RegistrationProofs`. Each attempt has at most one request (`Single`), one that
  is not awaited belongs to a generation that left it behind, and an upsert
  that is behind another was such a request, so `RegistrationIsCurrent` names the
  generation in the row itself as the one that left a request behind. The
  overtaking is possible, and nothing in the code prevents it. `Patience` counts the waits a
  generation has been through, from which `TriesArePatient` follows; `Spent` adds up
  what its tries may have cost, with what the running timer may still add, from
  which `RegistrationIsBounded` follows.
* `AgentProofs`. `PatchAccounts` follows Patch through its list,
  `TrueIsRecent` attaches to a result what it was measured against, `Recorded`
  links the panel's column to a result. `WholeSecondsConfirm` is the property that
  `agent_same_second` violates, under the hypothesis `Res = 1`.

Only model-checked: the liveness properties, which are beyond the prover
(`EventuallySettled`, `IngestEnds`, `EventuallyDrained`, `EveryWatchEnds`,
`ShutdownEnds`, `ChangesArrive`, `RegistrationEnds`), and `ExitWaitsForWatches`,
which is false. Every other property of the runs is the statement of a theorem;
the other three that a run violates (`AlwaysSerializes`, `DroppedIsStale`,
`SyncedAfterPatch`) under the hypothesis named above that excludes the case.
What safety can say of the liveness ones is proved: `TransactionsGoOn` for
`IngestEnds` (somebody can always go on), `NoLostWakeup` for
`EventuallyDrained`, `NobodyLeft` for `ShutdownEnds`, `NoneDropped` and `NoGaps`
for `ChangesArrive`, `RegistrationIsBounded` for `RegistrationEnds`,
`AttemptsCapped`, `FanoutIsComplete` and `SettledOnce` for `EventuallySettled`.

## 5. Not modelled, and why

* JSON and YAML syntax, body limits, the bearer token of the agent's own
  handler, the health probe: a request, line or file that fails them has no
  effect on the state here.
* `SelectorMatches`: a test on one annotation string; `Agent` takes the
  ExternalSecrets that match as a parameter.
* The KV version that `kv metadata delete` starts anew, and KV v1 secrets below
  `data/`: their audit lines cannot be told apart by what the model keeps.
* A second daemon, two pods of one cluster's agent at a time, two clocks.
* The order in which scp-daemon joins its goroutines: the state that matters is
  in the tables, and `Restart` may come anywhere.
* Logging, connection set-up, schema creation, and the demonstration
  deployment with its mock agent.

## 6. Plan

All components with behaviour have their module. What remains worth adding, in
this order:

1. `Panel`: `Daemon` and `Agent` composed over several versions of a path, so
   that overlapping Watches and late callbacks meet (`synced` overwritten), and
   the promise that a delivered event was patched after the change in Vault.
2. A second dispatcher process in `Daemon` for rolling restarts.
3. A second process of the agent in `Registration`, as in a rolling update.
4. Theorems about the consequences of `Inbox` and `Daemon` together: a change that
   was queued has its rows or its task.

## 7. Running

```
tlc -workers 2 -config daemon_rows.cfg MCDaemon.tla
tlapm DaemonProofs.tla
```
