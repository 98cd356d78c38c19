------------------------------- MODULE Daemon -------------------------------
(***************************************************************************)
(* scp-daemon and the tables it shares with scp-listener and scp-api.      *)
(*                                                                         *)
(* The processor goroutine turns rows of the tasks table into one events   *)
(* row per subscribed cluster; the dispatcher goroutine POSTs due events   *)
(* rows to the cluster's agent and records the outcome.  Each SQL          *)
(* statement or transaction is one step, so every other actor can run      *)
(* between the SELECT that fills a batch, the POST, and the UPDATE that    *)
(* records it.  The daemon can be killed between any two steps, any        *)
(* statement can fail, a POST can be lost, answered too late or handled    *)
(* after the dispatcher gave up on it.                                     *)
(*                                                                         *)
(* An events row is identified by its UNIQUE key <<request_id, cluster>>.  *)
(* next_retry_at is kept as the seconds still to go until it passes.       *)
(***************************************************************************)
EXTENDS Naturals, FiniteSets

CONSTANTS
  Requests,     \* request_ids of ingested Vault operations
  Clusters,     \* cluster names
  Policies,     \* what Resolve returns under each policies.yaml a start may read
  MaxAttempts,  \* maxAttempts (5 in the code)
  MaxBackoff,   \* maxBackoff in seconds (300 in the code)
  BatchSize,    \* batchSize (100 in the code)
  MaxTaskId,    \* bound: tasks rows ever inserted
  MaxFaults     \* bound: failed statements and daemon crashes

ASSUME DaemonAssumption ==
  /\ Policies \subseteq [Requests -> SUBSET Clusters]
  /\ Policies # {}
  /\ MaxAttempts \in Nat \ {0}
  /\ MaxBackoff \in Nat
  /\ BatchSize \in Nat \ {0}
  /\ MaxTaskId \in Nat
  /\ MaxFaults \in Nat

\* The shift in backoff never sees more than 30; a finite fact TLC evaluates
\* and the proofs cite, since the provers know nothing of exponentiation.
ASSUME ShiftAssumption == 2^1 = 2 /\ \A a \in 1..29 : 2^(a + 1) = 2 * 2^a

Rows  == Requests \X Clusters
NoRow == <<>>

VARIABLES
  taskId,     \* tasks: id of the request's row, 0 when there is none
  nextTask,   \* tasks: the BIGSERIAL counter
  queued,     \* history: every tasks row ever inserted
  fanned,     \* history: the tasks fanned out, each with the policy it was under
  status,     \* events: status, "none" when there is no row
  attempts,   \* events: attempts
  wait,       \* events: seconds until next_retry_at has passed
  age,        \* history: seconds the row has waited in status failed
  eventId,    \* events: fanout transaction that inserted the row
  nextEvent,  \* events: number of fanout transactions that inserted rows
  synced,     \* events: result of the last callback, "null" before any
  registered, \* agents: clusters with a row
  policy,     \* daemon: resolver built from policies.yaml at start-up
  ppc,        \* processor: "idle" in its select, "drain" in drainTasks
  taskBatch,  \* processor: fetched tasks not yet handled
  dpc,        \* dispatcher: control state
  batch,      \* dispatcher: fetched rows not yet handled |-> fetched attempts
  cur,        \* dispatcher: the row dispatchOne is working on
  reply,      \* dispatcher: the agent's 2xx answer to the open POST is ready
  posts,      \* history: POSTs sent per row
  accepted,   \* agents: the event reached handleEvents and was patched
  faults      \* bound: faults used so far

tasksVars  == <<taskId, nextTask, queued, fanned>>
eventsVars == <<status, attempts, wait, age, eventId, nextEvent>>
procVars   == <<ppc, taskBatch>>
dispVars   == <<dpc, batch, cur, reply>>
agentVars  == <<posts, accepted>>

vars == <<tasksVars, eventsVars, synced, registered, policy,
          procVars, dispVars, agentVars, faults>>

EventStatus == {"none", "pending", "failed", "dispatched", "dead"}

TypeOK ==
  /\ taskId \in [Requests -> Nat]
  /\ nextTask \in Nat
  /\ queued \subseteq [request : Requests, task : Nat]
  /\ fanned \subseteq [request : Requests, task : Nat, policy : Policies]
  /\ status \in [Rows -> EventStatus]
  /\ attempts \in [Rows -> Nat]
  /\ wait \in [Rows -> Nat]
  /\ age \in [Rows -> Nat]
  /\ eventId \in [Rows -> Nat]
  /\ nextEvent \in Nat
  /\ synced \in [Rows -> {"null", "true", "false"}]
  /\ registered \subseteq Clusters
  /\ policy \in Policies
  /\ ppc \in {"idle", "drain"}
  /\ taskBatch \subseteq Requests
  /\ dpc \in {"idle", "drain", "posting", "markOk", "markFail"}
  /\ DOMAIN batch \subseteq Rows
  /\ batch \in [DOMAIN batch -> Nat]
  /\ cur \in Rows \cup {NoRow}
  /\ reply \in BOOLEAN
  /\ posts \in [Rows -> Nat]
  /\ accepted \in [Rows -> BOOLEAN]
  /\ faults \in Nat

Init ==
  /\ taskId = [r \in Requests |-> 0] /\ nextTask = 1
  /\ queued = {} /\ fanned = {}
  /\ status = [k \in Rows |-> "none"]
  /\ attempts = [k \in Rows |-> 0]
  /\ wait = [k \in Rows |-> 0]
  /\ age = [k \in Rows |-> 0]
  /\ eventId = [k \in Rows |-> 0]
  /\ nextEvent = 0
  /\ synced = [k \in Rows |-> "null"]
  /\ registered = {}
  /\ policy \in Policies
  /\ ppc = "idle" /\ taskBatch = {}
  /\ dpc = "idle" /\ batch = [k \in {} |-> 0] /\ cur = NoRow /\ reply = FALSE
  /\ posts = [k \in Rows |-> 0]
  /\ accepted = [k \in Rows |-> FALSE]
  /\ faults = 0

-----------------------------------------------------------------------------
(* Helpers of the two workers *)

\* The rows ORDER BY id LIMIT batchSize selects from S.
OldestOf(S, id) ==
  {B \in SUBSET S :
     /\ Cardinality(B) <= BatchSize
     /\ B # S => Cardinality(B) = BatchSize
     /\ \A b \in B, s \in S \ B : id[b] <= id[s]}

\* The next row of a batch in the order it was fetched.
IsFirst(x, S, id) == x \in S /\ \A s \in S : id[x] <= id[s]

\* FetchPending's WHERE clause.
DueOnlyPending(k) == status[k] = "pending"
DueIgnoresDeadline(k) == status[k] \in {"pending", "failed"}
Due(k) == status[k] = "pending" \/ (status[k] = "failed" /\ wait[k] = 0)

\* backoff: min(2^attempts, maxBackoff) seconds, the exponent kept in 1..30.
Backoff(n) ==
  LET a == IF n < 1 THEN 1 ELSE n
  IN  IF a > 30 THEN MaxBackoff
      ELSE IF 2^a > MaxBackoff THEN MaxBackoff ELSE 2^a

\* An error returned by a statement, or a crash: one of a bounded number.
Fault == faults < MaxFaults /\ faults' = faults + 1

-----------------------------------------------------------------------------
(* scp-listener, as the daemon sees it: a committed Ingest leaves a task.  *)
(* The same request may be queued again once its row is gone.              *)
Ingest(r) ==
  /\ taskId[r] = 0 /\ nextTask <= MaxTaskId
  /\ taskId' = [taskId EXCEPT ![r] = nextTask]
  /\ nextTask' = nextTask + 1
  /\ queued' = queued \cup {[request |-> r, task |-> nextTask]}
  /\ UNCHANGED <<fanned, eventsVars, synced, registered, policy,
                 procVars, dispVars, agentVars, faults>>

-----------------------------------------------------------------------------
(* Processor: RunProcessor, drainTasks, FetchTasks, FanoutTask *)

\* The select returns: a tasks_new wake-up or the ticker.
ProcessorWake ==
  /\ ppc = "idle"
  /\ ppc' = "drain"
  /\ UNCHANGED <<tasksVars, eventsVars, synced, registered, policy,
                 taskBatch, dispVars, agentVars, faults>>

\* FetchTasks; an empty result ends drainTasks.
FetchTasks ==
  LET Inbox == {r \in Requests : taskId[r] # 0}
  IN  /\ ppc = "drain" /\ taskBatch = {}
      /\ taskBatch' \in OldestOf(Inbox, taskId)
      /\ ppc' = IF Inbox = {} THEN "idle" ELSE "drain"
      /\ UNCHANGED <<tasksVars, eventsVars, synced, registered, policy,
                     dispVars, agentVars, faults>>

\* The rows one fanout inserts: ON CONFLICT DO NOTHING skips existing ones.
NewRowsUpsert(r) == {r} \X policy[r]
NewRowsOnce(r) ==
  {k \in {r} \X policy[r] : \A c \in Clusters : status[<<r, c>>] = "none"}
NewRows(r) == {k \in {r} \X policy[r] : status[k] = "none"}

\* FanoutTask committed: the missing rows appear and the task goes, at once.
FanoutTask(r) ==
  /\ ppc = "drain" /\ IsFirst(r, taskBatch, taskId)
  /\ status'   = [k \in Rows |-> IF k \in NewRows(r) THEN "pending" ELSE status[k]]
  /\ eventId'  = [k \in Rows |-> IF k \in NewRows(r) THEN nextEvent + 1 ELSE eventId[k]]
  /\ nextEvent' = IF NewRows(r) = {} THEN nextEvent ELSE nextEvent + 1
  /\ taskId' = [taskId EXCEPT ![r] = 0]
  /\ fanned' = fanned \cup {[request |-> r, task |-> taskId[r], policy |-> policy]}
  /\ taskBatch' = taskBatch \ {r}
  /\ UNCHANGED <<nextTask, queued, attempts, wait, age, synced, registered, policy,
                 ppc, dispVars, agentVars, faults>>

\* FanoutTask returned an error: rolled back, drainTasks goes on to the next task.
FanoutErrorDeletesTask(r) ==
  /\ ppc = "drain" /\ IsFirst(r, taskBatch, taskId) /\ Fault
  /\ taskId' = [taskId EXCEPT ![r] = 0]
  /\ taskBatch' = taskBatch \ {r}
  /\ UNCHANGED <<nextTask, queued, fanned, eventsVars, synced, registered, policy,
                 ppc, dispVars, agentVars>>
FanoutError(r) ==
  /\ ppc = "drain" /\ IsFirst(r, taskBatch, taskId) /\ Fault
  /\ taskBatch' = taskBatch \ {r}
  /\ UNCHANGED <<tasksVars, eventsVars, synced, registered, policy,
                 ppc, dispVars, agentVars>>

\* FetchTasks returned an error: drainTasks ends until the next wake-up.
FetchTasksError ==
  /\ ppc = "drain" /\ taskBatch = {} /\ Fault
  /\ ppc' = "idle"
  /\ UNCHANGED <<tasksVars, eventsVars, synced, registered, policy,
                 taskBatch, dispVars, agentVars>>

-----------------------------------------------------------------------------
(* Dispatcher: RunDispatcher, drainPending, dispatchOne, recordFailure *)

DispatcherWake ==
  /\ dpc = "idle"
  /\ dpc' = "drain"
  /\ UNCHANGED <<tasksVars, eventsVars, synced, registered, policy,
                 procVars, batch, cur, reply, agentVars, faults>>

\* FetchPending: a snapshot of the due rows, with their attempts.
FetchPending ==
  LET Ready == {k \in Rows : Due(k)}
  IN  /\ dpc = "drain" /\ DOMAIN batch = {}
      /\ \E B \in OldestOf(Ready, eventId) : batch' = [k \in B |-> attempts[k]]
      /\ dpc' = IF Ready = {} THEN "idle" ELSE "drain"
      /\ UNCHANGED <<tasksVars, eventsVars, synced, registered, policy,
                     procVars, cur, reply, agentVars, faults>>

FetchPendingError ==
  /\ dpc = "drain" /\ DOMAIN batch = {} /\ Fault
  /\ dpc' = "idle"
  /\ UNCHANGED <<tasksVars, eventsVars, synced, registered, policy,
                 procVars, batch, cur, reply, agentVars>>

\* dispatchOne returns: the loop moves to the next row of the batch.
Finish(k) ==
  /\ dpc' = "drain"
  /\ batch' = [e \in DOMAIN batch \ {k} |-> batch[e]]
  /\ cur' = NoRow
  /\ reply' = FALSE

\* AgentEndpoint finds the agent and postEvent sends the request.
PostEvent(k) ==
  /\ dpc = "drain" /\ IsFirst(k, DOMAIN batch, eventId)
  /\ k[2] \in registered
  /\ dpc' = "posting" /\ cur' = k
  /\ posts' = [posts EXCEPT ![k] = @ + 1]
  /\ UNCHANGED <<tasksVars, eventsVars, synced, registered, policy,
                 procVars, batch, reply, accepted, faults>>

\* AgentEndpoint returned ok=false: recorded like a failed POST.
NoAgent(k) ==
  /\ dpc = "drain" /\ IsFirst(k, DOMAIN batch, eventId)
  /\ k[2] \notin registered
  /\ dpc' = "markFail" /\ cur' = k
  /\ UNCHANGED <<tasksVars, eventsVars, synced, registered, policy,
                 procVars, batch, reply, agentVars, faults>>

\* AgentEndpoint returned an error: dispatchOne returns, the row stays due.
AgentEndpointError(k) ==
  /\ dpc = "drain" /\ IsFirst(k, DOMAIN batch, eventId) /\ Fault
  /\ Finish(k)
  /\ UNCHANGED <<tasksVars, eventsVars, synced, registered, policy,
                 procVars, agentVars>>

\* postEvent returns nil on the agent's 2xx.
PostOkUnanswered ==
  /\ dpc = "posting"
  /\ dpc' = "markOk" /\ reply' = FALSE
  /\ UNCHANGED <<tasksVars, eventsVars, synced, registered, policy,
                 procVars, batch, cur, agentVars, faults>>
PostOk ==
  /\ dpc = "posting" /\ reply
  /\ dpc' = "markOk" /\ reply' = FALSE
  /\ UNCHANGED <<tasksVars, eventsVars, synced, registered, policy,
                 procVars, batch, cur, agentVars, faults>>

\* postEvent returns an error: refused, 4xx or 5xx, httpTimeout, or the answer
\* was lost; the agent may have accepted the event or may still do so.
PostError ==
  /\ dpc = "posting"
  /\ dpc' = "markFail" /\ reply' = FALSE
  /\ UNCHANGED <<tasksVars, eventsVars, synced, registered, policy,
                 procVars, batch, cur, agentVars, faults>>

MarkDispatchedDeletesRow ==
  /\ dpc = "markOk"
  /\ status' = [status EXCEPT ![cur] = "none"]
  /\ Finish(cur)
  /\ UNCHANGED <<tasksVars, attempts, wait, age, eventId, nextEvent, synced,
                 registered, policy, procVars, agentVars, faults>>
MarkDispatched ==
  /\ dpc = "markOk"
  /\ status' = [status EXCEPT ![cur] = "dispatched"]
  /\ Finish(cur)
  /\ UNCHANGED <<tasksVars, attempts, wait, age, eventId, nextEvent, synced,
                 registered, policy, procVars, agentVars, faults>>

\* recordFailure: attempts comes from the fetched row, not from the table.
IsDeadLate(n) == n > MaxAttempts
IsDead(n) == n >= MaxAttempts
BumpForgotten(n) == n
Bump(n) == n + 1
FailedStatusUnknown(n) == IF IsDead(n) THEN "expired" ELSE "failed"
FailedStatus(n) == IF IsDead(n) THEN "dead" ELSE "failed"
MarkFailed ==
  LET n == Bump(batch[cur])
  IN  /\ dpc = "markFail"
      /\ status'   = [status EXCEPT ![cur] = FailedStatus(n)]
      /\ attempts' = [attempts EXCEPT ![cur] = n]
      /\ wait'     = [wait EXCEPT ![cur] = Backoff(n)]
      /\ Finish(cur)
      /\ UNCHANGED <<tasksVars, age, eventId, nextEvent, synced,
                     registered, policy, procVars, agentVars, faults>>

\* MarkDispatched or MarkFailed returned an error: logged, the row stays due.
MarkError ==
  /\ dpc \in {"markOk", "markFail"} /\ Fault
  /\ Finish(cur)
  /\ UNCHANGED <<tasksVars, eventsVars, synced, registered, policy,
                 procVars, agentVars>>

-----------------------------------------------------------------------------
(* The agents and scp-api *)

\* handleRegister: UpsertAgent for an agent that started.
Register(c) ==
  /\ c \notin registered
  /\ registered' = registered \cup {c}
  /\ UNCHANGED <<tasksVars, eventsVars, synced, policy,
                 procVars, dispVars, agentVars, faults>>

\* handleEvents answers 202 to the POST the dispatcher is waiting on.
AgentAccepts ==
  /\ dpc = "posting" /\ ~reply
  /\ accepted' = [accepted EXCEPT ![cur] = TRUE]
  /\ reply' = TRUE
  /\ UNCHANGED <<tasksVars, eventsVars, synced, registered, policy,
                 procVars, dpc, batch, cur, posts, faults>>

\* handleEvents completes a POST whose sender has stopped waiting.
AgentAcceptsLate(k) ==
  /\ posts[k] > 0 /\ ~accepted[k]
  /\ accepted' = [accepted EXCEPT ![k] = TRUE]
  /\ UNCHANGED <<tasksVars, eventsVars, synced, registered, policy,
                 procVars, dispVars, posts, faults>>

\* handleCallback: ApplyCallback for an event the agent accepted.  Callbacks
\* of two deliveries of one event are not ordered: the last one stays.
ApplyCallbackSettles(k, res) ==
  /\ accepted[k] /\ status[k] # "none"
  /\ synced' = [synced EXCEPT ![k] = res]
  /\ status' = [status EXCEPT ![k] = IF res = "true" THEN "dispatched" ELSE @]
  /\ UNCHANGED <<tasksVars, attempts, wait, age, eventId, nextEvent, registered,
                 policy, procVars, dispVars, agentVars, faults>>
ApplyCallback(k, res) ==
  /\ accepted[k] /\ status[k] # "none"
  /\ synced' = [synced EXCEPT ![k] = res]
  /\ UNCHANGED <<tasksVars, eventsVars, registered, policy,
                 procVars, dispVars, agentVars, faults>>

-----------------------------------------------------------------------------
(* Time and crashes *)

\* A second passes for every row that waits for its retry.
Tick ==
  /\ \E k \in Rows : status[k] = "failed" /\ wait[k] > 0
  /\ wait' = [k \in Rows |-> IF wait[k] > 0 THEN wait[k] - 1 ELSE 0]
  /\ age' = [k \in Rows |-> IF status[k] = "failed" THEN age[k] + 1 ELSE age[k]]
  /\ UNCHANGED <<tasksVars, status, attempts, eventId, nextEvent, synced,
                 registered, policy, procVars, dispVars, agentVars, faults>>

\* The daemon is killed, or told to stop, and started again: its memory is
\* gone, the tables stay, policies.yaml may have changed.  A cancelled
\* context makes every later statement fail, so a shutdown leaves the same.
Restart ==
  /\ Fault
  /\ ppc' = "idle" /\ taskBatch' = {}
  /\ dpc' = "idle" /\ batch' = [k \in {} |-> 0] /\ cur' = NoRow /\ reply' = FALSE
  /\ policy' \in Policies
  /\ UNCHANGED <<tasksVars, eventsVars, synced, registered, agentVars>>

-----------------------------------------------------------------------------
ProcessorStep ==
  \/ ProcessorWake
  \/ FetchTasks
  \/ \E r \in Requests : FanoutTask(r)

DispatcherStep ==
  \/ DispatcherWake
  \/ FetchPending
  \/ \E k \in Rows : PostEvent(k) \/ NoAgent(k)
  \/ PostOk
  \/ PostError
  \/ MarkDispatched
  \/ MarkFailed

FaultStep ==
  \/ \E r \in Requests : FanoutError(r)
  \/ FetchTasksError
  \/ FetchPendingError
  \/ \E k \in Rows : AgentEndpointError(k)
  \/ MarkError
  \/ Restart

OutsideStep ==
  \/ \E r \in Requests : Ingest(r)
  \/ \E c \in Clusters : Register(c)
  \/ AgentAccepts
  \/ \E k \in Rows : AgentAcceptsLate(k)
  \/ \E k \in Rows, res \in {"true", "false"} : ApplyCallback(k, res)

Next == ProcessorStep \/ DispatcherStep \/ FaultStep \/ OutsideStep \/ Tick

\* Both goroutines keep running (their select has a ticker, a POST has a
\* timeout) and time passes; nothing is assumed of agents or faults.
Fairness ==
  /\ WF_vars(ProcessorStep)
  /\ WF_vars(DispatcherStep)
  /\ WF_vars(Tick)

Spec == Init /\ [][Next]_vars
FairSpec == Spec /\ Fairness

-----------------------------------------------------------------------------
(* Properties *)

\* A row marked dispatched was accepted by the cluster's agent: neither a
\* restart, a lost answer nor a stale batch marks an undelivered event.
DispatchedImpliesAccepted ==
  \A k \in Rows : status[k] = "dispatched" => accepted[k]

\* Until dispatchOne handles it, a fetched row is as it was fetched: still due
\* and with the same attempts, although other actors ran in between.
BatchFresh ==
  \A k \in DOMAIN batch : Due(k) /\ attempts[k] = batch[k]

\* attempts never passes the cap and a row is dead exactly when it reached it.
AttemptsWithinCap ==
  \A k \in Rows : /\ attempts[k] <= MaxAttempts
                  /\ status[k] = "dead" <=> attempts[k] = MaxAttempts

\* No task leaves the inbox without its fanout, and a request has rows for exactly
\* the clusters named by the policies its tasks were fanned out under: errors,
\* restarts with another policies.yaml and requests queued again lose none.
FanoutComplete ==
  /\ \A q \in queued :
       \/ q.task = taskId[q.request]
       \/ \E f \in fanned : f.request = q.request /\ f.task = q.task
  /\ \A r \in Requests, c \in Clusters :
       status[<<r, c>>] # "none" <=> \E f \in fanned : f.request = r /\ c \in f.policy[r]

\* A callback always finds its events row.
CallbackFindsRow == \A k \in Rows : accepted[k] => status[k] # "none"

\* How often an agent can see one event: once per counted attempt, once for
\* the delivery that succeeded or is going on, and once more per fault.
RedeliveryBound ==
  \A k \in Rows :
    posts[k] <= attempts[k] + faults
                + IF status[k] = "dispatched" \/ cur = k THEN 1 ELSE 0

\* An event is abandoned no sooner than after all the waits between its
\* attempts, so an agent that is back within RetryTime seconds (30 for the five
\* attempts of the code) loses nothing, whatever fails or restarts meanwhile.
RetryTime[n \in Nat] == IF n = 0 THEN 0 ELSE Backoff(n) + RetryTime[n - 1]
OutageTolerated ==
  \A k \in Rows : status[k] = "dead" => age[k] >= RetryTime[MaxAttempts - 1]

\* The daemon implements the abstract delivery: a task goes in the step in which
\* all clusters of the policy in force are owed, a row is owed once, even when its
\* request is queued again, it is settled once, and only after enough attempts or
\* an answer, and nothing it went through is ever taken back.
Fate(k) ==
  CASE status[k] = "none"       -> "none"
    [] status[k] = "dispatched" -> "delivered"
    [] status[k] = "dead"       -> "abandoned"
    [] OTHER                    -> "owed"
Promise == INSTANCE Delivery WITH
  Cap <- MaxAttempts, inbox <- {r \in Requests : taskId[r] # 0},
  fate <- [k \in Rows |-> Fate(k)], seen <- accepted, tries <- attempts
ImplementsDelivery == Promise!Spec

\* Every task is eventually fanned out and each of its rows dispatched or dead,
\* whatever the agents do, once statements stop failing.
EventuallySettled ==
  \A r \in Requests :
    taskId[r] # 0 ~>
      /\ taskId[r] = 0
      /\ \A c \in Clusters : status[<<r, c>>] \in {"none", "dispatched", "dead"}
=============================================================================
