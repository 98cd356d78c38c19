---------------------------- MODULE DaemonProofs ----------------------------
(***************************************************************************)
(* Proofs about Daemon for every set of requests and clusters, every set   *)
(* of policies, every cap, backoff, batch size and bound.                  *)
(***************************************************************************)
EXTENDS Daemon, LeastNumber, TLAPS

-----------------------------------------------------------------------------
(* Delays: backoff, and the recursive sum of the delays *)

\* Every power of two that backoff can shift to is a number.
LEMMA ShiftType == \A a \in 1..30 : 2^a \in Nat
<1> DEFINE S == {n \in Nat : n < 30 => 2^(n + 1) \in Nat}
<1>1. 0 \in S
  BY ShiftAssumption
<1>2. ASSUME NEW n \in Nat, n \in S PROVE n + 1 \in S
  <2>1. CASE n + 1 < 30
    <3>1. 2^(n + 1) \in Nat
      BY <1>2, <2>1
    <3>2. n + 1 \in 1..29
      BY <2>1
    <3>3. 2^((n + 1) + 1) = 2 * 2^(n + 1)
      BY <3>2, ShiftAssumption
    <3> QED
      BY <3>1, <3>3
  <2> QED
    BY <2>1
<1> HIDE DEF S
<1>3. Nat \subseteq S
  BY <1>1, <1>2, Induction
<1>4. ASSUME NEW a \in 1..30 PROVE 2^a \in Nat
  <2>1. a - 1 \in S /\ a - 1 < 30 /\ (a - 1) + 1 = a
    BY <1>3
  <2> QED
    BY <2>1 DEF S
<1> QED
  BY <1>4

\* The retry delay is a natural number of seconds for every attempt.
LEMMA BackoffType == ASSUME NEW n \in Nat PROVE Backoff(n) \in Nat
<1>1. CASE n > 30
  BY <1>1, DaemonAssumption DEF Backoff
<1>2. CASE n < 1
  <2>1. 2^1 \in Nat BY ShiftType
  <2> QED BY <1>2, <2>1, DaemonAssumption DEF Backoff
<1>3. CASE n \in 1..30
  <2>1. 2^n \in Nat BY <1>3, ShiftType
  <2> QED BY <1>3, <2>1, DaemonAssumption DEF Backoff
<1> QED BY <1>1, <1>2, <1>3

\* One more wait: what RetryTime is at n, given its values below.
Waits(f, n) == IF n = 0 THEN 0 ELSE Backoff(n) + f[n - 1]

\* The sums of the first waits, as far as n.
SumsTo(n) == {f \in [0..n -> Nat] : \A i \in 0..n : f[i] = Waits(f, i)}

\* There are such sums however far one goes.
LEMMA SumsExist == \A n \in Nat : SumsTo(n) # {}
<1> DEFINE S == {n \in Nat : SumsTo(n) # {}}
<1>1. 0 \in S
  <2>1. [i \in 0..0 |-> 0] \in SumsTo(0)
    BY DEF SumsTo, Waits
  <2> QED
    BY <2>1
<1>2. ASSUME NEW n \in Nat, n \in S PROVE n + 1 \in S
  <2>1. PICK f \in SumsTo(n) : TRUE
    BY <1>2
  <2>2. f \in [0..n -> Nat] /\ f[n] \in Nat /\ Backoff(n + 1) \in Nat
    <3>1. f \in [0..n -> Nat]
      BY <2>1, Zenon DEF SumsTo
    <3>2. n + 1 \in Nat /\ n \in 0..n
      OBVIOUS
    <3> QED
      BY <3>1, <3>2, BackoffType
  <2> DEFINE g == [i \in 0..(n + 1) |-> IF i = n + 1 THEN Backoff(n + 1) + f[n] ELSE f[i]]
  <2>3. g \in [0..(n + 1) -> Nat]
    BY <2>2
  <2>4. \A i \in 0..(n + 1) : g[i] = Waits(g, i)
    BY <2>1, <2>2 DEF SumsTo, Waits
  <2>5. g \in SumsTo(n + 1)
    BY <2>3, <2>4 DEF SumsTo
  <2> QED
    BY <2>5
<1> HIDE DEF S
<1>3. Nat \subseteq S
  BY <1>1, <1>2, Induction
<1> QED
  BY <1>3 DEF S

\* Going further does not change the sums so far.
LEMMA SumsAgree ==
  ASSUME NEW m \in Nat, NEW n \in Nat, m <= n,
         NEW f \in SumsTo(m), NEW g \in SumsTo(n)
  PROVE  \A i \in 0..m : f[i] = g[i]
<1> DEFINE S == {i \in Nat : i <= m => f[i] = g[i]}
<1>1. 0 \in S
  BY DEF SumsTo, Waits
<1>2. ASSUME NEW i \in Nat, i \in S PROVE i + 1 \in S
  BY <1>2 DEF SumsTo, Waits
<1> HIDE DEF S
<1>3. Nat \subseteq S
  BY <1>1, <1>2, Induction
<1> QED
  BY <1>3 DEF S

\* RetryTime is the function its recursive definition speaks of.
LEMMA RetryTimeDef ==
  /\ RetryTime[0] = 0
  /\ \A n \in Nat : RetryTime[n + 1] = Backoff(n + 1) + RetryTime[n]
  /\ \A n \in Nat : RetryTime[n] \in Nat
<1> DEFINE F(n) == CHOOSE f : f \in SumsTo(n)
           h == [n \in Nat |-> F(n)[n]]
<1>1. \A n \in Nat : F(n) \in SumsTo(n)
  BY SumsExist
<1> HIDE DEF F
<1>2. ASSUME NEW n \in Nat PROVE h[n] = Waits(h, n)
  <2>1. CASE n = 0
    BY <1>1, <2>1 DEF SumsTo, Waits
  <2>2. CASE n # 0
    <3>1. n - 1 \in Nat /\ n - 1 <= n /\ n - 1 \in 0..n /\ n - 1 \in 0..(n - 1) /\ n \in 0..n
      BY <2>2
    <3>2. F(n)[n - 1] = F(n - 1)[n - 1]
      BY <1>1, <3>1, SumsAgree
    <3>3. F(n)[n] = Backoff(n) + F(n)[n - 1]
      BY <1>1, <2>2, <3>1 DEF SumsTo, Waits
    <3> QED
      BY <3>1, <3>2, <3>3, <2>2 DEF Waits
  <2> QED
    BY <2>1, <2>2
<1>3. h = [n \in Nat |-> IF n = 0 THEN 0 ELSE Backoff(n) + h[n - 1]]
  BY <1>2 DEF Waits
<1> HIDE DEF h
<1>4. RetryTime = [n \in Nat |-> IF n = 0 THEN 0 ELSE Backoff(n) + RetryTime[n - 1]]
  BY <1>3, Zenon DEF RetryTime
<1>5. RetryTime[0] = 0
  BY <1>4
<1>6. ASSUME NEW n \in Nat PROVE RetryTime[n + 1] = Backoff(n + 1) + RetryTime[n]
  BY <1>4
<1> DEFINE S == {n \in Nat : RetryTime[n] \in Nat}
<1>7. ASSUME NEW n \in Nat, n \in S PROVE n + 1 \in S
  <2>1. Backoff(n + 1) \in Nat
    BY BackoffType
  <2> QED
    BY <1>6, <1>7, <2>1
<1>8. 0 \in S
  BY <1>5
<1> HIDE DEF S
<1>9. Nat \subseteq S
  BY <1>7, <1>8, Induction
<1> QED
  BY <1>5, <1>6, <1>9 DEF S

-----------------------------------------------------------------------------
(* The inductive invariant: the checked invariants, and what links the       *)
(* dispatcher's memory, the inbox and the agents to the rows.                *)

\* dispatchOne works on a row of its batch, and only it has an open POST.
InFlight ==
  /\ dpc \in {"posting", "markOk", "markFail"} => cur \in DOMAIN batch
  /\ dpc \in {"idle", "drain"} => cur = NoRow
  /\ reply => dpc = "posting"

\* What the dispatcher and the agents have is evidence about the row.
Evidence ==
  /\ reply \/ dpc = "markOk" => accepted[cur]
  /\ \A k \in Rows : posts[k] > 0 \/ accepted[k] => status[k] # "none"

\* A fetched task is still in the inbox; no task has the id 0, which means no row.
InboxHolds ==
  /\ nextTask > 0
  /\ \A r \in taskBatch : taskId[r] # 0
  /\ \A q \in queued : q.task > 0

\* A row that was never tried has no attempts; one that failed has been waiting,
\* and has still to wait, for the delays of its attempts together.
Paced ==
  \A k \in Rows :
    /\ status[k] \in {"none", "pending"} => attempts[k] = 0
    /\ status[k] = "failed" => age[k] + wait[k] >= RetryTime[attempts[k]]

IInv ==
  /\ TypeOK
  /\ InFlight
  /\ BatchFresh
  /\ AttemptsWithinCap
  /\ Evidence
  /\ DispatchedImpliesAccepted
  /\ InboxHolds
  /\ FanoutComplete
  /\ RedeliveryBound
  /\ Paced
  /\ OutageTolerated

\* Empty tables and idle workers satisfy the inductive invariant.
LEMMA InitIInv == Init => IInv
<1> SUFFICES ASSUME Init PROVE IInv
  OBVIOUS
<1>1. DOMAIN batch = {} /\ batch \in [DOMAIN batch -> Nat]
  BY DEF Init
<1>2. TypeOK
  BY <1>1, DaemonAssumption DEF Init, TypeOK, EventStatus
<1>3. InFlight /\ BatchFresh
  BY <1>1 DEF Init, InFlight, BatchFresh
<1>4. AttemptsWithinCap /\ Evidence /\ DispatchedImpliesAccepted /\ RedeliveryBound
  BY DaemonAssumption DEF Init, AttemptsWithinCap, Evidence, DispatchedImpliesAccepted,
     RedeliveryBound
<1>5. InboxHolds /\ FanoutComplete
  BY DEF Init, InboxHolds, FanoutComplete, Rows
<1>6. Paced /\ OutageTolerated
  BY DEF Init, Paced, OutageTolerated
<1> QED BY <1>2, <1>3, <1>4, <1>5, <1>6 DEF IInv

\* dispatchOne's return keeps the dispatcher's memory well typed.
LEMMA FinishType ==
  ASSUME TypeOK, NEW k, Finish(k)
  PROVE  /\ dpc' = "drain" /\ cur' = NoRow /\ reply' = FALSE
         /\ DOMAIN batch' = DOMAIN batch \ {k}
         /\ \A e \in DOMAIN batch' : batch'[e] = batch[e] /\ batch[e] \in Nat
         /\ DOMAIN batch' \subseteq Rows
         /\ batch' \in [DOMAIN batch' -> Nat]
<1>1. \A e \in DOMAIN batch : batch[e] \in Nat
  BY DEF TypeOK
<1> QED BY <1>1 DEF TypeOK, Finish

\* Every step keeps the tables and the workers' memory well typed.
LEMMA NextType == TypeOK /\ InFlight /\ [Next]_vars => TypeOK'
<1> SUFFICES ASSUME TypeOK, InFlight, [Next]_vars PROVE TypeOK'
  OBVIOUS
<1> USE DEF TypeOK, tasksVars, eventsVars, procVars, dispVars, agentVars
<1>1. ASSUME NEW r \in Requests, Ingest(r) PROVE TypeOK'
  BY <1>1 DEF Ingest
<1>2. CASE ProcessorWake
  BY <1>2 DEF ProcessorWake
<1>3. CASE FetchTasks
  BY <1>3 DEF FetchTasks, OldestOf
<1>4. ASSUME NEW r \in Requests, FanoutTask(r) PROVE TypeOK'
  BY <1>4 DEF FanoutTask, EventStatus
<1>5. ASSUME NEW r \in Requests, FanoutError(r) PROVE TypeOK'
  BY <1>5 DEF FanoutError, Fault
<1>6. CASE FetchTasksError
  BY <1>6 DEF FetchTasksError, Fault
<1>7. CASE DispatcherWake
  BY <1>7 DEF DispatcherWake
<1>8. CASE FetchPending
  BY <1>8 DEF FetchPending, OldestOf
<1>9. CASE FetchPendingError
  BY <1>9 DEF FetchPendingError, Fault
<1>10. ASSUME NEW k \in Rows, PostEvent(k) PROVE TypeOK'
  BY <1>10 DEF PostEvent
<1>11. ASSUME NEW k \in Rows, NoAgent(k) PROVE TypeOK'
  BY <1>11 DEF NoAgent
<1>12. ASSUME NEW k \in Rows, AgentEndpointError(k) PROVE TypeOK'
  <2>1. faults' \in Nat BY <1>12 DEF AgentEndpointError, Fault
  <2> QED BY <1>12, <2>1, FinishType DEF AgentEndpointError
<1>13. CASE PostOk
  BY <1>13 DEF PostOk
<1>14. CASE PostError
  BY <1>14 DEF PostError
<1>15. CASE MarkDispatched
  BY <1>15, FinishType DEF MarkDispatched, EventStatus
<1>16. CASE MarkFailed
  <2>1. batch[cur] \in Nat /\ Bump(batch[cur]) \in Nat
    BY <1>16 DEF MarkFailed, InFlight, Bump
  <2>2. Backoff(Bump(batch[cur])) \in Nat
    BY <2>1, BackoffType
  <2>3. FailedStatus(Bump(batch[cur])) \in EventStatus
    BY DEF FailedStatus, EventStatus
  <2> QED BY <1>16, <2>1, <2>2, <2>3, FinishType DEF MarkFailed
<1>17. CASE MarkError
  <2>1. faults' \in Nat BY <1>17 DEF MarkError, Fault
  <2> QED BY <1>17, <2>1, FinishType DEF MarkError
<1>18. ASSUME NEW c \in Clusters, Register(c) PROVE TypeOK'
  BY <1>18 DEF Register
<1>19. CASE AgentAccepts
  BY <1>19 DEF AgentAccepts
<1>20. ASSUME NEW k \in Rows, AgentAcceptsLate(k) PROVE TypeOK'
  BY <1>20 DEF AgentAcceptsLate
<1>21. ASSUME NEW k \in Rows, NEW res \in {"true", "false"}, ApplyCallback(k, res)
       PROVE TypeOK'
  BY <1>21 DEF ApplyCallback
<1>22. CASE Tick
  BY <1>22 DEF Tick
<1>23. CASE Restart
  <2>1. DOMAIN batch' = {} /\ batch' \in [DOMAIN batch' -> Nat]
    BY <1>23 DEF Restart
  <2>2. faults' \in Nat
    BY <1>23 DEF Restart, Fault
  <2> QED BY <1>23, <2>1, <2>2 DEF Restart
<1>24. CASE UNCHANGED vars
  BY <1>24 DEF vars
<1> QED
  BY <1>1, <1>2, <1>3, <1>4, <1>5, <1>6, <1>7, <1>8, <1>9, <1>10, <1>11, <1>12,
     <1>13, <1>14, <1>15, <1>16, <1>17, <1>18, <1>19, <1>20, <1>21, <1>22, <1>23,
     <1>24
  DEF Next, ProcessorStep, DispatcherStep, FaultStep, OutsideStep

-----------------------------------------------------------------------------
(* The other parts of IInv, each disturbed by a few actions only *)

\* The row dispatchOne works on stays in its batch until dispatchOne returns.
LEMMA InFlightStep == IInv /\ [Next]_vars => InFlight'
<1> SUFFICES ASSUME IInv, [Next]_vars PROVE InFlight'
  OBVIOUS
<1> USE DEF IInv, InFlight
<1>1. CASE ProcessorStep
  BY <1>1 DEF ProcessorStep, ProcessorWake, FetchTasks, FanoutTask, dispVars
<1>2. CASE DispatcherStep
  <2>1. CASE DispatcherWake
    BY <2>1 DEF DispatcherWake
  <2>2. CASE FetchPending
    BY <2>2 DEF FetchPending
  <2>3. ASSUME NEW k \in Rows, PostEvent(k) \/ NoAgent(k) PROVE InFlight'
    BY <2>3 DEF PostEvent, NoAgent, IsFirst
  <2>4. CASE PostOk \/ PostError
    BY <2>4 DEF PostOk, PostError
  <2>5. CASE MarkDispatched \/ MarkFailed
    BY <2>5 DEF MarkDispatched, MarkFailed, Finish
  <2> QED BY <1>2, <2>1, <2>2, <2>3, <2>4, <2>5 DEF DispatcherStep
<1>3. CASE FaultStep
  <2>1. ASSUME NEW k \in Rows, AgentEndpointError(k) PROVE InFlight'
    BY <2>1 DEF AgentEndpointError, Finish
  <2>2. CASE MarkError \/ Restart
    BY <2>2 DEF MarkError, Restart, Finish
  <2>3. CASE FetchPendingError
    BY <2>3 DEF FetchPendingError
  <2>4. CASE FetchTasksError \/ \E r \in Requests : FanoutError(r)
    BY <2>4 DEF FetchTasksError, FanoutError, dispVars
  <2> QED BY <1>3, <2>1, <2>2, <2>3, <2>4 DEF FaultStep
<1>4. CASE OutsideStep
  BY <1>4 DEF OutsideStep, Ingest, Register, AgentAccepts, AgentAcceptsLate,
     ApplyCallback, dispVars
<1>5. CASE Tick \/ UNCHANGED vars
  BY <1>5 DEF Tick, vars, dispVars
<1> QED BY <1>1, <1>2, <1>3, <1>4, <1>5 DEF Next

\* The steps between a fetch and its use leave the fetched rows as they were.
LEMMA BatchFreshStep == IInv /\ [Next]_vars => BatchFresh'
<1> SUFFICES ASSUME IInv, [Next]_vars PROVE BatchFresh'
  OBVIOUS
<1> USE DEF IInv, TypeOK, BatchFresh, Due
<1>1. CASE UNCHANGED <<status, attempts, wait, batch>>
  BY <1>1
<1>2. ASSUME NEW r \in Requests, FanoutTask(r) PROVE BatchFresh'
  BY <1>2 DEF FanoutTask, NewRows, dispVars
<1>3. CASE FetchPending
  BY <1>3 DEF FetchPending, OldestOf, eventsVars
<1>4. ASSUME NEW k \in Rows, AgentEndpointError(k) PROVE BatchFresh'
  BY <1>4 DEF AgentEndpointError, Finish, eventsVars
<1>5. CASE MarkDispatched
  BY <1>5 DEF MarkDispatched, Finish, InFlight
<1>6. CASE MarkFailed
  BY <1>6 DEF MarkFailed, Finish, InFlight
<1>7. CASE MarkError
  BY <1>7 DEF MarkError, Finish, eventsVars
<1>8. CASE Restart
  BY <1>8 DEF Restart
<1>9. CASE Tick
  BY <1>9 DEF Tick, dispVars
<1>10. CASE UNCHANGED vars
  BY <1>10, <1>1 DEF vars, eventsVars, dispVars
<1> QED
  BY <1>1, <1>2, <1>3, <1>4, <1>5, <1>6, <1>7, <1>8, <1>9, <1>10
  DEF Next, ProcessorStep, ProcessorWake, FetchTasks, DispatcherStep, DispatcherWake,
      PostEvent, NoAgent, PostOk, PostError, FaultStep, FanoutError, FetchTasksError,
      FetchPendingError, OutsideStep, Ingest, Register, AgentAccepts,
      AgentAcceptsLate, ApplyCallback, eventsVars, dispVars

\* attempts grows by one from a value below the cap, and dead follows the cap.
LEMMA AttemptsStep == IInv /\ [Next]_vars => AttemptsWithinCap'
<1> SUFFICES ASSUME IInv, [Next]_vars PROVE AttemptsWithinCap'
  OBVIOUS
<1> USE DEF IInv, TypeOK, AttemptsWithinCap
<1>1. CASE UNCHANGED <<status, attempts>>
  BY <1>1
<1>2. ASSUME NEW r \in Requests, FanoutTask(r) PROVE AttemptsWithinCap'
  BY <1>2 DEF FanoutTask, NewRows
<1>3. CASE MarkDispatched
  <2>1. cur \in Rows /\ status[cur] # "dead"
    BY <1>3 DEF MarkDispatched, InFlight, BatchFresh, Due
  <2> QED BY <1>3, <2>1 DEF MarkDispatched
<1>4. CASE MarkFailed
  <2>1. cur \in Rows /\ status[cur] # "dead" /\ batch[cur] = attempts[cur]
    BY <1>4 DEF MarkFailed, InFlight, BatchFresh, Due
  <2>2. attempts[cur] < MaxAttempts
    BY <2>1, DaemonAssumption
  <2> QED BY <1>4, <2>1, <2>2, DaemonAssumption
          DEF MarkFailed, Bump, FailedStatus, IsDead
<1> QED
  BY <1>1, <1>2, <1>3, <1>4
  DEF Next, ProcessorStep, ProcessorWake, FetchTasks, DispatcherStep, DispatcherWake,
      FetchPending, PostEvent, NoAgent, PostOk, PostError, FaultStep, FanoutError,
      FetchTasksError, FetchPendingError, AgentEndpointError, MarkError, Restart,
      OutsideStep, Ingest, Register, AgentAccepts, AgentAcceptsLate, ApplyCallback,
      Tick, vars, eventsVars

\* A reply or an accepted event exists only for a row, and markOk only after a reply.
LEMMA EvidenceStep == IInv /\ [Next]_vars => Evidence'
<1> SUFFICES ASSUME IInv, [Next]_vars PROVE Evidence'
  OBVIOUS
<1> USE DEF IInv, TypeOK, Evidence
<1>1. CASE ProcessorStep
  BY <1>1 DEF ProcessorStep, ProcessorWake, FetchTasks, FanoutTask, NewRows,
     eventsVars, dispVars, agentVars
<1>2. CASE DispatcherStep
  <2>1. CASE DispatcherWake \/ FetchPending
    BY <2>1 DEF DispatcherWake, FetchPending, InFlight, eventsVars, agentVars
  <2>2. ASSUME NEW k \in Rows, PostEvent(k) PROVE Evidence'
    BY <2>2 DEF PostEvent, IsFirst, InFlight, BatchFresh, Due, eventsVars
  <2>3. ASSUME NEW k \in Rows, NoAgent(k) PROVE Evidence'
    BY <2>3 DEF NoAgent, InFlight, eventsVars, agentVars
  <2>4. CASE PostOk \/ PostError
    BY <2>4 DEF PostOk, PostError, eventsVars, agentVars
  <2>5. CASE MarkDispatched
    <3>1. dpc' = "drain" /\ reply' = FALSE
      BY <2>5 DEF MarkDispatched, Finish
    <3>2. \A k \in Rows : status[k] # "none" => status'[k] # "none"
      BY <2>5 DEF MarkDispatched
    <3> QED BY <2>5, <3>1, <3>2 DEF MarkDispatched, agentVars
  <2>6. CASE MarkFailed
    <3>1. dpc' = "drain" /\ reply' = FALSE
      BY <2>6 DEF MarkFailed, Finish
    <3>2. \A k \in Rows : status[k] # "none" => status'[k] # "none"
      BY <2>6 DEF MarkFailed, FailedStatus
    <3> QED BY <2>6, <3>1, <3>2, FinishType DEF MarkFailed, agentVars
  <2> QED BY <1>2, <2>1, <2>2, <2>3, <2>4, <2>5, <2>6 DEF DispatcherStep
<1>3. CASE FaultStep
  <2>1. CASE FetchTasksError \/ FetchPendingError \/ \E r \in Requests : FanoutError(r)
    BY <2>1 DEF FetchTasksError, FetchPendingError, FanoutError, InFlight,
       eventsVars, dispVars, agentVars
  <2>2. ASSUME NEW k \in Rows, AgentEndpointError(k) PROVE Evidence'
    <3>1. dpc' = "drain" /\ reply' = FALSE
      BY <2>2 DEF AgentEndpointError, Finish
    <3> QED BY <2>2, <3>1 DEF AgentEndpointError, eventsVars, agentVars
  <2>3. CASE MarkError
    <3>1. dpc' = "drain" /\ reply' = FALSE
      BY <2>3 DEF MarkError, Finish
    <3> QED BY <2>3, <3>1 DEF MarkError, eventsVars, agentVars
  <2>4. CASE Restart
    BY <2>4 DEF Restart, eventsVars, agentVars
  <2> QED BY <1>3, <2>1, <2>2, <2>3, <2>4 DEF FaultStep
<1>4. CASE OutsideStep
  <2>1. CASE AgentAccepts
    BY <2>1 DEF AgentAccepts, InFlight, BatchFresh, Due, eventsVars
  <2>2. ASSUME NEW k \in Rows, AgentAcceptsLate(k) PROVE Evidence'
    BY <2>2 DEF AgentAcceptsLate, eventsVars, dispVars
  <2> QED BY <1>4, <2>1, <2>2 DEF OutsideStep, Ingest, Register, ApplyCallback,
          eventsVars, dispVars, agentVars
<1>5. CASE Tick \/ UNCHANGED vars
  BY <1>5 DEF Tick, vars, eventsVars, dispVars, agentVars
<1> QED BY <1>1, <1>2, <1>3, <1>4, <1>5 DEF Next

\* Only MarkDispatched dispatches, and accepted is never taken back.
LEMMA DispatchedStep == IInv /\ [Next]_vars => DispatchedImpliesAccepted'
<1> SUFFICES ASSUME IInv, [Next]_vars PROVE DispatchedImpliesAccepted'
  OBVIOUS
<1> USE DEF IInv, TypeOK, DispatchedImpliesAccepted
<1>1. CASE UNCHANGED <<status, accepted>>
  BY <1>1
<1>2. ASSUME NEW r \in Requests, FanoutTask(r) PROVE DispatchedImpliesAccepted'
  BY <1>2 DEF FanoutTask, NewRows, agentVars
<1>3. CASE MarkDispatched
  BY <1>3 DEF MarkDispatched, Evidence, agentVars
<1>4. CASE MarkFailed
  BY <1>4 DEF MarkFailed, FailedStatus, agentVars
<1>5. CASE AgentAccepts
  BY <1>5 DEF AgentAccepts, eventsVars
<1>6. ASSUME NEW k \in Rows, AgentAcceptsLate(k) PROVE DispatchedImpliesAccepted'
  BY <1>6 DEF AgentAcceptsLate, eventsVars
<1> QED
  BY <1>1, <1>2, <1>3, <1>4, <1>5, <1>6
  DEF Next, ProcessorStep, ProcessorWake, FetchTasks, DispatcherStep, DispatcherWake,
      FetchPending, PostEvent, NoAgent, PostOk, PostError, FaultStep, FanoutError,
      FetchTasksError, FetchPendingError, AgentEndpointError, MarkError, Restart,
      OutsideStep, Ingest, Register, ApplyCallback, Tick, vars, eventsVars, agentVars

\* A batch holds tasks that are in the inbox, and BIGSERIAL starts above 0.
LEMMA InboxStep == IInv /\ [Next]_vars => InboxHolds'
<1> SUFFICES ASSUME IInv, [Next]_vars PROVE InboxHolds'
  OBVIOUS
<1> USE DEF IInv, TypeOK, InboxHolds
<1>1. ASSUME NEW r \in Requests, Ingest(r) PROVE InboxHolds'
  BY <1>1 DEF Ingest, procVars
<1>2. CASE FetchTasks
  BY <1>2 DEF FetchTasks, OldestOf, tasksVars
<1>3. ASSUME NEW r \in Requests, FanoutTask(r) PROVE InboxHolds'
  BY <1>3 DEF FanoutTask
<1>4. ASSUME NEW r \in Requests, FanoutError(r) PROVE InboxHolds'
  BY <1>4 DEF FanoutError, tasksVars
<1>5. CASE Restart
  BY <1>5 DEF Restart, tasksVars
<1>6. CASE UNCHANGED <<tasksVars, taskBatch>>
  BY <1>6 DEF tasksVars
<1> QED
  BY <1>1, <1>2, <1>3, <1>4, <1>5, <1>6
  DEF Next, ProcessorStep, ProcessorWake, DispatcherStep, DispatcherWake,
      FetchPending, PostEvent, NoAgent, PostOk, PostError, MarkDispatched, MarkFailed,
      FaultStep, FetchTasksError, FetchPendingError, AgentEndpointError, MarkError,
      OutsideStep, Register, AgentAccepts, AgentAcceptsLate, ApplyCallback,
      Tick, vars, procVars

\* A fanout inserts the rows its policy names, and no step removes a row.
LEMMA FanoutStep == IInv /\ [Next]_vars => FanoutComplete'
<1> SUFFICES ASSUME IInv, [Next]_vars PROVE FanoutComplete'
  OBVIOUS
<1> USE DEF IInv, TypeOK, FanoutComplete
<1>1. ASSUME NEW r \in Requests, Ingest(r) PROVE FanoutComplete'
  <2>1. /\ taskId[r] = 0 /\ taskId' = [taskId EXCEPT ![r] = nextTask]
        /\ queued' = queued \cup {[request |-> r, task |-> nextTask]}
        /\ UNCHANGED <<fanned, status>>
    BY <1>1 DEF Ingest, eventsVars
  <2>2. ASSUME NEW q \in queued'
        PROVE  \/ q.task = taskId'[q.request]
               \/ \E f \in fanned' : f.request = q.request /\ f.task = q.task
    <3>1. CASE q \in queued
      <4>1. q.task > 0 /\ q.task \in Nat /\ q.request \in Requests
        BY <3>1 DEF InboxHolds
      <4> QED BY <2>1, <3>1, <4>1
    <3>2. CASE q = [request |-> r, task |-> nextTask]
      BY <2>1, <3>2
    <3> QED BY <2>1, <2>2, <3>1, <3>2
  <2> QED BY <2>1, <2>2
<1>2. ASSUME NEW r \in Requests, FanoutTask(r) PROVE FanoutComplete'
  <2> DEFINE new == [request |-> r, task |-> taskId[r], policy |-> policy]
  <2>1. /\ taskId' = [taskId EXCEPT ![r] = 0]
        /\ queued' = queued /\ fanned' = fanned \cup {new}
        /\ \A k \in Rows : status'[k] = IF k \in NewRows(r) THEN "pending" ELSE status[k]
    BY <1>2 DEF FanoutTask
  <2>2. new.request = r /\ new.task = taskId[r] /\ new.policy = policy
    OBVIOUS
  <2> HIDE DEF new
  <2>3. ASSUME NEW q \in queued
        PROVE  \/ q.task = taskId'[q.request]
               \/ \E f \in fanned' : f.request = q.request /\ f.task = q.task
    <3>1. q.request \in Requests
      OBVIOUS
    <3> QED BY <2>1, <2>2, <2>3, <3>1
  <2>4. ASSUME NEW s \in Requests, NEW c \in Clusters
        PROVE  status'[<<s, c>>] # "none"
                 <=> \E f \in fanned' : f.request = s /\ c \in f.policy[s]
    <3>1. <<s, c>> \in Rows
      BY DEF Rows
    <3>2. <<s, c>> \in NewRows(r) <=> s = r /\ c \in policy[r] /\ status[<<s, c>>] = "none"
      BY DEF NewRows
    <3>3. status'[<<s, c>>] # "none"
            <=> status[<<s, c>>] # "none" \/ (s = r /\ c \in policy[r])
      BY <2>1, <3>1, <3>2
    <3>4. (\E f \in fanned' : f.request = s /\ c \in f.policy[s])
            <=> \/ \E f \in fanned : f.request = s /\ c \in f.policy[s]
                \/ s = r /\ c \in policy[r]
      BY <2>1, <2>2
    <3> QED BY <3>3, <3>4
  <2> QED BY <2>1, <2>3, <2>4
<1>3. CASE MarkDispatched \/ MarkFailed
  <2>1. cur \in Rows /\ status[cur] # "none"
    BY <1>3 DEF MarkDispatched, MarkFailed, InFlight, BatchFresh, Due
  <2>2. \A k \in Rows : status'[k] = "none" <=> status[k] = "none"
    BY <1>3, <2>1 DEF MarkDispatched, MarkFailed, FailedStatus
  <2>3. \A r \in Requests, c \in Clusters : <<r, c>> \in Rows
    BY DEF Rows
  <2>4. UNCHANGED tasksVars
    BY <1>3 DEF MarkDispatched, MarkFailed
  <2> QED BY <2>2, <2>3, <2>4 DEF tasksVars
<1>4. CASE UNCHANGED <<tasksVars, status>>
  BY <1>4 DEF tasksVars
<1> QED
  BY <1>1, <1>2, <1>3, <1>4
  DEF Next, ProcessorStep, ProcessorWake, FetchTasks, DispatcherStep, DispatcherWake,
      FetchPending, PostEvent, NoAgent, PostOk, PostError, FaultStep, FanoutError,
      FetchTasksError, FetchPendingError, AgentEndpointError, MarkError, Restart,
      OutsideStep, Register, AgentAccepts, AgentAcceptsLate, ApplyCallback,
      Tick, vars, eventsVars

\* Every POST beyond the counted attempts has its own fault, delivery or worker.
LEMMA RedeliveryStep == IInv /\ [Next]_vars => RedeliveryBound'
<1> SUFFICES ASSUME IInv, [Next]_vars PROVE RedeliveryBound'
  OBVIOUS
<1> USE DEF IInv, TypeOK, RedeliveryBound
<1>1. ASSUME NEW r \in Requests, FanoutTask(r) PROVE RedeliveryBound'
  BY <1>1 DEF FanoutTask, NewRows, dispVars, agentVars
<1>2. ASSUME NEW k \in Rows, PostEvent(k) PROVE RedeliveryBound'
  <2>1. cur = NoRow /\ NoRow \notin Rows
    BY <1>2 DEF PostEvent, InFlight, NoRow, Rows
  <2>2. status[k] # "dispatched"
    BY <1>2 DEF PostEvent, IsFirst, BatchFresh, Due
  <2>3. posts[k] <= attempts[k] + faults
    BY <2>1, <2>2
  <2> QED BY <1>2, <2>1, <2>3 DEF PostEvent, eventsVars
<1>3. ASSUME NEW k \in Rows, NoAgent(k) PROVE RedeliveryBound'
  <2>1. cur = NoRow /\ NoRow \notin Rows
    BY <1>3 DEF NoAgent, InFlight, NoRow, Rows
  <2> QED BY <1>3, <2>1 DEF NoAgent, eventsVars, agentVars
<1>4. CASE MarkDispatched
  <2>1. cur' = NoRow /\ NoRow \notin Rows
    BY <1>4 DEF MarkDispatched, Finish, NoRow, Rows
  <2> QED BY <1>4, <2>1 DEF MarkDispatched, agentVars
<1>5. CASE MarkFailed
  <2>1. cur' = NoRow /\ NoRow \notin Rows
    BY <1>5 DEF MarkFailed, Finish, NoRow, Rows
  <2>2. cur \in Rows /\ status[cur] # "dispatched" /\ batch[cur] = attempts[cur]
    BY <1>5 DEF MarkFailed, InFlight, BatchFresh, Due
  <2>3. attempts' = [attempts EXCEPT ![cur] = attempts[cur] + 1]
    BY <1>5, <2>2 DEF MarkFailed, Bump
  <2> QED BY <1>5, <2>1, <2>2, <2>3 DEF MarkFailed, FailedStatus, agentVars
<1>6. CASE FaultStep
  <2>1. faults' = faults + 1
    BY <1>6 DEF FaultStep, FanoutError, FetchTasksError, FetchPendingError,
       AgentEndpointError, MarkError, Restart, Fault
  <2>2. UNCHANGED <<posts, attempts, status>>
    BY <1>6 DEF FaultStep, FanoutError, FetchTasksError, FetchPendingError,
       AgentEndpointError, MarkError, Restart, agentVars, eventsVars
  <2> QED BY <2>1, <2>2
<1>7. CASE UNCHANGED <<posts, attempts, faults, status, cur>>
  BY <1>7
<1> QED
  BY <1>1, <1>2, <1>3, <1>4, <1>5, <1>6, <1>7
  DEF Next, ProcessorStep, ProcessorWake, FetchTasks, DispatcherStep, DispatcherWake,
      FetchPending, PostOk, PostError, OutsideStep, Ingest, Register, AgentAccepts,
      AgentAcceptsLate, ApplyCallback, Tick, vars, eventsVars, dispVars, agentVars

\* MarkFailed sets the delay of its attempt on a row whose last one is over, and
\* time moves seconds from wait to age.
LEMMA PacedStep == IInv /\ [Next]_vars => Paced' /\ OutageTolerated'
<1> SUFFICES ASSUME IInv, [Next]_vars PROVE Paced' /\ OutageTolerated'
  OBVIOUS
<1> USE DEF IInv, TypeOK, Paced, OutageTolerated
<1>1. CASE UNCHANGED <<status, attempts, wait, age>>
  BY <1>1
<1>2. ASSUME NEW r \in Requests, FanoutTask(r) PROVE Paced' /\ OutageTolerated'
  BY <1>2 DEF FanoutTask, NewRows
<1>3. CASE MarkDispatched
  BY <1>3 DEF MarkDispatched
<1>4. CASE MarkFailed
  <2> DEFINE n == attempts[cur] + 1
  <2>1. cur \in Rows /\ Due(cur) /\ batch[cur] = attempts[cur]
    BY <1>4 DEF MarkFailed, InFlight, BatchFresh
  <2>2. attempts[cur] \in Nat /\ attempts[cur] < MaxAttempts /\ n \in Nat
    BY <2>1, DaemonAssumption DEF AttemptsWithinCap, Due
  <2>3. age[cur] >= RetryTime[attempts[cur]]
    BY <2>1, RetryTimeDef DEF Due
  <2>4. RetryTime[n] = Backoff(n) + RetryTime[attempts[cur]]
        /\ RetryTime[attempts[cur]] \in Nat /\ Backoff(n) \in Nat
    BY <2>2, RetryTimeDef, BackoffType
  <2>5. /\ status' = [status EXCEPT ![cur] = FailedStatus(n)]
        /\ attempts' = [attempts EXCEPT ![cur] = n]
        /\ wait' = [wait EXCEPT ![cur] = Backoff(n)]
        /\ age' = age
    BY <1>4, <2>1 DEF MarkFailed, Bump
  <2>6. age[cur] + Backoff(n) >= RetryTime[n]
    BY <2>1, <2>3, <2>4
  <2>7. n >= MaxAttempts => MaxAttempts - 1 = attempts[cur]
    BY <2>2, DaemonAssumption
  <2> HIDE DEF n
  <2>8. Paced'
    BY <2>1, <2>2, <2>5, <2>6 DEF FailedStatus
  <2>9. OutageTolerated'
    BY <2>1, <2>3, <2>5, <2>7 DEF FailedStatus, IsDead
  <2> QED
    BY <2>8, <2>9
<1>5. CASE Tick
  <2>1. \A k \in Rows : attempts[k] \in Nat /\ RetryTime[attempts[k]] \in Nat
    BY RetryTimeDef
  <2>2. RetryTime[MaxAttempts - 1] \in Nat
    BY RetryTimeDef, DaemonAssumption
  <2> QED
    BY <1>5, <2>1, <2>2 DEF Tick
<1> QED
  BY <1>1, <1>2, <1>3, <1>4, <1>5
  DEF Next, ProcessorStep, ProcessorWake, FetchTasks, DispatcherStep, DispatcherWake,
      FetchPending, PostEvent, NoAgent, PostOk, PostError, FaultStep, FanoutError,
      FetchTasksError, FetchPendingError, AgentEndpointError, MarkError, Restart,
      OutsideStep, Ingest, Register, AgentAccepts, AgentAcceptsLate, ApplyCallback,
      vars, eventsVars

\* The conjuncts above are inductive together.
LEMMA Inductive == IInv /\ [Next]_vars => IInv'
BY NextType, InFlightStep, BatchFreshStep, AttemptsStep, EvidenceStep, DispatchedStep,
   InboxStep, FanoutStep, RedeliveryStep, PacedStep
DEF IInv

\* The inductive invariant holds in every reachable state.
LEMMA IInvHolds == Spec => []IInv
BY InitIInv, Inductive, PTL DEF Spec

-----------------------------------------------------------------------------
(* Theorems *)

\* Type correctness of the tables and of the daemon's memory.
THEOREM TypeCorrect == Spec => []TypeOK
<1>1. IInv => TypeOK BY DEF IInv
<1> QED BY IInvHolds, <1>1, PTL

\* drainPending's snapshot is never stale when dispatchOne uses it, however the
\* processor, the callbacks, time and restarts interleave with the dispatcher.
THEOREM FetchedRowsStayDue == Spec => []BatchFresh
<1>1. IInv => BatchFresh BY DEF IInv
<1> QED BY IInvHolds, <1>1, PTL

\* recordFailure, which writes attempts from that snapshot, respects the cap.
THEOREM AttemptsCapped == Spec => []AttemptsWithinCap
<1>1. IInv => AttemptsWithinCap BY DEF IInv
<1> QED BY IInvHolds, <1>1, PTL

\* No event is marked dispatched that the agent has not accepted.
THEOREM NothingLostAsDispatched == Spec => []DispatchedImpliesAccepted
<1>1. IInv => DispatchedImpliesAccepted BY DEF IInv
<1> QED BY IInvHolds, <1>1, PTL

\* FanoutTask never loses a cluster, whatever failed or restarted before it.
THEOREM FanoutIsComplete == Spec => []FanoutComplete
<1>1. IInv => FanoutComplete BY DEF IInv
<1> QED BY IInvHolds, <1>1, PTL

\* ApplyCallback's UPDATE always has a row to change.
THEOREM CallbacksFindTheirRow == Spec => []CallbackFindsRow
<1>1. IInv => CallbackFindsRow BY DEF IInv, Evidence, CallbackFindsRow, TypeOK
<1> QED BY IInvHolds, <1>1, PTL

\* How often postEvent can send one event, for any number of faults.
THEOREM RedeliveryIsBounded == Spec => []RedeliveryBound
<1>1. IInv => RedeliveryBound BY DEF IInv
<1> QED BY IInvHolds, <1>1, PTL

\* recordFailure never gives an event up before the delays between its attempts
\* have passed, whatever fails, restarts or is queued again meanwhile.
THEOREM OutagesAreTolerated == Spec => []OutageTolerated
<1>1. IInv => OutageTolerated BY DEF IInv
<1> QED BY IInvHolds, <1>1, PTL

\* With maxAttempts and maxBackoff of the code that is half a minute.
THEOREM HalfAMinute ==
  ASSUME MaxAttempts = 5, MaxBackoff = 300
  PROVE  Spec => [](\A k \in Rows : status[k] = "dead" => age[k] >= 30)
<1>1. 2^1 = 2 /\ 2^2 = 4 /\ 2^3 = 8 /\ 2^4 = 16
  <2>1. 2^(1 + 1) = 2 * 2^1 /\ 2^(2 + 1) = 2 * 2^2 /\ 2^(3 + 1) = 2 * 2^3
    BY ShiftAssumption
  <2>2. 1 + 1 = 2 /\ 2 + 1 = 3 /\ 3 + 1 = 4
    OBVIOUS
  <2> QED
    BY <2>1, <2>2, ShiftAssumption
<1>2. Backoff(1) = 2 /\ Backoff(2) = 4 /\ Backoff(3) = 8 /\ Backoff(4) = 16
  BY <1>1 DEF Backoff
<1>3. /\ RetryTime[0 + 1] = Backoff(0 + 1) + RetryTime[0]
      /\ RetryTime[1 + 1] = Backoff(1 + 1) + RetryTime[1]
      /\ RetryTime[2 + 1] = Backoff(2 + 1) + RetryTime[2]
      /\ RetryTime[3 + 1] = Backoff(3 + 1) + RetryTime[3]
  BY RetryTimeDef
<1>4. RetryTime[MaxAttempts - 1] = 30
  BY <1>2, <1>3, RetryTimeDef
<1>5. OutageTolerated => \A k \in Rows : status[k] = "dead" => age[k] >= 30
  BY <1>4 DEF OutageTolerated
<1> QED
  BY OutagesAreTolerated, <1>5, PTL

-----------------------------------------------------------------------------
(* Daemon implements Delivery *)

Inbox == {r \in Requests : taskId[r] # 0}

\* The empty tables map to an initial state of the abstract delivery.
LEMMA PromiseInit == Init => Promise!Init
<1> SUFFICES ASSUME Init PROVE Promise!Init
  OBVIOUS
<1>1. [k \in Rows |-> Fate(k)] = [k \in Rows |-> "none"]
  BY DEF Init, Fate
<1>2. {r \in Requests : taskId[r] # 0} = {}
  BY DEF Init
<1> QED BY <1>1, <1>2 DEF Init, Promise!Init, Promise!Pairs, Rows

\* Steps that leave the inbox, the policy, status, attempts and accepted alone are
\* stutters.
LEMMA PromiseStutter ==
  ASSUME UNCHANGED <<taskId, policy, status, attempts, accepted>>
  PROVE  UNCHANGED Promise!vars
BY DEF Promise!vars, Fate

\* Every step of the daemon maps to an abstract step or to a stutter.
LEMMA PromiseStep == IInv /\ [Next]_vars => [Promise!Next]_(Promise!vars)
<1> SUFFICES ASSUME IInv, [Next]_vars PROVE [Promise!Next]_(Promise!vars)
  OBVIOUS
<1> USE DEF IInv, TypeOK
<1>0. Promise!Pairs = Rows
  BY DEF Promise!Pairs, Rows
<1>1. CASE UNCHANGED <<taskId, policy, status, attempts, accepted>>
  BY <1>1, PromiseStutter
<1>2. ASSUME NEW r \in Requests, FanoutTask(r) PROVE Promise!Next
  <2>1. /\ taskId[r] # 0 /\ taskId' = [taskId EXCEPT ![r] = 0]
        /\ UNCHANGED <<policy, attempts, accepted>>
        /\ \A k \in Rows : status'[k] = IF k \in NewRows(r) THEN "pending" ELSE status[k]
    BY <1>2 DEF FanoutTask, IsFirst, InboxHolds, agentVars
  <2>2. r \in Inbox /\ Inbox' = Inbox \ {r}
    BY <2>1 DEF Inbox
  <2>3. ASSUME NEW k \in Rows
        PROVE  Fate(k)' = IF k[1] = r /\ k[2] \in policy[r] /\ Fate(k) = "none"
                          THEN "owed" ELSE Fate(k)
    <3>1. k \in NewRows(r) <=> k[1] = r /\ k[2] \in policy[r] /\ status[k] = "none"
      BY DEF NewRows, Rows
    <3>2. status[k] = "none" <=> Fate(k) = "none"
      BY DEF Fate
    <3>3. CASE k \in NewRows(r)
      BY <2>1, <3>1, <3>2, <3>3 DEF Fate
    <3>4. CASE k \notin NewRows(r)
      BY <2>1, <3>1, <3>2, <3>4 DEF Fate
    <3> QED BY <3>3, <3>4
  <2>4. Promise!Owe(r)
    BY <1>0, <2>1, <2>2, <2>3 DEF Promise!Owe, Inbox
  <2> QED BY <2>4 DEF Promise!Next
<1>3. ASSUME NEW r \in Requests, Ingest(r) PROVE Promise!Next
  <2>1. /\ taskId[r] = 0 /\ taskId' = [taskId EXCEPT ![r] = nextTask] /\ nextTask # 0
        /\ UNCHANGED <<policy, status, attempts, accepted>>
    BY <1>3 DEF Ingest, InboxHolds, eventsVars, agentVars
  <2>2. r \notin Inbox /\ Inbox' = Inbox \cup {r}
    BY <2>1 DEF Inbox
  <2>3. [k \in Rows |-> Fate(k)]' = [k \in Rows |-> Fate(k)]
    BY <2>1 DEF Fate
  <2>4. Promise!Tell(r)
    BY <2>1, <2>2, <2>3 DEF Promise!Tell, Inbox
  <2> QED BY <2>4 DEF Promise!Next
<1>4. CASE Restart
  <2>1. policy' \in Policies /\ UNCHANGED <<taskId, status, attempts, accepted>>
    BY <1>4 DEF Restart, tasksVars, eventsVars, agentVars
  <2>2. [k \in Rows |-> Fate(k)]' = [k \in Rows |-> Fate(k)]
    BY <2>1 DEF Fate
  <2>3. Promise!Change
    BY <2>1, <2>2 DEF Promise!Change
  <2> QED BY <2>3 DEF Promise!Next
<1>5. CASE AgentAccepts
  <2>1. cur \in Rows /\ Fate(cur) # "none"
    BY <1>5 DEF AgentAccepts, InFlight, BatchFresh, Due, Fate
  <2>2. [k \in Rows |-> Fate(k)]' = [k \in Rows |-> Fate(k)]
    BY <1>5 DEF AgentAccepts, eventsVars, Fate
  <2>3. Promise!See(cur)
    BY <1>5, <2>1, <2>2 DEF AgentAccepts, tasksVars, eventsVars, Promise!See
  <2> QED BY <1>0, <2>1, <2>3 DEF Promise!Next
<1>6. ASSUME NEW k \in Rows, AgentAcceptsLate(k) PROVE Promise!Next
  <2>1. Fate(k) # "none"
    BY <1>6 DEF AgentAcceptsLate, Evidence, Fate
  <2>2. [e \in Rows |-> Fate(e)]' = [e \in Rows |-> Fate(e)]
    BY <1>6 DEF AgentAcceptsLate, eventsVars, Fate
  <2>3. Promise!See(k)
    BY <1>6, <2>1, <2>2 DEF AgentAcceptsLate, tasksVars, eventsVars, Promise!See
  <2> QED BY <1>0, <2>3 DEF Promise!Next
<1>7. CASE MarkDispatched
  <2>1. cur \in Rows /\ Fate(cur) = "owed" /\ accepted[cur]
    BY <1>7 DEF MarkDispatched, InFlight, BatchFresh, Due, Evidence, Fate
  <2>2. \A k \in Rows : Fate(k)' = IF k = cur THEN "delivered" ELSE Fate(k)
    BY <1>7, <2>1 DEF MarkDispatched, Fate
  <2>3. Promise!Deliver(cur)
    BY <1>0, <1>7, <2>1, <2>2 DEF MarkDispatched, tasksVars, agentVars, Promise!Deliver
  <2> QED BY <1>0, <2>1, <2>3 DEF Promise!Next
<1>8. CASE MarkFailed
  <2>1. cur \in Rows /\ Fate(cur) = "owed" /\ batch[cur] = attempts[cur]
        /\ attempts[cur] < MaxAttempts
    <3>1. cur \in Rows /\ status[cur] \in {"pending", "failed"} /\ batch[cur] = attempts[cur]
      BY <1>8 DEF MarkFailed, InFlight, BatchFresh, Due
    <3> QED BY <3>1, DaemonAssumption DEF AttemptsWithinCap, Fate
  <2>2. attempts' = [attempts EXCEPT ![cur] = attempts[cur] + 1]
    BY <1>8, <2>1 DEF MarkFailed, Bump
  <2>3. \A k \in Rows :
          Fate(k)' = IF k = cur
                     THEN IF attempts[cur] + 1 = MaxAttempts THEN "abandoned" ELSE "owed"
                     ELSE Fate(k)
    <3>1. IsDead(attempts[cur] + 1) <=> attempts[cur] + 1 = MaxAttempts
      BY <2>1, DaemonAssumption DEF IsDead
    <3>2. status' = [status EXCEPT ![cur] = FailedStatus(attempts[cur] + 1)]
      BY <1>8, <2>1 DEF MarkFailed, Bump
    <3>3. \A k \in Rows : status'[k] =
            IF k = cur THEN FailedStatus(attempts[cur] + 1) ELSE status[k]
      BY <3>2
    <3> QED BY <3>1, <3>3 DEF Fate, FailedStatus
  <2>4. Promise!Fail(cur)
    BY <1>0, <1>8, <2>1, <2>2, <2>3 DEF MarkFailed, tasksVars, agentVars, Promise!Fail
  <2> QED BY <1>0, <2>1, <2>4 DEF Promise!Next
<1> QED
  BY <1>1, <1>2, <1>3, <1>4, <1>5, <1>6, <1>7, <1>8
  DEF Next, ProcessorStep, ProcessorWake, FetchTasks, DispatcherStep, DispatcherWake,
      FetchPending, PostEvent, NoAgent, PostOk, PostError, FaultStep, FanoutError,
      FetchTasksError, FetchPendingError, AgentEndpointError, MarkError,
      OutsideStep, Register, ApplyCallback, Tick, vars, tasksVars, eventsVars, agentVars

\* The daemon, with its crashes, lost answers and stale snapshots, implements
\* the abstract delivery of Delivery.tla.
THEOREM DaemonImplementsDelivery == Spec => ImplementsDelivery
BY PromiseInit, PromiseStep, IInvHolds, PTL DEF Spec, ImplementsDelivery, Promise!Spec

\* An event is settled once: a row marked dispatched or dead keeps that status, its
\* attempts are never taken back, and an agent's acceptance is never forgotten.
Settles ==
  \A k \in Rows :
    /\ status[k] \in {"dispatched", "dead"} => status'[k] = status[k]
    /\ attempts'[k] >= attempts[k]
    /\ accepted[k] => accepted'[k]

\* No retry, late answer, second fanout or restart reopens a settled event.
THEOREM SettledOnce == Spec => [][Settles]_vars
<1>1. ASSUME IInv, IInv', [Promise!Next]_(Promise!vars), NEW k \in Rows
      PROVE  /\ status[k] \in {"dispatched", "dead"} => status'[k] = status[k]
             /\ attempts'[k] >= attempts[k]
             /\ accepted[k] => accepted'[k]
  <2>1. /\ status[k] \in EventStatus /\ status'[k] \in EventStatus
        /\ attempts \in [Rows -> Nat] /\ accepted \in [Rows -> BOOLEAN]
    BY <1>1 DEF IInv, TypeOK
  <2>2. /\ status[k] = "dispatched" <=> Fate(k) = "delivered"
        /\ status[k] = "dead" <=> Fate(k) = "abandoned"
        /\ status'[k] = "dispatched" <=> Fate(k)' = "delivered"
        /\ status'[k] = "dead" <=> Fate(k)' = "abandoned"
    BY <2>1 DEF Fate, EventStatus
  <2> DEFINE fate == [r \in Rows |-> Fate(r)]
  <2>3. fate[k] = Fate(k) /\ fate'[k] = Fate(k)'
    OBVIOUS
  <2>4. \/ \E r \in Requests :
             /\ fate' = [e \in Rows |->
                           IF e[1] = r /\ e[2] \in policy[r] /\ fate[e] = "none"
                           THEN "owed" ELSE fate[e]]
             /\ UNCHANGED <<accepted, attempts>>
        \/ \E r \in Rows : /\ accepted' = [accepted EXCEPT ![r] = TRUE]
                           /\ UNCHANGED <<fate, attempts>>
        \/ \E r \in Rows :
             /\ fate[r] = "owed"
             /\ attempts' = [attempts EXCEPT ![r] = attempts[r] + 1]
             /\ fate' = [fate EXCEPT ![r] = IF attempts[r] + 1 = MaxAttempts
                                            THEN "abandoned" ELSE "owed"]
             /\ UNCHANGED accepted
        \/ \E r \in Rows : /\ fate[r] = "owed"
                           /\ fate' = [fate EXCEPT ![r] = "delivered"]
                           /\ UNCHANGED <<accepted, attempts>>
        \/ UNCHANGED <<fate, accepted, attempts>>
    BY <1>1, Zenon DEF Promise!Next, Promise!vars, Promise!Pairs, Rows, Promise!Tell,
      Promise!Owe, Promise!Change, Promise!See, Promise!Fail, Promise!Deliver
  <2>5. fate \in [Rows -> {"none", "owed", "delivered", "abandoned"}]
    BY DEF Fate
  <2> HIDE DEF fate
  <2>6. fate[k] \in {"delivered", "abandoned"} => fate'[k] = fate[k]
    BY <2>4, <2>5
  <2>7. attempts'[k] >= attempts[k]
    BY <2>1, <2>4
  <2>8. accepted[k] => accepted'[k]
    BY <2>1, <2>4
  <2> QED BY <2>2, <2>3, <2>6, <2>7, <2>8
<1>2. IInv /\ IInv' /\ [Next]_vars => Settles
  BY <1>1, PromiseStep DEF Settles
<1> QED BY <1>2, IInvHolds, PTL DEF Spec
=============================================================================
