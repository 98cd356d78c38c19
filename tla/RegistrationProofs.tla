------------------------- MODULE RegistrationProofs -------------------------
(***************************************************************************)
(* Proofs about Registration for any number of generations, attempts and   *)
(* faults and any times.                                                   *)
(***************************************************************************)
EXTENDS Registration, TLAPS

\* Nobody has registered at the start.
LEMMA InitType == Init => TypeOK
BY RegistrationAssumption DEF Init, TypeOK

Steps == {"sent", "authorized", "ok", "error"}

\* A handler's progress changes one request's step and nothing else of it.
LEMMA StepType ==
  ASSUME TypeOK, NEW q \in requests, NEW s \in Steps, Step(q, s)
  PROVE  /\ requests' = (requests \ {q}) \cup {[gen |-> q.gen, try |-> q.try, step |-> s]}
         /\ requests' \subseteq [gen : 0 .. MaxGen, try : 0 .. MaxAttempts, step : Steps]
         /\ q.gen \in 0 .. MaxGen /\ q.try \in 0 .. MaxAttempts
<1>1. q \in [gen : 0 .. MaxGen, try : 0 .. MaxAttempts, step : Steps]
  BY DEF TypeOK, Steps
<1>2. [q EXCEPT !.step = s] = [gen |-> q.gen, try |-> q.try, step |-> s]
  BY <1>1
<1> QED BY <1>1, <1>2 DEF Step, TypeOK, Steps

\* Every step keeps the panel, the loop and the requests well typed.
LEMMA NextType == TypeOK /\ [Next]_vars => TypeOK'
<1> SUFFICES ASSUME TypeOK, [Next]_vars PROVE TypeOK'
  OBVIOUS
<1> USE DEF TypeOK, panel, agent, history
<1>1. CASE Start
  BY <1>1, RegistrationAssumption DEF Start, Post, Request
<1>2. CASE Timeout
  BY <1>2, RegistrationAssumption DEF Fault, Timeout, LeavesRequest
<1>3. CASE Retry
  BY <1>3, RegistrationAssumption DEF Retry, Post, Request
<1>4. CASE GiveUp
  BY <1>4 DEF GiveUp
<1>5. CASE Signal
  BY <1>5 DEF Signal, LeavesRequest
<1>6. ASSUME NEW q \in requests, Authorize(q) \/ Refused(q) \/ StatementError(q) PROVE TypeOK'
  <2>1. \E s \in Steps : Step(q, s)
    BY <1>6 DEF Authorize, Refused, StatementError, Steps
  <2>2. requests' \subseteq [gen : 0 .. MaxGen, try : 0 .. MaxAttempts, step : Steps]
    BY <2>1, StepType
  <2>3. UNCHANGED <<panel, agent, history>> /\ faults' \in Nat
    BY <1>6 DEF Authorize, Refused, StatementError, Fault
  <2> QED BY <2>2, <2>3 DEF Steps
<1>7. ASSUME NEW q \in requests, UpsertAgent(q) PROVE TypeOK'
  <2>1. requests' \subseteq [gen : 0 .. MaxGen, try : 0 .. MaxAttempts, step : Steps]
        /\ q.gen \in 0 .. MaxGen
    BY <1>7, StepType DEF UpsertAgent, Steps
  <2> QED BY <1>7, <2>1 DEF UpsertAgent, Steps
<1>8. ASSUME NEW q \in requests, Answer(q) PROVE TypeOK'
  <2>1. pc' \in {"registered", "wait"} /\ timer' \in Nat /\ acked' \in 0 .. MaxGen
    BY <1>8, RegistrationAssumption DEF Answer
  <2> QED BY <1>8, <2>1 DEF Answer
<1>9. CASE /\ requests' \subseteq [gen : 0 .. MaxGen, try : 0 .. MaxAttempts, step : Steps]
           /\ UNCHANGED <<gen, pc, attempt, row, acked, abandoned>>
           /\ up' \in BOOLEAN /\ active' \in BOOLEAN
           /\ timer' \in Nat /\ age' \in Nat /\ faults' \in Nat
  <2>1. /\ gen' \in 0 .. MaxGen /\ row' \in 0 .. MaxGen /\ acked' \in 0 .. MaxGen
        /\ attempt' \in 0 .. MaxAttempts /\ abandoned' \subseteq 0 .. MaxGen
        /\ pc' \in {"post", "wait", "registered", "gaveup", "stopped"}
    BY <1>9
  <2> QED BY <1>9, <2>1 DEF Steps
<1>10. requests \subseteq [gen : 0 .. MaxGen, try : 0 .. MaxAttempts, step : Steps]
  BY DEF Steps
<1>11. ASSUME NEW q \in requests, Cancelled(q) \/ Lost(q) PROVE TypeOK'
  <2>1. requests' \subseteq requests /\ faults' \in Nat /\ UNCHANGED <<panel, agent, history>>
    BY <1>11 DEF Cancelled, Lost, Fault
  <2> QED BY <1>9, <1>10, <2>1
<1>12. CASE PanelDown
  <2>1. /\ requests' = {[q EXCEPT !.step = "error"] : q \in {r \in requests : Awaited(r)}}
        /\ up' = FALSE /\ faults' \in Nat /\ UNCHANGED <<active, row, agent, history>>
    BY <1>12 DEF PanelDown, Fault
  <2>2. requests' \subseteq [gen : 0 .. MaxGen, try : 0 .. MaxAttempts, step : Steps]
    BY <1>10, <2>1 DEF Steps
  <2> QED BY <1>9, <2>1, <2>2
<1>13. CASE PanelUp \/ Revoke
  <2>1. up' \in BOOLEAN /\ active' \in BOOLEAN
    BY <1>13, Zenon DEF PanelUp, Revoke
  <2>2. UNCHANGED <<requests, row, agent, history>> /\ faults' \in Nat
    BY <1>13 DEF PanelUp, Revoke, Fault
  <2> QED BY <1>9, <1>10, <2>1, <2>2
<1>14. CASE Tick
  <2>1. UNCHANGED <<requests, panel, gen, pc, attempt, acked, abandoned, faults>>
        /\ timer' \in Nat /\ age' \in Nat
    BY <1>14 DEF Tick
  <2> QED BY <1>9, <1>10, <2>1
<1>15. CASE UNCHANGED vars
  BY <1>9, <1>10, <1>15 DEF vars
<1> QED
  BY <1>1, <1>2, <1>3, <1>4, <1>5, <1>6, <1>7, <1>8, <1>11, <1>12, <1>13, <1>14, <1>15
  DEF Next, LoopStep, HandlerStep

\* Type correctness; no attempt beyond registerMaxAttempts.
THEOREM TypeCorrect == Spec => []TypeOK
BY InitType, NextType, PTL DEF Spec

-----------------------------------------------------------------------------
\* No attempt has two requests, and none is ahead of the loop.
Single ==
  /\ \A q \in requests : q.gen <= gen /\ (q.gen = gen => q.try <= attempt)
  /\ \A q, r \in requests : q.gen = r.gen /\ q.try = r.try => q = r

\* A request that is not the one awaited was abandoned by its generation.
LeftBehind == \A q \in requests : Awaited(q) \/ q.gen \in abandoned

\* An upsert that was or will be reported is still in the row, or was overtaken by
\* a request that the generation in the row had abandoned.
Written == \A q \in requests : q.step = "ok" => row >= q.gen \/ row \in abandoned

\* No generation is told 204 before it started.
Past == acked <= gen

IInv == TypeOK /\ Past /\ Single /\ LeftBehind /\ Written /\ RowIsCurrent

\* Requests stay distinct, and awaited or abandoned.
LEMMA RequestsStep == IInv /\ [Next]_vars => Single' /\ LeftBehind'
<1> SUFFICES ASSUME IInv, [Next]_vars PROVE Single' /\ LeftBehind'
  OBVIOUS
<1> USE DEF IInv, TypeOK, panel, agent, history
<1>0. \A q \in requests : q.gen \in 0 .. gen /\ q.try \in 0 .. MaxAttempts
  BY DEF Single
<1>1. CASE Start
  <2>1. requests' = requests \cup {Request(gen + 1, 1)} /\ gen' = gen + 1 /\ attempt' = 1
        /\ pc' = "post" /\ pc = "stopped" /\ abandoned' = abandoned
    BY <1>1 DEF Start, Post
  <2>2. \A q \in requests : q.gen # gen + 1 /\ q.gen \in abandoned
    BY <1>0, <2>1 DEF LeftBehind, Awaited
  <2>3. Single'
    BY <2>1, <2>2 DEF Single, Request
  <2>4. LeftBehind'
    BY <2>1, <2>2 DEF LeftBehind, Awaited, Request
  <2> QED BY <2>3, <2>4
<1>2. CASE Retry
  <2>1. requests' = requests \cup {Request(gen, attempt + 1)} /\ gen' = gen
        /\ attempt' = attempt + 1 /\ pc' = "post" /\ pc = "wait" /\ abandoned' = abandoned
    BY <1>2 DEF Retry, Post
  <2>2. \A q \in requests : q.gen \in abandoned /\ (q.gen = gen => q.try <= attempt)
    BY <2>1 DEF LeftBehind, Awaited, Single
  <2>3. Single'
    BY <1>0, <2>1, <2>2 DEF Single, Request
  <2>4. LeftBehind'
    BY <2>1, <2>2 DEF LeftBehind, Awaited, Request
  <2> QED BY <2>3, <2>4
<1>3. CASE Timeout \/ Signal
  <2>1. UNCHANGED <<requests, gen, attempt>> /\ \A q \in requests : q.gen \in abandoned'
    BY <1>3 DEF Timeout, Signal, LeavesRequest, LeftBehind, Awaited
  <2> QED BY <2>1 DEF Single, LeftBehind
<1>4. ASSUME NEW q \in requests, Answer(q) PROVE Single' /\ LeftBehind'
  <2>1. requests' = requests \ {q} /\ UNCHANGED <<gen, attempt, abandoned>> /\ Awaited(q)
    BY <1>4 DEF Answer
  <2>2. \A r \in requests : Awaited(r) => r = q
    BY <2>1 DEF Single, Awaited
  <2>3. \A r \in requests' : r.gen \in abandoned
    BY <2>1, <2>2 DEF LeftBehind
  <2> QED BY <2>1, <2>3 DEF Single, LeftBehind
<1>5. ASSUME NEW q \in requests,
             Authorize(q) \/ Refused(q) \/ StatementError(q) \/ UpsertAgent(q)
      PROVE  Single' /\ LeftBehind'
  <2>1. UNCHANGED <<gen, pc, attempt, abandoned>> /\ \E s \in Steps : Step(q, s)
    BY <1>5 DEF Authorize, Refused, StatementError, UpsertAgent, Steps
  <2>2. PICK s \in Steps :
          requests' = (requests \ {q}) \cup {[gen |-> q.gen, try |-> q.try, step |-> s]}
    BY <2>1, StepType
  <2>3. Single'
    BY <2>1, <2>2 DEF Single
  <2>4. LeftBehind'
    BY <2>1, <2>2 DEF LeftBehind, Awaited
  <2> QED BY <2>3, <2>4
<1>6. CASE PanelDown
  <2>1. UNCHANGED <<gen, pc, attempt, abandoned>>
        /\ requests' = {[q EXCEPT !.step = "error"] : q \in {r \in requests : Awaited(r)}}
    BY <1>6 DEF PanelDown
  <2>2. \A q \in requests' : \E r \in requests :
          /\ Awaited(r)
          /\ q = [gen |-> r.gen, try |-> r.try, step |-> "error"]
    <3>1. \A r \in requests : [r EXCEPT !.step = "error"]
                                = [gen |-> r.gen, try |-> r.try, step |-> "error"]
      OBVIOUS
    <3> QED BY <2>1, <3>1
  <2>3. Single'
    BY <2>1, <2>2 DEF Single
  <2>4. LeftBehind'
    BY <2>1, <2>2 DEF LeftBehind, Awaited
  <2> QED BY <2>3, <2>4
<1>7. CASE requests' \subseteq requests /\ UNCHANGED <<gen, attempt, abandoned>>
           /\ (pc' = pc \/ pc # "post")
  BY <1>7 DEF Single, LeftBehind, Awaited
<1>8. ASSUME NEW q \in requests, Cancelled(q) \/ Lost(q) PROVE Single' /\ LeftBehind'
  BY <1>7, <1>8 DEF Cancelled, Lost
<1>9. CASE GiveUp \/ PanelUp \/ Revoke \/ Tick \/ UNCHANGED vars
  BY <1>7, <1>9 DEF GiveUp, PanelUp, Revoke, Tick, vars
<1> QED
  BY <1>1, <1>2, <1>3, <1>4, <1>5, <1>6, <1>8, <1>9 DEF Next, LoopStep, HandlerStep

\* A generation is told 204 while it runs.
LEMMA PastStep == IInv /\ [Next]_vars => Past'
<1> SUFFICES ASSUME IInv, [Next]_vars PROVE Past'
  OBVIOUS
<1>1. CASE acked' = acked /\ gen' \in {gen, gen + 1}
  BY <1>1 DEF IInv, TypeOK, Past
<1>2. ASSUME NEW q \in requests, Answer(q) PROVE Past'
  BY <1>2 DEF Answer, IInv, TypeOK, Past
<1> QED
  BY <1>1, <1>2
  DEF Next, LoopStep, HandlerStep, Start, Timeout, Retry, GiveUp, Signal, Authorize, UpsertAgent,
      Refused, StatementError, Cancelled, Lost, PanelDown, PanelUp, Revoke, Tick, vars,
      panel, agent, history

\* Only an upsert moves the row back, and only one that was abandoned.
LEMMA RowStep == IInv /\ [Next]_vars => Written' /\ RowIsCurrent'
<1> SUFFICES ASSUME IInv, [Next]_vars PROVE Written' /\ RowIsCurrent'
  OBVIOUS
<1> USE DEF IInv, TypeOK, panel, agent, history
<1>1. ASSUME NEW q \in requests, UpsertAgent(q) PROVE Written' /\ RowIsCurrent'
  <2>1. /\ row' = q.gen /\ UNCHANGED <<gen, acked, abandoned>>
        /\ requests' = (requests \ {q}) \cup {[gen |-> q.gen, try |-> q.try, step |-> "ok"]}
        /\ q.gen \in 0 .. gen
    BY <1>1, StepType DEF UpsertAgent, Steps, Single
  <2>2. q.gen = gen \/ q.gen \in abandoned
    BY DEF LeftBehind, Awaited
  <2>3. \A r \in requests : r.gen \in 0 .. gen
    BY DEF Single
  <2>4. ASSUME NEW g \in 0 .. gen, q.gen < g PROVE row' \in abandoned'
    BY <2>1, <2>2, <2>4
  <2>5. RowIsCurrent'
    <3>1. acked \in 0 .. gen
      BY DEF Past
    <3> QED BY <2>1, <2>4, <3>1 DEF RowIsCurrent
  <2>6. ASSUME NEW r \in requests' PROVE row' >= r.gen \/ row' \in abandoned'
    <3>1. r.gen \in 0 .. gen
      BY <2>1, <2>3
    <3> QED BY <2>1, <2>4, <3>1
  <2> QED BY <2>5, <2>6 DEF Written
<1>2. ASSUME NEW q \in requests, Answer(q) PROVE Written' /\ RowIsCurrent'
  <2>1. UNCHANGED <<row, abandoned>> /\ requests' \subseteq requests
        /\ (acked' = acked \/ (acked' = q.gen /\ q.step = "ok"))
    BY <1>2 DEF Answer, Awaited
  <2>2. row \in Nat /\ q.gen \in Nat
    OBVIOUS
  <2> QED BY <2>1, <2>2 DEF Written, RowIsCurrent
<1>3. ASSUME NEW q \in requests, Authorize(q) \/ Refused(q) \/ StatementError(q)
      PROVE  Written' /\ RowIsCurrent'
  <2>1. UNCHANGED <<row, acked, abandoned>>
        /\ \E s \in {"authorized", "error"} : Step(q, s)
    BY <1>3 DEF Authorize, Refused, StatementError
  <2>2. PICK s \in {"authorized", "error"} :
          requests' = (requests \ {q}) \cup {[gen |-> q.gen, try |-> q.try, step |-> s]}
    BY <2>1, StepType DEF Steps
  <2> QED BY <2>1, <2>2 DEF Written, RowIsCurrent
<1>4. CASE /\ UNCHANGED <<row, acked>> /\ abandoned \subseteq abandoned'
           /\ \A q \in requests' : q \in requests \/ q.step # "ok"
  BY <1>4 DEF Written, RowIsCurrent
<1>5. CASE Start \/ Retry
  BY <1>4, <1>5 DEF Start, Retry, Post, Request
<1>6. CASE PanelDown
  <2>1. \A q \in requests' : q.step = "error"
    BY <1>6 DEF PanelDown
  <2> QED BY <1>4, <1>6, <2>1 DEF PanelDown
<1>7. CASE Timeout \/ Signal \/ GiveUp \/ PanelUp \/ Revoke \/ Tick \/ UNCHANGED vars
  BY <1>4, <1>7 DEF Timeout, Signal, LeavesRequest, GiveUp, PanelUp, Revoke, Tick, vars
<1>8. ASSUME NEW q \in requests, Cancelled(q) \/ Lost(q) PROVE Written' /\ RowIsCurrent'
  BY <1>4, <1>8 DEF Cancelled, Lost
<1> QED
  BY <1>1, <1>2, <1>3, <1>5, <1>6, <1>7, <1>8 DEF Next, LoopStep, HandlerStep

\* The panel goes back to the endpoint of an ended agent only if that very agent
\* had given up on a request that scp-api was still handling.
THEOREM RegistrationIsCurrent == Spec => []RowIsCurrent
<1>1. Init => IInv
  <2> SUFFICES ASSUME Init PROVE IInv
    OBVIOUS
  <2>1. requests = {} /\ row = 0 /\ acked = 0 /\ gen = 0
    BY DEF Init
  <2> QED BY <2>1, InitType DEF IInv, Past, Single, LeftBehind, Written, RowIsCurrent
<1>2. IInv /\ [Next]_vars => IInv'
  BY NextType, RequestsStep, PastStep, RowStep DEF IInv
<1>3. IInv => RowIsCurrent
  BY DEF IInv
<1> QED BY <1>1, <1>2, <1>3, PTL DEF Spec

-----------------------------------------------------------------------------
\* The tries of a generation have cost it the waits between them.
Waited == IF pc = "wait" THEN RetryInterval - timer ELSE 0
Patience == /\ attempt > 0 => age >= (attempt - 1) * RetryInterval + Waited
            /\ attempt = 0 => pc = "stopped"
            /\ pc = "wait" => timer <= RetryInterval

\* A try after a full wait is one interval later than the try before it.
LEMMA OneMore ==
  ASSUME NEW n \in Nat, NEW r \in Nat PROVE (n - 1) * r + r = n * r
<1>1. (n - 1) * r = n * r - r
  OBVIOUS
<1> QED BY <1>1

\* No way to the next try is shorter than a full wait.
LEMMA PatienceStep == TypeOK /\ Patience /\ [Next]_vars => Patience'
<1> SUFFICES ASSUME TypeOK, Patience, [Next]_vars PROVE Patience'
  OBVIOUS
<1> DEFINE Before == (attempt - 1) * RetryInterval
<1>1. /\ attempt \in Nat /\ timer \in Nat /\ age \in Nat /\ RetryInterval \in Nat
      /\ Before \in Int /\ MaxAttempts \in Nat
  BY RegistrationAssumption DEF TypeOK
<1>2. CASE Start
  <2>1. attempt' = 1 /\ age' = 0 /\ pc' = "post" /\ (1 - 1) * RetryInterval = 0
    BY <1>1, <1>2 DEF Start, Post
  <2> QED BY <2>1 DEF Patience, Waited
<1>3. CASE Retry
  <2>1. /\ attempt' = attempt + 1 /\ age' = age /\ pc' = "post"
        /\ pc = "wait" /\ timer = 0
    BY <1>3 DEF Retry, Post, history
  <2>2. age >= Before + RetryInterval
    BY <1>1, <2>1 DEF Patience, Waited
  <2>3. (attempt' - 1) * RetryInterval = Before + RetryInterval
    BY <1>1, <2>1, OneMore
  <2> QED BY <1>1, <2>1, <2>2, <2>3 DEF Patience, Waited
<1>4. CASE Tick
  <2>1. /\ attempt' = attempt /\ pc' = pc /\ age' = age + 1 /\ timer' = timer - 1
    BY <1>4 DEF Tick
  <2>2. (attempt' - 1) * RetryInterval = Before
    BY <2>1
  <2> HIDE DEF Before
  <2> QED BY <1>1, <2>1, <2>2 DEF Patience, Waited
<1>5. CASE /\ UNCHANGED <<attempt, age>> /\ pc # "stopped"
           /\ \/ pc' = "wait" /\ timer' = RetryInterval
              \/ pc' # "wait"
  <2>1. age >= Before
    <3> HIDE DEF Before
    <3>1. attempt > 0 => age >= Before + Waited
      BY DEF Patience, Before
    <3> QED BY <1>1, <1>5, <3>1 DEF Patience, Waited
  <2>2. (attempt' - 1) * RetryInterval = Before
    BY <1>5
  <2>3. Waited' = 0
    BY <1>1, <1>5 DEF Waited
  <2> HIDE DEF Before
  <2> QED BY <1>1, <1>5, <2>1, <2>2, <2>3 DEF Patience
<1>6. CASE UNCHANGED <<pc, attempt, timer, age>>
  BY <1>6 DEF Patience, Waited
<1>7. ASSUME NEW q \in requests, Answer(q) PROVE Patience'
  BY <1>5, <1>7 DEF Answer, Awaited
<1>8. CASE Timeout \/ GiveUp \/ Signal
  BY <1>5, <1>8 DEF Timeout, GiveUp, Signal, history
<1> QED
  BY <1>2, <1>3, <1>4, <1>6, <1>7, <1>8
  DEF Next, LoopStep, HandlerStep, Authorize, UpsertAgent, Refused, StatementError, Cancelled,
      Lost, PanelDown, PanelUp, Revoke, vars, panel, agent, history

\* The last try of registerWithPanel starts no sooner than all waits before it
\* together after its first, however many tries there are and however they fail.
THEOREM TriesArePatient == Spec => []GivesUpLate
<1>1. Init => TypeOK /\ Patience
  BY InitType DEF Init, Patience
<1>2. TypeOK /\ Patience /\ [Next]_vars => (TypeOK /\ Patience)'
  BY NextType, PatienceStep
<1>3. TypeOK /\ Patience => GivesUpLate
  <2> SUFFICES ASSUME TypeOK, Patience, attempt = MaxAttempts
               PROVE  age >= (MaxAttempts - 1) * RetryInterval
    BY DEF GivesUpLate
  <2>1. /\ (attempt - 1) * RetryInterval \in Int /\ age \in Nat /\ attempt > 0
        /\ timer \in Nat /\ RetryInterval \in Nat
    BY RegistrationAssumption DEF TypeOK
  <2>2. Waited \in Nat
    BY <2>1 DEF Patience, Waited
  <2>3. age >= (attempt - 1) * RetryInterval + Waited
    BY <2>1 DEF Patience
  <2> QED BY <2>1, <2>2, <2>3
<1> QED BY <1>1, <1>2, <1>3, PTL DEF Spec

-----------------------------------------------------------------------------
\* What the tries so far may have cost, with what the one running still may.
PerTry == ClientTimeout + RetryInterval
Spent ==
  /\ age <= attempt * PerTry
  /\ pc = "post" => attempt > 0 /\ age + timer <= (attempt - 1) * PerTry + ClientTimeout
  /\ pc = "wait" => age + timer <= attempt * PerTry

\* Time passes only while a try's timer runs, and each try has its timers once.
LEMMA SpentStep == TypeOK /\ Spent /\ [Next]_vars => Spent'
<1> SUFFICES ASSUME TypeOK, Spent, [Next]_vars PROVE Spent'
  OBVIOUS
<1> DEFINE Upto == attempt * PerTry
           Before == (attempt - 1) * PerTry
<1>1. /\ attempt \in Nat /\ timer \in Nat /\ age \in Nat
      /\ RetryInterval \in Nat /\ ClientTimeout \in Nat /\ PerTry \in Nat
  BY RegistrationAssumption DEF TypeOK, PerTry
<1>2. Upto \in Int /\ Before \in Int
  BY <1>1
<1>3. Before + PerTry = Upto
  BY <1>1, OneMore
<1>4. CASE Start
  <2>1. attempt' = 1 /\ age' = 0 /\ pc' = "post" /\ timer' = ClientTimeout
    BY <1>4 DEF Start, Post
  <2>2. (1 - 1) * PerTry = 0 /\ 1 * PerTry = PerTry
    BY <1>1
  <2>3. age' <= attempt' * PerTry /\ age' + timer' <= (attempt' - 1) * PerTry + ClientTimeout
    BY <1>1, <2>1, <2>2
  <2> QED BY <2>1, <2>3 DEF Spent, PerTry
<1>5. CASE Retry
  <2>1. /\ attempt' = attempt + 1 /\ age' = age /\ pc' = "post"
        /\ timer' = ClientTimeout /\ pc = "wait" /\ timer = 0
    BY <1>5 DEF Retry, Post, history
  <2>2. age <= Upto
    BY <1>1, <2>1 DEF Spent
  <2>3. (attempt' - 1) * PerTry = Upto /\ attempt' * PerTry = Upto + PerTry
    <3>1. attempt' - 1 = attempt /\ attempt' \in Nat
      BY <1>1, <2>1
    <3>2. (attempt' - 1) * PerTry + PerTry = attempt' * PerTry
      BY <1>1, <3>1, OneMore
    <3> QED BY <3>1, <3>2
  <2>4. age' <= attempt' * PerTry /\ age' + timer' <= (attempt' - 1) * PerTry + ClientTimeout
    <3> HIDE DEF Upto
    <3> QED BY <1>1, <1>2, <2>1, <2>2, <2>3
  <2>5. attempt' > 0
    BY <1>1, <2>1
  <2> QED BY <2>1, <2>4, <2>5 DEF Spent, PerTry
<1>6. CASE Tick
  <2>1. /\ attempt' = attempt /\ pc' = pc /\ age' = age + 1 /\ timer' = timer - 1
        /\ timer > 0 /\ pc \in {"post", "wait"}
    BY <1>6 DEF Tick, Trying
  <2>2. attempt' * PerTry = Upto /\ (attempt' - 1) * PerTry = Before
    BY <2>1
  <2>3. /\ pc = "post" => attempt > 0 /\ age + timer <= Before + ClientTimeout
        /\ pc = "wait" => age + timer <= Upto
    BY DEF Spent
  <2>4. PerTry >= ClientTimeout
    BY <1>1 DEF PerTry
  <2> HIDE DEF Upto, Before
  <2>5. /\ age' <= Upto
        /\ pc' = "post" => attempt' > 0 /\ age' + timer' <= Before + ClientTimeout
        /\ pc' = "wait" => age' + timer' <= Upto
    BY <1>1, <1>2, <1>3, <2>1, <2>3, <2>4
  <2> QED BY <2>2, <2>5 DEF Spent
<1>7. CASE UNCHANGED <<attempt, age>> /\ pc = "post" /\ pc' = "wait" /\ timer' = RetryInterval
  <2>1. age + timer <= Before + ClientTimeout /\ age <= Upto
    BY <1>7 DEF Spent
  <2>2. attempt' * PerTry = Upto
    BY <1>7
  <2>3. PerTry = ClientTimeout + RetryInterval
    BY DEF PerTry
  <2> HIDE DEF Upto, Before
  <2>4. age' <= Upto /\ age' + timer' <= Upto
    BY <1>1, <1>2, <1>3, <1>7, <2>1, <2>3
  <2> QED BY <1>7, <2>2, <2>4 DEF Spent
<1>8. CASE UNCHANGED <<attempt, age>> /\ pc' \notin {"post", "wait"}
  BY <1>8 DEF Spent
<1>9. CASE UNCHANGED <<pc, attempt, timer, age>>
  BY <1>9 DEF Spent
<1>10. ASSUME NEW q \in requests, Answer(q) PROVE Spent'
  BY <1>7, <1>8, <1>10 DEF Answer, Awaited
<1>11. CASE Timeout \/ GiveUp \/ Signal
  BY <1>7, <1>8, <1>11 DEF Timeout, GiveUp, Signal, history
<1> QED
  BY <1>4, <1>5, <1>6, <1>9, <1>10, <1>11
  DEF Next, LoopStep, HandlerStep, Authorize, UpsertAgent, Refused, StatementError, Cancelled,
      Lost, PanelDown, PanelUp, Revoke, vars, panel, agent, history

\* More tries cost more.
LEMMA MoreTries ==
  ASSUME NEW m \in Nat, NEW n \in 0 .. m, NEW c \in Nat PROVE n * c <= m * c
<1>1. (m - n) * c >= 0 /\ (m - n) * c = m * c - n * c
  OBVIOUS
<1>2. m * c \in Int /\ n * c \in Int
  OBVIOUS
<1> QED BY <1>1, <1>2

\* A registration takes no longer than a timeout and a wait for each of its tries,
\* for any number of tries and any times, whatever the panel and the network do.
THEOREM RegistrationIsBounded == Spec => []GivesUpInTime
<1>1. Init => TypeOK /\ Spent
  <2> SUFFICES ASSUME Init PROVE Spent
    BY InitType
  <2>1. 0 * PerTry = 0
    BY RegistrationAssumption DEF PerTry
  <2> QED BY <2>1 DEF Init, Spent
<1>2. TypeOK /\ Spent /\ [Next]_vars => (TypeOK /\ Spent)'
  BY NextType, SpentStep
<1>3. TypeOK /\ Spent => GivesUpInTime
  <2> SUFFICES ASSUME TypeOK, Spent PROVE age <= MaxAttempts * PerTry
    BY DEF GivesUpInTime, PerTry
  <2>1. attempt * PerTry <= MaxAttempts * PerTry
    <3>1. MaxAttempts \in Nat /\ attempt \in 0 .. MaxAttempts /\ PerTry \in Nat
      BY RegistrationAssumption DEF TypeOK, PerTry
    <3> QED BY <3>1, MoreTries
  <2>2. attempt * PerTry \in Int /\ MaxAttempts * PerTry \in Int /\ age \in Nat
    BY RegistrationAssumption DEF TypeOK, PerTry
  <2> QED BY <2>1, <2>2 DEF Spent
<1> QED BY <1>1, <1>2, <1>3, PTL DEF Spec
=============================================================================
