---------------------------- MODULE Registration ----------------------------
(***************************************************************************)
(* How the agent of one cluster gets its endpoint into the agents table:   *)
(* registerWithPanel tries six times, scp-api authorizes and upserts.  Each *)
(* restart of the agent is a generation with an endpoint of its own; it    *)
(* registers once, at its start, after the process before it has ended.    *)
(* The handler of a request a client has given up may still be running.    *)
(***************************************************************************)
EXTENDS Integers

CONSTANTS
  MaxGen,         \* bound: generations of the agent
  MaxAttempts,    \* registerMaxAttempts
  ClientTimeout,  \* Timeout of the http.Client
  RetryInterval,  \* registerRetryInterval, in the same unit
  MaxFaults       \* bound: faults of network, database, panel and token

ASSUME RegistrationAssumption ==
  /\ MaxGen \in Nat /\ MaxFaults \in Nat
  /\ MaxAttempts \in Nat \ {0}
  /\ ClientTimeout \in Nat /\ RetryInterval \in Nat

VARIABLES
  up,         \* scp-api is running
  active,     \* the panel token is active in api_tokens
  row,        \* generation whose endpoint the agents row has, 0 without a row
  gen,        \* the agent's generation, 0 before the first
  pc,         \* where its registerWithPanel is
  attempt,    \* its attempts so far
  timer,      \* time left of its request or its wait
  requests,   \* requests on their way, in a handler, or answered
  acked,      \* history: the last generation that was told 204
  abandoned,  \* history: generations that gave up a request still being handled
  age,        \* history: time this generation has spent registering
  faults      \* bound: faults used

panel == <<up, active, row>>
agent == <<gen, pc, attempt, timer>>
history == <<acked, abandoned, age>>
vars == <<panel, agent, requests, history, faults>>

Request(g, n) == [gen |-> g, try |-> n, step |-> "sent"]
Trying == pc \in {"post", "wait"}
Awaited(q) == pc = "post" /\ q.gen = gen /\ q.try = attempt

TypeOK ==
  /\ up \in BOOLEAN /\ active \in BOOLEAN
  /\ gen \in 0 .. MaxGen /\ row \in 0 .. MaxGen /\ acked \in 0 .. MaxGen
  /\ pc \in {"post", "wait", "registered", "gaveup", "stopped"}
  /\ attempt \in 0 .. MaxAttempts
  /\ timer \in Nat /\ age \in Nat
  /\ requests \subseteq [gen : 0 .. MaxGen, try : 0 .. MaxAttempts,
                         step : {"sent", "authorized", "ok", "error"}]
  /\ abandoned \subseteq 0 .. MaxGen
  /\ faults \in Nat

Init ==
  /\ up = TRUE /\ active = TRUE /\ row = 0
  /\ gen = 0 /\ pc = "stopped" /\ attempt = 0 /\ timer = 0
  /\ requests = {}
  /\ acked = 0 /\ abandoned = {} /\ age = 0
  /\ faults = 0

Fault == faults < MaxFaults /\ faults' = faults + 1

-----------------------------------------------------------------------------
(* registerWithPanel *)

Post(g, n) ==
  /\ pc' = "post" /\ attempt' = n /\ timer' = ClientTimeout
  /\ requests' = requests \cup {Request(g, n)}

Start ==
  /\ pc = "stopped" /\ gen < MaxGen
  /\ gen' = gen + 1 /\ age' = 0
  /\ Post(gen + 1, 1)
  /\ UNCHANGED <<panel, acked, abandoned, faults>>

\* client.Do returned: 204 ends the loop, an error or any other status does not.
Answer(q) ==
  /\ q.step \in {"ok", "error"} /\ Awaited(q)
  /\ requests' = requests \ {q}
  /\ IF q.step = "ok" THEN pc' = "registered" /\ timer' = 0 /\ acked' = gen
     ELSE pc' = "wait" /\ timer' = RetryInterval /\ UNCHANGED acked
  /\ UNCHANGED <<panel, gen, attempt, abandoned, age, faults>>

\* Whoever goes on or ends without its answer leaves its request behind.
LeavesRequest ==
  abandoned' = IF \E q \in requests : q.gen = gen THEN abandoned \cup {gen} ELSE abandoned

\* client.Do timed out: a request got lost, or its handler is slow, a fault.
TimeoutNever == pc = "post" /\ FALSE /\ UNCHANGED vars
Timeout ==
  /\ pc = "post" /\ timer = 0
  /\ IF \E q \in requests : Awaited(q) THEN Fault ELSE UNCHANGED faults
  /\ pc' = "wait" /\ timer' = RetryInterval
  /\ LeavesRequest
  /\ UNCHANGED <<panel, gen, attempt, requests, acked, age>>

RetryAtOnce ==
  /\ pc = "wait" /\ attempt < MaxAttempts
  /\ Post(gen, attempt + 1)
  /\ UNCHANGED <<panel, gen, history, faults>>
RetryUncounted ==
  /\ pc = "wait" /\ timer = 0 /\ attempt <= MaxAttempts
  /\ Post(gen, attempt + 1)
  /\ UNCHANGED <<panel, gen, history, faults>>
Retry ==
  /\ pc = "wait" /\ timer = 0 /\ attempt < MaxAttempts
  /\ Post(gen, attempt + 1)
  /\ UNCHANGED <<panel, gen, history, faults>>

\* The loop ends after the wait that follows the last attempt.
GiveUp ==
  /\ pc = "wait" /\ timer = 0 /\ attempt = MaxAttempts
  /\ pc' = "gaveup"
  /\ UNCHANGED <<panel, gen, attempt, timer, requests, history, faults>>

\* SIGTERM cancels the request or the wait, and the process ends.
Signal ==
  /\ pc # "stopped"
  /\ pc' = "stopped" /\ timer' = 0
  /\ LeavesRequest
  /\ UNCHANGED <<panel, gen, attempt, requests, acked, age, faults>>

-----------------------------------------------------------------------------
(* scp-api: handleRegister, authorize, ValidateToken, UpsertAgent *)

Step(q, s) == requests' = (requests \ {q}) \cup {[q EXCEPT !.step = s]}

\* The token of every generation is one row of api_tokens.
ValidateToken == active

Authorize(q) ==
  /\ up /\ q.step = "sent"
  /\ Step(q, IF ValidateToken THEN "authorized" ELSE "error")
  /\ UNCHANGED <<panel, agent, history, faults>>

\* INSERT INTO agents ... ON CONFLICT (cluster) DO UPDATE, then 204.
UpsertAgentKeepsFirst(q) ==
  /\ up /\ q.step = "authorized"
  /\ row' = IF row = 0 THEN q.gen ELSE row
  /\ Step(q, "ok")
  /\ UNCHANGED <<up, active, agent, history, faults>>
UpsertAgent(q) ==
  /\ up /\ q.step = "authorized"
  /\ row' = q.gen
  /\ Step(q, "ok")
  /\ UNCHANGED <<up, active, agent, history, faults>>

\* A statement failed: 500.
StatementError(q) ==
  /\ up /\ q.step \in {"sent", "authorized"} /\ Fault
  /\ Step(q, "error")
  /\ UNCHANGED <<panel, agent, history>>

\* The client is gone: r.Context() ends the handler, or its answer has no reader.
Cancelled(q) ==
  /\ ~Awaited(q)
  /\ requests' = requests \ {q}
  /\ UNCHANGED <<panel, agent, history, faults>>

Refused(q) ==
  /\ ~up /\ q.step = "sent"
  /\ Step(q, "error")
  /\ UNCHANGED <<panel, agent, history, faults>>

\* The network loses a request or its answer.
Lost(q) ==
  /\ Fault
  /\ requests' = requests \ {q}
  /\ UNCHANGED <<panel, agent, history>>

\* scp-api ends: its handlers too, and the clients see their connections reset.
PanelDown ==
  /\ up /\ Fault
  /\ up' = FALSE
  /\ requests' = {[q EXCEPT !.step = "error"] : q \in {r \in requests : Awaited(r)}}
  /\ UNCHANGED <<active, row, agent, history>>

PanelUp == ~up /\ up' = TRUE /\ UNCHANGED <<active, row, agent, requests, history, faults>>

\* An operator deactivates the panel token, or activates it again.
Revoke ==
  /\ Fault
  /\ active' = ~active
  /\ UNCHANGED <<up, row, agent, requests, history>>

Tick ==
  /\ Trying /\ timer > 0
  /\ timer' = timer - 1 /\ age' = age + 1
  /\ UNCHANGED <<panel, gen, pc, attempt, requests, acked, abandoned, faults>>

-----------------------------------------------------------------------------
LoopStep == Timeout \/ Retry \/ GiveUp
HandlerStep(q) == Authorize(q) \/ UpsertAgent(q) \/ Refused(q) \/ Answer(q)

Next ==
  \/ Start \/ LoopStep \/ Signal
  \/ \E q \in requests : HandlerStep(q) \/ StatementError(q) \/ Cancelled(q) \/ Lost(q)
  \/ PanelDown \/ PanelUp \/ Revoke \/ Tick

Spec == Init /\ [][Next]_vars

\* Goroutines and handlers run and time passes; panel and token may stay away.
FairSpec ==
  /\ Spec
  /\ WF_vars(LoopStep) /\ WF_vars(\E q \in requests : HandlerStep(q)) /\ WF_vars(Tick)

-----------------------------------------------------------------------------
(* Properties *)

\* Once a generation was told 204 the panel posts to it and not to one before it,
\* unless that very one had left a request behind in scp-api, which overtook: an
\* agent that never gave up a request never comes back.
RowIsCurrent == row < acked => row \in abandoned

\* The last try comes no sooner than all the waits before it together, fifty
\* seconds: no shorter outage uses up the tries, however each of them failed,
\* refused, rejected, timed out or lost.  (The wait after it is of no use.)
GivesUpLate == attempt = MaxAttempts => age >= (MaxAttempts - 1) * RetryInterval

\* However slow or unanswered its requests are, a generation spends no more on
\* registering than a timeout and a wait per try, ninety seconds in all.
GivesUpInTime == age <= MaxAttempts * (ClientTimeout + RetryInterval)

\* registerWithPanel ends: registered, given up or stopped, never hung.
RegistrationEnds == Trying ~> ~Trying
=============================================================================
