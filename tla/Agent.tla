------------------------------- MODULE Agent --------------------------------
(***************************************************************************)
(* scp-agent: the handler that patches the ExternalSecrets of a Vault path *)
(* and starts a Watch, the Watch that polls their refreshTime and calls    *)
(* the panel back, and the shutdown of the process.  Several deliveries of *)
(* one event are handled at once.  Every Kubernetes or HTTP call is a      *)
(* step; ESO reconciles and the cluster's users change the ExternalSecrets *)
(* between any two of them.  Time is counted in ticks, Res to a second,    *)
(* because refreshTime is written in whole seconds and patchedAt is not.   *)
(***************************************************************************)
EXTENDS Integers

CONSTANTS
  Deliveries,       \* POSTs of the event that reach handleEvents
  Secrets,          \* ExternalSecrets whose annotation lists the path
  Res,              \* ticks per second
  PollTimeout,      \* pollTimeout in ticks
  ShutdownTimeout,  \* shutdownTimeout in ticks
  MaxTime,          \* bound: ticks
  MaxFaults         \* bound: failed Kubernetes and panel calls

ASSUME AgentAssumption ==
  /\ Res \in Nat \ {0}
  /\ PollTimeout \in Nat /\ ShutdownTimeout \in Nat
  /\ MaxTime \in Nat /\ MaxFaults \in Nat

Never == -1

VARIABLES
  now,          \* the clock
  present,      \* ExternalSecrets that exist
  gone,         \* bound: ExternalSecrets deleted, never created again
  reconciledAt, \* ESO: time of the last reconcile, Never before the first
  step,         \* what a delivery's handler or Watch is doing
  patchedAt,    \* time.Now() at the start of the handler
  listed,       \* ExternalSecrets Patch matched
  todo,         \* of these, the ones Patch has not come to yet
  patched,      \* history: ExternalSecrets whose annotation was bumped
  failed,       \* errsAll is not empty
  deadline,     \* when the Watch's context expires
  result,       \* the Synced of the Callback
  synced,       \* panel: events.synced
  process,      \* "serving", "closed" (ListenAndServe returned) or "exited"
  closer,       \* shutdown goroutine: "signal", "shutdown", "wait", "done"
  stopAt,       \* when shutCtx expires
  faults        \* bound: faults used

cluster  == <<present, gone, reconciledAt>>
handler  == <<step, patchedAt, listed, todo, patched, failed, deadline, result>>
shutdown == <<process, closer, stopAt>>
vars == <<now, cluster, handler, synced, shutdown, faults>>

\* The value metav1.Time keeps of a reconcile.
RefreshTime(s) == reconciledAt[s] \div Res

Handling == {"list", "patch"}
Watching == {"poll", "callback"}

TypeOK ==
  /\ now \in Nat
  /\ present \subseteq Secrets /\ gone \subseteq Secrets
  /\ reconciledAt \in [Secrets -> Nat \cup {Never}]
  /\ step \in [Deliveries -> {"new", "refused"} \cup Handling \cup Watching
                             \cup {"done"}]
  /\ patchedAt \in [Deliveries -> Nat]
  /\ listed \in [Deliveries -> SUBSET Secrets]
  /\ todo \in [Deliveries -> SUBSET Secrets]
  /\ patched \in [Deliveries -> SUBSET Secrets]
  /\ failed \in [Deliveries -> BOOLEAN]
  /\ deadline \in [Deliveries -> Nat]
  /\ result \in [Deliveries -> {"null", "true", "false"}]
  /\ synced \in {"null", "true", "false"}
  /\ process \in {"serving", "closed", "exited"}
  /\ closer \in {"signal", "shutdown", "wait", "done"}
  /\ stopAt \in Nat
  /\ faults \in Nat

Init ==
  /\ now = 0
  /\ present \in SUBSET Secrets /\ gone = {}
  /\ reconciledAt = [s \in Secrets |-> IF s \in present THEN 0 ELSE Never]
  /\ step = [d \in Deliveries |-> "new"]
  /\ patchedAt = [d \in Deliveries |-> 0]
  /\ listed = [d \in Deliveries |-> {}]
  /\ todo = [d \in Deliveries |-> {}]
  /\ patched = [d \in Deliveries |-> {}]
  /\ failed = [d \in Deliveries |-> FALSE]
  /\ deadline = [d \in Deliveries |-> 0]
  /\ result = [d \in Deliveries |-> "null"]
  /\ synced = "null"
  /\ process = "serving" /\ closer = "signal" /\ stopAt = 0
  /\ faults = 0

Alive == process # "exited"
Fault == faults < MaxFaults /\ faults' = faults + 1
\* A deadline has passed; the bound on the clock stands for every later time.
Expired(t) == now >= t \/ now = MaxTime

Goto(d, s) == step' = [step EXCEPT ![d] = s]

-----------------------------------------------------------------------------
(* handleEvents and Patch *)

\* An authorized, well-formed POST: the handler takes the time.
HandleEvent(d) ==
  /\ Alive /\ closer = "signal" /\ step[d] = "new"
  /\ patchedAt' = [patchedAt EXCEPT ![d] = now]
  /\ Goto(d, "list")
  /\ UNCHANGED <<now, cluster, listed, todo, patched, failed, deadline, result,
                 synced, shutdown, faults>>

\* Patch lists the ExternalSecrets whose annotation matches.
ListSecrets(d) ==
  /\ Alive /\ step[d] = "list"
  /\ listed' = [listed EXCEPT ![d] = present]
  /\ todo' = [todo EXCEPT ![d] = present]
  /\ Goto(d, "patch")
  /\ UNCHANGED <<now, cluster, patchedAt, patched, failed, deadline, result,
                 synced, shutdown, faults>>

\* The List of Patch fails: 500.
ListError(d) ==
  /\ Alive /\ step[d] = "list" /\ Fault
  /\ Goto(d, "refused")
  /\ UNCHANGED <<now, cluster, patchedAt, listed, todo, patched, failed, deadline,
                 result, synced, shutdown>>

\* One ExternalSecret is patched, or was deleted since the List: NotFound.
PatchOne(d, s) ==
  /\ Alive /\ step[d] = "patch" /\ s \in todo[d]
  /\ todo' = [todo EXCEPT ![d] = @ \ {s}]
  /\ patched' = [patched EXCEPT ![d] = @ \cup (present \cap {s})]
  /\ UNCHANGED <<now, cluster, step, patchedAt, listed, failed, deadline, result,
                 synced, shutdown, faults>>

\* Another error, or the dispatcher gave up and the request's context is
\* cancelled: kept in errsAll, and Patch goes on with the next one.
PatchOneErrorIgnored(d, s) ==
  /\ Alive /\ step[d] = "patch" /\ s \in todo[d] /\ Fault
  /\ todo' = [todo EXCEPT ![d] = @ \ {s}]
  /\ UNCHANGED <<now, cluster, step, patchedAt, listed, patched, failed, deadline,
                 result, synced, shutdown>>
PatchOneError(d, s) ==
  /\ Alive /\ step[d] = "patch" /\ s \in todo[d] /\ Fault
  /\ todo' = [todo EXCEPT ![d] = @ \ {s}]
  /\ failed' = [failed EXCEPT ![d] = TRUE]
  /\ UNCHANGED <<now, cluster, step, patchedAt, listed, patched, deadline, result,
                 synced, shutdown>>

\* Patch returns: 500 after an error, else Watch starts and 202 is sent.
PatchReturnsExpired(d) ==
  /\ Alive /\ step[d] = "patch" /\ todo[d] = {}
  /\ Goto(d, IF failed[d] THEN "refused" ELSE "poll")
  /\ deadline' = [deadline EXCEPT ![d] = now - PollTimeout]
  /\ UNCHANGED <<now, cluster, patchedAt, listed, todo, patched, failed, result,
                 synced, shutdown, faults>>
PatchReturns(d) ==
  /\ Alive /\ step[d] = "patch" /\ todo[d] = {}
  /\ Goto(d, IF failed[d] THEN "refused" ELSE "poll")
  /\ deadline' = [deadline EXCEPT ![d] = now + PollTimeout]
  /\ UNCHANGED <<now, cluster, patchedAt, listed, todo, patched, failed, result,
                 synced, shutdown, faults>>

-----------------------------------------------------------------------------
(* watch, pollUntilSynced, allSynced, sendCallback *)

\* allSynced: there are matching ExternalSecrets and all are refreshed.
SomeSynced(d) == \E s \in present : RefreshTime(s) >= patchedAt[d] \div Res
AllSynced(d) ==
  /\ present # {}
  /\ \A s \in present :
       reconciledAt[s] # Never /\ RefreshTime(s) >= patchedAt[d] \div Res

\* A poll that finds all of them refreshed; the ones that do not change nothing.
PollSynced(d) ==
  /\ Alive /\ step[d] = "poll" /\ now <= deadline[d] /\ AllSynced(d)
  /\ result' = [result EXCEPT ![d] = "true"]
  /\ Goto(d, "callback")
  /\ UNCHANGED <<now, cluster, patchedAt, listed, todo, patched, failed, deadline,
                 synced, shutdown, faults>>

\* The context expires; every List since then has failed.
PollTimesOutOnlyIfMatched(d) ==
  /\ Alive /\ step[d] = "poll" /\ Expired(deadline[d]) /\ present # {}
  /\ result' = [result EXCEPT ![d] = "false"]
  /\ Goto(d, "callback")
  /\ UNCHANGED <<now, cluster, patchedAt, listed, todo, patched, failed, deadline,
                 synced, shutdown, faults>>
PollTimesOut(d) ==
  /\ Alive /\ step[d] = "poll" /\ Expired(deadline[d])
  /\ result' = [result EXCEPT ![d] = "false"]
  /\ Goto(d, "callback")
  /\ UNCHANGED <<now, cluster, patchedAt, listed, todo, patched, failed, deadline,
                 synced, shutdown, faults>>

\* The panel applies the callback; ApplyCallback overwrites what is there.
CallbackApplied(d) ==
  /\ Alive /\ step[d] = "callback"
  /\ synced' = result[d]
  /\ Goto(d, "done")
  /\ UNCHANGED <<now, cluster, patchedAt, listed, todo, patched, failed, deadline,
                 result, shutdown, faults>>

\* The callback fails; it is logged and not sent again.
CallbackLost(d) ==
  /\ Alive /\ step[d] = "callback" /\ Fault
  /\ Goto(d, "done")
  /\ UNCHANGED <<now, cluster, patchedAt, listed, todo, patched, failed, deadline,
                 result, synced, shutdown>>

-----------------------------------------------------------------------------
(* Kubernetes, ESO and time *)

\* ESO reconciles one ExternalSecret: its own interval or a bumped annotation.
Reconcile(s) ==
  /\ s \in present
  /\ reconciledAt' = [reconciledAt EXCEPT ![s] = now]
  /\ UNCHANGED <<now, present, gone, handler, synced, shutdown, faults>>

CreateSecret(s) ==
  /\ s \notin present \cup gone
  /\ present' = present \cup {s}
  /\ UNCHANGED <<now, gone, reconciledAt, handler, synced, shutdown, faults>>

DeleteSecret(s) ==
  /\ s \in present
  /\ present' = present \ {s} /\ gone' = gone \cup {s}
  /\ UNCHANGED <<now, reconciledAt, handler, synced, shutdown, faults>>

Tick ==
  /\ now < MaxTime
  /\ now' = now + 1
  /\ UNCHANGED <<cluster, handler, synced, shutdown, faults>>

-----------------------------------------------------------------------------
(* run: the signal, the shutdown goroutine and main *)

\* The signal cancels ctx; Shutdown closes the listener at once, so
\* ListenAndServe returns to run while Shutdown still waits for handlers.
Signal ==
  /\ process = "serving"
  /\ process' = "closed" /\ closer' = "shutdown"
  /\ stopAt' = now + ShutdownTimeout
  /\ UNCHANGED <<now, cluster, handler, synced, faults>>

\* Shutdown returns: no request is being handled, or shutCtx expired.
ShutdownReturns ==
  /\ Alive /\ closer = "shutdown"
  /\ (\A d \in Deliveries : step[d] \notin Handling) \/ Expired(stopAt)
  /\ closer' = "wait"
  /\ UNCHANGED <<now, cluster, handler, synced, process, stopAt, faults>>

\* w.Wait returns: no Watch is running, or shutCtx expired.
WaitReturns ==
  /\ Alive /\ closer = "wait"
  /\ (\A d \in Deliveries : step[d] \notin Watching) \/ Expired(stopAt)
  /\ closer' = "done"
  /\ UNCHANGED <<now, cluster, handler, synced, process, stopAt, faults>>

\* run returns nil and main ends: every goroutine is gone.
MainReturns ==
  /\ process = "closed"
  /\ process' = "exited"
  /\ UNCHANGED <<now, cluster, handler, synced, closer, stopAt, faults>>

-----------------------------------------------------------------------------
HandlerStep(d) ==
  ListSecrets(d) \/ PatchReturns(d) \/ \E s \in Secrets : PatchOne(d, s)

WatchStep(d) == PollSynced(d) \/ PollTimesOut(d) \/ CallbackApplied(d)

FaultStep(d) ==
  ListError(d) \/ CallbackLost(d) \/ \E s \in Secrets : PatchOneError(d, s)

Next ==
  \/ \E d \in Deliveries :
       HandleEvent(d) \/ HandlerStep(d) \/ WatchStep(d) \/ FaultStep(d)
  \/ \E s \in Secrets : Reconcile(s) \/ CreateSecret(s) \/ DeleteSecret(s)
  \/ Signal \/ ShutdownReturns \/ WaitReturns \/ MainReturns
  \/ Tick

Spec == Init /\ [][Next]_vars

\* The goroutines run and time passes; Kubernetes and ESO owe nothing.
FairSpec ==
  /\ Spec /\ WF_vars(Tick)
  /\ \A d \in Deliveries : WF_vars(HandlerStep(d)) /\ WF_vars(WatchStep(d))

-----------------------------------------------------------------------------
(* Properties *)

\* What the panel's synced=true is worth: for one of the deliveries, every
\* ExternalSecret it patched that still exists was reconciled less than a
\* second before that delivery arrived, or later.
SyncedIsRecent ==
  synced = "true" =>
    \E d \in Deliveries :
      /\ result[d] = "true"
      /\ \A s \in patched[d] \cap present : reconciledAt[s] > patchedAt[d] - Res

\* 202 is the agent's word that every ExternalSecret it matched was bumped:
\* whichever is missing was deleted meanwhile.
AcceptedMeansPatched ==
  \A d \in Deliveries :
    step[d] \in Watching \cup {"done"} => listed[d] \ patched[d] \subseteq gone

\* Every handler that patches and every Watch ends while the process lives,
\* although ExternalSecrets never refresh, disappear or never existed.
EveryWatchEnds ==
  \A d \in Deliveries :
    step[d] \in Handling \cup Watching ~>
      step[d] \in {"done", "refused"} \/ process = "exited"

\* The Callback confirms that ESO reconciled after the patch.
SyncedAfterPatch ==
  \A d \in Deliveries :
    result[d] = "true" /\ step[d] = "callback" =>
      \E s \in Secrets : reconciledAt[s] >= patchedAt[d]

\* The process exits only when no Watch is running, or after shutdownTimeout.
ExitWaitsForWatches ==
  process = "exited" =>
    now >= stopAt \/ \A d \in Deliveries : step[d] \notin Watching
=============================================================================
