----------------------------- MODULE AuditStream ----------------------------
(***************************************************************************)
(* scp-listener between Vault's socket audit devices and Store.Ingest: one *)
(* goroutine per connection scans and parses lines and sends the events    *)
(* into one bounded channel, pump takes them out and ingests them, and run *)
(* starts and joins both.  Ingest is one step here; Ingest.tla opens it.   *)
(***************************************************************************)
EXTENDS Integers, Sequences, FiniteSets

CONSTANTS
  Conns,      \* connections Vault's nodes open, also after one broke
  Requests,   \* the requests Vault audits
  History,    \* the requests whose audit lines Vault writes to a connection
  ChanCap,    \* eventsChannelBuf
  MaxFaults   \* bound: failed binds, broken connections, failed ingests

ASSUME StreamAssumption ==
  /\ History \in [Conns -> Seq(Requests)]
  /\ ChanCap \in Nat \ {0}
  /\ MaxFaults \in Nat

VARIABLES
  ctxDone,    \* ctx is cancelled
  socket,     \* where socket.Run is: bind, accept, join, returned
  handler,    \* where handleConn of a connection is: none, scan, send, returned
  scanned,    \* lines scanner.Scan has returned on a connection
  broken,     \* history: connections that broke or were closed
  events,     \* the channel
  pump,       \* where run's goroutine is: select, ingest, join, returned
  ev,         \* the event pump has received
  got, lost,  \* history: events ingested, and events whose Ingest failed
  faults      \* bound: faults used

reading == <<handler, scanned, broken>>
pumping == <<pump, ev, got, lost>>
vars == <<ctxDone, socket, reading, events, pumping, faults>>

\* A change of a KV v2 secret, by the fields parseLine looks at.
Change(r) ==
  /\ ~r.error
  /\ r.mount_type = "kv"
  /\ r.operation \in {"create", "update", "patch", "delete"}
  /\ r.under = "data"

\* Vault writes two lines for a request, before and after it performs it.
Lines(c) == 1 .. 2 * Len(History[c])
RequestOf(n) == (n + 1) \div 2
IsResponse(n) == n = 2 * RequestOf(n)

\* parseLine accepts line n of connection c.
ParsesBothHalves(c, n) == Change(History[c][RequestOf(n)])
Parses(c, n) == IsResponse(n) /\ Change(History[c][RequestOf(n)])

\* An event stands for one request of one connection.
Event(c, n) == <<c, RequestOf(n)>>
AllEvents == UNION {{c} \X (1 .. Len(History[c])) : c \in Conns}

TypeOK ==
  /\ ctxDone \in BOOLEAN
  /\ socket \in {"bind", "accept", "join", "returned"}
  /\ handler \in [Conns -> {"none", "scan", "send", "returned"}]
  /\ scanned \in [Conns -> Nat]
  /\ \A c \in Conns : scanned[c] <= 2 * Len(History[c])
  /\ broken \subseteq Conns
  /\ events \in Seq(AllEvents) /\ Len(events) <= ChanCap
  /\ pump \in {"select", "ingest", "join", "returned"}
  /\ pump = "ingest" => ev \in AllEvents
  /\ got \subseteq AllEvents /\ lost \subseteq AllEvents
  /\ faults \in Nat

NoEvent == <<>>

Init ==
  /\ ctxDone = FALSE
  /\ socket = "bind"
  /\ handler = [c \in Conns |-> "none"]
  /\ scanned = [c \in Conns |-> 0] /\ broken = {}
  /\ events = <<>>
  /\ pump = "select" /\ ev = NoEvent
  /\ got = {} /\ lost = {}
  /\ faults = 0

Fault == faults < MaxFaults /\ faults' = faults + 1

\* Something that fails by itself, or because ctx is cancelled.
Failure == IF ctxDone THEN UNCHANGED faults ELSE Fault

Goto(c, step) == handler' = [handler EXCEPT ![c] = step]

\* SIGTERM.
Signal ==
  /\ ~ctxDone /\ ctxDone' = TRUE
  /\ UNCHANGED <<socket, reading, events, pumping, faults>>

-----------------------------------------------------------------------------
(* socket.Run and handleConn *)

Bind ==
  /\ socket = "bind" /\ socket' = "accept"
  /\ UNCHANGED <<ctxDone, reading, events, pumping, faults>>

\* Run returns the error into socketErr, which nobody reads before shutdown.
BindFails ==
  /\ socket = "bind" /\ Failure
  /\ socket' = "returned"
  /\ UNCHANGED <<ctxDone, reading, events, pumping>>

\* Also just after ctx is cancelled: another goroutine closes the listener.
Accept(c) ==
  /\ socket = "accept" /\ handler[c] = "none"
  /\ Goto(c, "scan")
  /\ UNCHANGED <<ctxDone, socket, scanned, broken, events, pumping, faults>>

\* The listener is closed.  Any other error of Accept is logged and ignored.
AcceptFails ==
  /\ socket = "accept" /\ ctxDone
  /\ socket' = "join"
  /\ UNCHANGED <<ctxDone, reading, events, pumping, faults>>

\* wg.Wait returns.
RunReturnsAtOnce ==
  /\ socket = "join"
  /\ socket' = "returned"
  /\ UNCHANGED <<ctxDone, reading, events, pumping, faults>>
RunReturns ==
  /\ socket = "join" /\ \A c \in Conns : handler[c] \notin {"scan", "send"}
  /\ socket' = "returned"
  /\ UNCHANGED <<ctxDone, reading, events, pumping, faults>>

\* scanner.Scan returns a line that fits its buffer.
ScanLineStopsAtSkip(c) ==
  LET n == scanned[c] + 1
  IN  /\ handler[c] = "scan" /\ n \in Lines(c) /\ ~History[c][RequestOf(n)].long
      /\ scanned' = [scanned EXCEPT ![c] = n]
      /\ Goto(c, IF Parses(c, n) THEN "send" ELSE "returned")
      /\ UNCHANGED <<ctxDone, socket, broken, events, pumping, faults>>
ScanLine(c) ==
  LET n == scanned[c] + 1
  IN  /\ handler[c] = "scan" /\ n \in Lines(c) /\ ~History[c][RequestOf(n)].long
      /\ scanned' = [scanned EXCEPT ![c] = n]
      /\ Goto(c, IF Parses(c, n) THEN "send" ELSE "scan")
      /\ UNCHANGED <<ctxDone, socket, broken, events, pumping, faults>>

\* A line above maxSocketLine ends the connection.
ScanTooLong(c) ==
  LET n == scanned[c] + 1
  IN  /\ handler[c] = "scan" /\ n \in Lines(c) /\ History[c][RequestOf(n)].long
      /\ Goto(c, "returned")
      /\ UNCHANGED <<ctxDone, socket, scanned, broken, events, pumping, faults>>

\* The connection broke, or was closed because ctx is cancelled.
ScanFails(c) ==
  /\ handler[c] = "scan" /\ Failure
  /\ Goto(c, "returned")
  /\ broken' = broken \cup {c}
  /\ UNCHANGED <<ctxDone, socket, scanned, events, pumping>>

SendUnbounded(c) ==
  /\ handler[c] = "send"
  /\ events' = Append(events, Event(c, scanned[c]))
  /\ Goto(c, "scan")
  /\ UNCHANGED <<ctxDone, socket, scanned, broken, pumping, faults>>
SendOrDrop(c) ==
  /\ handler[c] = "send"
  /\ events' = IF Len(events) < ChanCap THEN Append(events, Event(c, scanned[c])) ELSE events
  /\ Goto(c, "scan")
  /\ UNCHANGED <<ctxDone, socket, scanned, broken, pumping, faults>>
Send(c) ==
  /\ handler[c] = "send" /\ Len(events) < ChanCap
  /\ events' = Append(events, Event(c, scanned[c]))
  /\ Goto(c, "scan")
  /\ UNCHANGED <<ctxDone, socket, scanned, broken, pumping, faults>>

\* The other case of the select: the event is gone.
GiveUpNever(c) == handler[c] = "send" /\ ctxDone /\ FALSE /\ UNCHANGED vars
GiveUpGoesOn(c) ==
  /\ handler[c] = "send" /\ ctxDone
  /\ Goto(c, "scan")
  /\ UNCHANGED <<ctxDone, socket, scanned, broken, events, pumping, faults>>
GiveUp(c) ==
  /\ handler[c] = "send" /\ ctxDone
  /\ Goto(c, "returned")
  /\ UNCHANGED <<ctxDone, socket, scanned, broken, events, pumping, faults>>

-----------------------------------------------------------------------------
(* pump and run *)

PumpReceives ==
  /\ pump = "select" /\ events # <<>>
  /\ ev' = Head(events) /\ events' = Tail(events)
  /\ pump' = "ingest"
  /\ UNCHANGED <<ctxDone, socket, reading, got, lost, faults>>

IngestOk ==
  /\ pump = "ingest"
  /\ got' = got \cup {ev}
  /\ pump' = "select"
  /\ UNCHANGED <<ctxDone, socket, reading, events, ev, lost, faults>>

\* Ingest returned an error: logged, and the event is forgotten.
IngestFailsRequeued ==
  /\ pump = "ingest" /\ Len(events) < ChanCap /\ Failure
  /\ events' = Append(events, ev)
  /\ pump' = "select"
  /\ UNCHANGED <<ctxDone, socket, reading, ev, got, lost>>
IngestFailsAndStops ==
  /\ pump = "ingest" /\ Failure
  /\ lost' = lost \cup {ev}
  /\ pump' = "join"
  /\ UNCHANGED <<ctxDone, socket, reading, events, ev, got>>
IngestFails ==
  /\ pump = "ingest" /\ Failure
  /\ lost' = lost \cup {ev}
  /\ pump' = "select"
  /\ UNCHANGED <<ctxDone, socket, reading, events, ev, got>>

\* pump returns ctx.Err(); run cancels ctx once more and waits for socketErr.
PumpReturns ==
  /\ pump = "select" /\ ctxDone
  /\ pump' = "join"
  /\ UNCHANGED <<ctxDone, socket, reading, events, ev, got, lost, faults>>

\* run returns and closes the pool.
MainReturns ==
  /\ pump = "join" /\ socket = "returned"
  /\ pump' = "returned"
  /\ UNCHANGED <<ctxDone, socket, reading, events, ev, got, lost, faults>>

-----------------------------------------------------------------------------
SocketStep == Bind \/ AcceptFails \/ RunReturns
HandlerStep(c) == ScanLine(c) \/ ScanTooLong(c) \/ Send(c) \/ GiveUp(c)
PumpStep == PumpReceives \/ IngestOk \/ PumpReturns \/ MainReturns

Next ==
  \/ Signal \/ BindFails \/ IngestFails
  \/ SocketStep
  \/ \E c \in Conns : Accept(c) \/ HandlerStep(c) \/ ScanFails(c)
  \/ PumpStep

Spec == Init /\ [][Next]_vars

\* The goroutines run, Vault's lines arrive, a closed connection ends its Scan;
\* nothing is assumed of signals and faults.
FairSpec ==
  /\ Spec
  /\ WF_vars(SocketStep) /\ WF_vars(PumpStep)
  /\ \A c \in Conns : WF_vars(HandlerStep(c)) /\ WF_vars(ctxDone /\ ScanFails(c))

-----------------------------------------------------------------------------
(* Properties *)

\* Each change of a connection is ingested at most once and in Vault's order,
\* although every request has two lines, all connections share one channel, and
\* handlers and pump come and go: a gap can only be an Ingest that failed.
Changes == [c \in Conns |-> {k \in 1 .. Len(History[c]) : Change(History[c][k])}]
Stream == INSTANCE Pipe WITH Sources <- Conns
KeepsOrder == Stream!Spec

\* A change whose line was scanned before a shutdown is on its way or handled: no
\* full channel, busy pump or broken connection makes it disappear.
Pending(c) == IF handler[c] = "send" THEN {Event(c, scanned[c])} ELSE {}
Received == IF pump = "ingest" THEN {ev} ELSE {}
InChannel == {events[i] : i \in DOMAIN events}
NoneDropped ==
  ~ctxDone =>
    \A c \in Conns : \A k \in DOMAIN History[c] :
      Change(History[c][k]) /\ 2 * k <= scanned[c] =>
        <<c, k>> \in got \cup lost \cup Received \cup InChannel \cup Pending(c)

\* However far Ingest lags behind Vault, and also during a shutdown, the changes that
\* were scanned and did not come to an Ingest that ended are no more than the last
\* line of each connection, what the channel can hold and the event in pump's hands.
\* (Not counted: lines in a scanner's buffer, and events whose Ingest failed; after
\* the signal nothing bounds the latter while pump goes on receiving.)
Scanned == {e \in AllEvents : e[2] \in Changes[e[1]] /\ 2 * e[2] <= scanned[e[1]]}
Unfinished == Scanned \ (got \cup lost)
BacklogBounded ==
  Cardinality({e \in Unfinished : 2 * e[2] # scanned[e[1]]})
    <= ChanCap + (IF pump = "ingest" THEN 1 ELSE 0)

\* When run returns no handler is left, reading or waiting for room in the channel,
\* also if it was accepted while ctx was being cancelled.
NobodyLeft ==
  pump = "returned" =>
    \A c \in Conns : handler[c] \notin {"scan", "send"}

\* A signal ends the process, also with a full channel nobody receives from.
ShutdownEnds == ctxDone ~> pump = "returned"

\* On a connection that lasts until its line was scanned every change comes to its
\* Ingest, those after lines that were skipped, behind a full channel or after the
\* Ingest of others failed too; nothing else keeps it away before a shutdown.
LinesFit(c, k) == \A j \in 1 .. k : ~History[c][j].long
ChangesArrive ==
  \A c \in Conns : \A k \in DOMAIN History[c] :
    handler[c] # "none" /\ LinesFit(c, k) /\ Change(History[c][k])
      ~> \/ <<c, k>> \in got \cup lost
         \/ c \in broken /\ scanned[c] < 2 * k
         \/ ctxDone
=============================================================================
