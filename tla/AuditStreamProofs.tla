-------------------------- MODULE AuditStreamProofs -------------------------
(***************************************************************************)
(* Proofs about AuditStream for any connections, histories and channel     *)
(* capacity, any number of faults and a shutdown at any moment.            *)
(***************************************************************************)
EXTENDS AuditStream, FiniteSetTheorems, TLAPS

\* Lines 2k - 1 and 2k belong to request k.
LEMMA RequestOfLine ==
  ASSUME NEW n \in Nat
  PROVE  RequestOf(n) \in Nat /\ 2 * RequestOf(n) \in {n, n + 1}
BY DEF RequestOf

\* Events are pairs of a connection and a request on it.
LEMMA EventPairs ==
  /\ \A e \in AllEvents :
       e[1] \in Conns /\ e[2] \in 1 .. Len(History[e[1]]) /\ e = <<e[1], e[2]>>
  /\ \A c \in Conns : \A k \in 1 .. Len(History[c]) : <<c, k>> \in AllEvents
BY DEF AllEvents

\* The event of a scanned line.
LEMMA EventOfLine ==
  ASSUME NEW c \in Conns, NEW n \in Lines(c)
  PROVE  Event(c, n) \in AllEvents /\ Event(c, n) = <<c, RequestOf(n)>>
<1>1. Len(History[c]) \in Nat
  BY StreamAssumption
<1>2. n \in Nat /\ n >= 1 /\ n <= 2 * Len(History[c])
  BY <1>1 DEF Lines
<1>3. RequestOf(n) \in 1 .. Len(History[c])
  <2>1. RequestOf(n) \in Nat /\ 2 * RequestOf(n) \in {n, n + 1}
    BY <1>2, RequestOfLine
  <2> QED BY <1>1, <1>2, <2>1
<1> QED BY <1>3, EventPairs DEF Event

-----------------------------------------------------------------------------
\* A handler that is about to send has scanned a line.
Sending == \A c \in Conns : handler[c] = "send" => scanned[c] \in Lines(c)

\* Nothing is scanned, sent or received at the start.
LEMMA InitType == Init => TypeOK /\ Sending
<1> SUFFICES ASSUME Init PROVE TypeOK /\ Sending
  OBVIOUS
<1>1. \A c \in Conns : Len(History[c]) \in Nat
  BY StreamAssumption
<1>2. events \in Seq(AllEvents) /\ Len(events) = 0
  BY DEF Init
<1>3. \A c \in Conns : scanned[c] \in Nat /\ scanned[c] <= 2 * Len(History[c])
  BY <1>1 DEF Init
<1>4. handler \in [Conns -> {"none", "scan", "send", "returned"}] /\ scanned \in [Conns -> Nat]
  BY DEF Init
<1>5. Len(events) <= ChanCap /\ faults \in Nat
  BY <1>2, StreamAssumption DEF Init
<1>6. /\ ctxDone \in BOOLEAN /\ socket = "bind" /\ pump = "select"
      /\ got \subseteq AllEvents /\ lost \subseteq AllEvents /\ broken \subseteq Conns
  BY DEF Init
<1>7. Sending
  BY DEF Init, Sending
<1> QED BY <1>2, <1>3, <1>4, <1>5, <1>6, <1>7 DEF TypeOK

\* Every step keeps the goroutines and the channel well typed.
LEMMA NextType == TypeOK /\ Sending /\ [Next]_vars => TypeOK' /\ Sending'
<1> SUFFICES ASSUME TypeOK, Sending, [Next]_vars PROVE TypeOK' /\ Sending'
  OBVIOUS
<1> USE StreamAssumption DEF TypeOK, Sending, Goto, reading, pumping
<1>1. CASE Signal
  BY <1>1 DEF Signal
<1>2. CASE BindFails
  BY <1>2 DEF BindFails, Failure, Fault
<1>3. CASE IngestFails
  BY <1>3 DEF IngestFails, Failure, Fault
<1>4. CASE SocketStep
  BY <1>4 DEF SocketStep, Bind, AcceptFails, RunReturns
<1>5. ASSUME NEW c \in Conns, Accept(c) PROVE TypeOK' /\ Sending'
  BY <1>5 DEF Accept
<1>6. ASSUME NEW c \in Conns, ScanLine(c) PROVE TypeOK' /\ Sending'
  BY <1>6 DEF ScanLine, Lines
<1>7. ASSUME NEW c \in Conns, ScanTooLong(c) \/ GiveUp(c) PROVE TypeOK' /\ Sending'
  BY <1>7 DEF ScanTooLong, GiveUp
<1>8. ASSUME NEW c \in Conns, ScanFails(c) PROVE TypeOK' /\ Sending'
  BY <1>8 DEF ScanFails, Failure, Fault
<1>9. ASSUME NEW c \in Conns, Send(c) PROVE TypeOK' /\ Sending'
  <2>1. Event(c, scanned[c]) \in AllEvents
    BY <1>9, EventOfLine DEF Send
  <2>2. events' \in Seq(AllEvents) /\ Len(events') = Len(events) + 1
    BY <1>9, <2>1 DEF Send
  <2> QED BY <1>9, <2>2 DEF Send
<1>10. CASE PumpReceives
  <2>1. Head(events) \in AllEvents /\ Tail(events) \in Seq(AllEvents)
        /\ Len(Tail(events)) = Len(events) - 1
    BY <1>10 DEF PumpReceives
  <2> QED BY <1>10, <2>1 DEF PumpReceives
<1>11. CASE IngestOk \/ PumpReturns \/ MainReturns
  BY <1>11 DEF IngestOk, PumpReturns, MainReturns
<1>12. CASE UNCHANGED vars
  BY <1>12 DEF vars
<1> QED
  BY <1>1, <1>2, <1>3, <1>4, <1>5, <1>6, <1>7, <1>8, <1>9, <1>10, <1>11, <1>12
  DEF Next, HandlerStep, PumpStep

\* Type correctness; the channel never holds more than its capacity.
THEOREM TypeCorrect == Spec => []TypeOK
BY InitType, NextType, PTL DEF Spec
-----------------------------------------------------------------------------
(* Shutdown *)

\* Handlers exist only while Run accepts or waits for them, and run waits for Run.
Joined ==
  /\ socket = "bind" => \A c \in Conns : handler[c] = "none"
  /\ socket = "returned" => \A c \in Conns : handler[c] \notin {"scan", "send"}
  /\ pump = "returned" => socket = "returned"

LEMMA JoinedStep == TypeOK /\ Joined /\ [Next]_vars => Joined'
BY DEF TypeOK, Joined, Goto, reading, pumping, vars, Next, Signal, BindFails, IngestFails,
       SocketStep, Bind, AcceptFails, RunReturns, Accept, HandlerStep, ScanLine, ScanTooLong,
       Send, GiveUp, ScanFails, PumpStep, PumpReceives, IngestOk, PumpReturns, MainReturns

\* When run returns no handler is left, at whatever moment the signal came.
THEOREM ShutdownJoinsHandlers == Spec => []NobodyLeft
<1>1. Init => Joined
  BY DEF Init, Joined
<1>2. Joined => NobodyLeft
  BY DEF Joined, NobodyLeft
<1> QED BY <1>1, <1>2, JoinedStep, TypeCorrect, PTL DEF Spec

-----------------------------------------------------------------------------
(* The inductive invariant of the stream *)

Handled == got \cup lost

\* Whatever was sent is a change its handler has scanned, before a pending one.
Begun ==
  /\ \A c \in Conns : handler[c] = "send" => Parses(c, scanned[c])
  /\ \A e \in Handled \cup Received \cup InChannel :
       /\ e[2] \in Changes[e[1]]
       /\ 2 * e[2] <= scanned[e[1]]
       /\ handler[e[1]] = "send" => 2 * e[2] < scanned[e[1]]

\* On each connection: what was handled, what pump holds, then the channel in order.
Before(e, f) == e[1] = f[1] => e[2] < f[2]
Ordered ==
  /\ \A i, j \in DOMAIN events : i < j => Before(events[i], events[j])
  /\ \A e \in Handled \cup Received, i \in DOMAIN events : Before(e, events[i])
  /\ \A e \in Handled, f \in Received : Before(e, f)

\* A scanned change is somewhere, but for the last one of a handler that gave up.
Complete ==
  \A c \in Conns : \A k \in Changes[c] :
    2 * k <= scanned[c] =>
      \/ <<c, k>> \in Handled \cup Received \cup InChannel \cup Pending(c)
      \/ ctxDone /\ handler[c] = "returned" /\ scanned[c] = 2 * k

IInv == TypeOK /\ Sending /\ Begun /\ Ordered /\ Complete

\* A line that parses is the response half of a change, and the only one.
LEMMA ParsedLine ==
  ASSUME NEW c \in Conns, NEW n \in Lines(c)
  PROVE  /\ Parses(c, n) => n = 2 * RequestOf(n) /\ RequestOf(n) \in Changes[c]
         /\ \A k \in Changes[c] : n = 2 * k => Parses(c, n) /\ RequestOf(n) = k
<1>1. n \in Nat /\ n >= 1 /\ n <= 2 * Len(History[c]) /\ Len(History[c]) \in Nat
  BY StreamAssumption DEF Lines
<1>2. RequestOf(n) \in Nat /\ 2 * RequestOf(n) \in {n, n + 1}
  BY <1>1, RequestOfLine
<1>3. RequestOf(n) \in 1 .. Len(History[c])
  BY <1>1, <1>2
<1>4. \A k \in Changes[c] : k \in Nat /\ Change(History[c][k])
  BY DEF Changes
<1>5. \A k \in Changes[c] : n = 2 * k => RequestOf(n) = k
  BY <1>1, <1>2, <1>4
<1>6. RequestOf(n) \in Changes[c] <=> Change(History[c][RequestOf(n)])
  BY <1>3 DEF Changes
<1> QED BY <1>2, <1>4, <1>5, <1>6 DEF Parses, IsResponse

\* What a step does to the channel, seen as a set and by its places.
LEMMA ChannelAfterSend ==
  ASSUME TypeOK, NEW c \in Conns, NEW x \in AllEvents, events' = Append(events, x)
  PROVE  /\ InChannel' = InChannel \cup {x}
         /\ \A i \in DOMAIN events' :
              events'[i] = IF i \in DOMAIN events THEN events[i] ELSE x
         /\ \A i, j \in DOMAIN events' : i < j => i \in DOMAIN events
<1>1. events \in Seq(AllEvents) /\ Len(events) \in Nat /\ DOMAIN events = 1 .. Len(events)
      /\ DOMAIN events' = 1 .. Len(events) + 1
  BY DEF TypeOK
<1>2. \A i \in DOMAIN events' : events'[i] = IF i \in DOMAIN events THEN events[i] ELSE x
  BY <1>1
<1>3. DOMAIN events \subseteq DOMAIN events' /\ Len(events) + 1 \in DOMAIN events'
      /\ Len(events) + 1 \notin DOMAIN events
  BY <1>1
<1>4. InChannel' = InChannel \cup {x}
  <2>1. \A y \in InChannel' : y \in InChannel \/ y = x
    BY <1>2 DEF InChannel
  <2>2. InChannel \subseteq InChannel'
    BY <1>2, <1>3 DEF InChannel
  <2>3. x \in InChannel'
    BY <1>2, <1>3 DEF InChannel
  <2> QED BY <2>1, <2>2, <2>3
<1>5. \A i, j \in DOMAIN events' : i < j => i \in DOMAIN events
  BY <1>1
<1> QED BY <1>2, <1>4, <1>5

LEMMA ChannelAfterReceive ==
  ASSUME TypeOK, events # <<>>, events' = Tail(events)
  PROVE  /\ Head(events) \in InChannel /\ Head(events) = events[1] /\ 1 \in DOMAIN events
         /\ InChannel = InChannel' \cup {Head(events)}
         /\ \A i \in DOMAIN events' :
              i + 1 \in DOMAIN events /\ 1 < i + 1 /\ events'[i] = events[i + 1]
         /\ \A i \in DOMAIN events' : i \in Nat
<1>1. events \in Seq(AllEvents) /\ Len(events) \in Nat /\ Len(events) > 0
      /\ Len(events') = Len(events) - 1 /\ DOMAIN events' = 1 .. Len(events) - 1
      /\ DOMAIN events = 1 .. Len(events)
  BY DEF TypeOK
<1>2. \A i \in DOMAIN events' : events'[i] = events[i + 1]
  BY <1>1
<1>3. Head(events) = events[1]
  BY <1>1
<1>4. \A x : x \in InChannel <=> \E i \in DOMAIN events : x = events[i]
  BY DEF InChannel
<1>5. \A x : x \in InChannel' <=> \E i \in DOMAIN events' : x = events'[i]
  BY DEF InChannel
<1>6. InChannel = InChannel' \cup {Head(events)}
  <2>1. \A x \in InChannel : x \in InChannel' \/ x = Head(events)
    <3> SUFFICES ASSUME NEW i \in DOMAIN events, i # 1 PROVE events[i] \in InChannel'
      BY <1>3, <1>4
    <3>1. i - 1 \in DOMAIN events' /\ events'[i - 1] = events[i]
      BY <1>1, <1>2
    <3> QED BY <3>1, <1>5
  <2>2. \A x \in InChannel' : x \in InChannel
    BY <1>1, <1>2, <1>4, <1>5
  <2>3. Head(events) \in InChannel
    BY <1>1, <1>3, <1>4
  <2> QED BY <2>1, <2>2, <2>3
<1> QED BY <1>1, <1>2, <1>3, <1>4, <1>6

\* The elements of the sets above are events.
LEMMA AreEvents ==
  ASSUME TypeOK
  PROVE  Handled \cup Received \cup InChannel \subseteq AllEvents
BY DEF TypeOK, Handled, Received, InChannel

\* Events are pairs of a connection and a number, and changes make events.
LEMMA Numbers ==
  ASSUME TypeOK
  PROVE  /\ \A c \in Conns : scanned[c] \in Nat
         /\ \A e \in AllEvents : e[1] \in Conns /\ e[2] \in Nat
         /\ \A c \in Conns : \A k \in Changes[c] : k \in Nat /\ <<c, k>> \in AllEvents
<1>1. \A e \in AllEvents : e[1] \in Conns /\ e[2] \in 1 .. Len(History[e[1]])
  BY EventPairs
<1>2. \A c \in Conns : Len(History[c]) \in Nat
  BY StreamAssumption
<1> QED BY <1>1, <1>2, EventPairs DEF TypeOK, Changes

\* ScanLine makes pending exactly a change whose response half it read.
LEMMA ScanKeeps ==
  ASSUME IInv, NEW c \in Conns, ScanLine(c)
  PROVE  Begun' /\ Ordered' /\ Complete'
<1> DEFINE n == scanned[c] + 1
<1> USE DEF Goto, pumping
<1>0. /\ TypeOK /\ Begun /\ Ordered /\ Complete
      /\ handler[c] = "scan" /\ n \in Lines(c) /\ scanned[c] \in Nat
      /\ scanned' = [scanned EXCEPT ![c] = n]
      /\ handler' = [handler EXCEPT ![c] = IF Parses(c, n) THEN "send" ELSE "scan"]
      /\ UNCHANGED <<ctxDone, events, pump, ev, got, lost>>
      /\ scanned \in [Conns -> Nat] /\ handler \in [Conns -> {"none", "scan", "send", "returned"}]
  BY DEF IInv, ScanLine, TypeOK
<1>1. Handled' = Handled /\ Received' = Received /\ InChannel' = InChannel
  BY <1>0 DEF Handled, Received, InChannel
<1>2. \A d \in Conns : /\ scanned[d] \in Nat /\ scanned'[d] \in Nat
                       /\ scanned'[d] = IF d = c THEN n ELSE scanned[d]
  BY <1>0
<1>3. /\ handler'[c] = (IF Parses(c, n) THEN "send" ELSE "scan") /\ scanned'[c] = n
      /\ \A d \in Conns : d # c => handler'[d] = handler[d] /\ scanned'[d] = scanned[d]
  BY <1>0
<1> HIDE DEF n
<1>4. n = scanned[c] + 1
  BY DEF n
<1>5. Begun'
  <2>1. \A d \in Conns : handler'[d] = "send" => Parses(d, scanned'[d])
    BY <1>0, <1>3 DEF Begun
  <2>2. ASSUME NEW e \in Handled \cup Received \cup InChannel
        PROVE  /\ e[2] \in Changes[e[1]]
               /\ 2 * e[2] <= scanned'[e[1]]
               /\ handler'[e[1]] = "send" => 2 * e[2] < scanned'[e[1]]
    <3>1. e \in AllEvents
      BY <1>0, AreEvents
    <3>2. e[1] \in Conns /\ e[2] \in Nat
      BY <1>0, <3>1, Numbers
    <3>3. /\ e[2] \in Changes[e[1]] /\ 2 * e[2] <= scanned[e[1]]
          /\ handler[e[1]] = "send" => 2 * e[2] < scanned[e[1]]
      BY <1>0 DEF Begun
    <3>4. CASE e[1] = c
      BY <1>2, <1>4, <3>2, <3>3, <3>4
    <3>5. CASE e[1] # c
      BY <1>3, <3>2, <3>3, <3>5
    <3> QED BY <3>4, <3>5
  <2> QED BY <1>1, <2>1, <2>2 DEF Begun
<1>6. Ordered'
  BY <1>0, <1>1 DEF Ordered
<1>7. Complete'
  <2> SUFFICES ASSUME NEW d \in Conns, NEW k \in Changes[d], 2 * k <= scanned'[d]
               PROVE  \/ <<d, k>> \in Handled \cup Received \cup InChannel \cup Pending(d)'
                      \/ ctxDone /\ handler'[d] = "returned" /\ scanned'[d] = 2 * k
    BY <1>0, <1>1 DEF Complete
  <2>1. k \in Nat
    BY <1>0, Numbers
  <2>2. CASE d # c
    BY <1>0, <1>3, <2>2 DEF Complete, Pending
  <2>3. CASE d = c /\ n # 2 * k
    <3>1. 2 * k <= scanned[c]
      BY <1>0, <1>2, <1>4, <2>1, <2>3
    <3> QED BY <1>0, <2>3, <3>1 DEF Complete, Pending
  <2>4. CASE d = c /\ n = 2 * k
    <3>1. Parses(c, n) /\ RequestOf(n) = k
      BY <1>0, <2>4, ParsedLine
    <3>2. Pending(c)' = {Event(c, n)}
      BY <1>3, <3>1 DEF Pending
    <3> QED BY <2>4, <3>1, <3>2 DEF Event
  <2> QED BY <2>2, <2>3, <2>4
<1> QED BY <1>5, <1>6, <1>7

\* A handler that ends before it scanned a change leaves nothing behind, and one
\* that gives up leaves the change it scanned last.
LEMMA ReturnKeeps ==
  ASSUME IInv, NEW c \in Conns, ScanTooLong(c) \/ ScanFails(c) \/ GiveUp(c) \/ Accept(c)
  PROVE  Begun' /\ Ordered' /\ Complete'
<1> USE DEF Goto, pumping, reading
<1>0. /\ TypeOK /\ Sending /\ Begun /\ Ordered /\ Complete
      /\ \/ handler[c] = "none" /\ handler' = [handler EXCEPT ![c] = "scan"]
         \/ handler[c] = "scan" /\ handler' = [handler EXCEPT ![c] = "returned"]
         \/ handler[c] = "send" /\ handler' = [handler EXCEPT ![c] = "returned"] /\ ctxDone
      /\ UNCHANGED <<ctxDone, scanned, events, pump, ev, got, lost>>
      /\ handler \in [Conns -> {"none", "scan", "send", "returned"}]
  BY DEF IInv, TypeOK, ScanTooLong, ScanFails, GiveUp, Accept
<1>1. Handled' = Handled /\ Received' = Received /\ InChannel' = InChannel
  BY <1>0 DEF Handled, Received, InChannel
<1>2. handler'[c] \in {"scan", "returned"} /\ \A d \in Conns : d # c => handler'[d] = handler[d]
  BY <1>0
<1>3. Begun'
  <2>1. \A e \in AllEvents : e[1] \in Conns
    BY <1>0, Numbers
  <2> QED BY <1>0, <1>1, <1>2, <2>1, AreEvents DEF Begun
<1>4. Ordered'
  BY <1>0, <1>1 DEF Ordered
<1>5. Complete'
  <2> SUFFICES ASSUME NEW d \in Conns, NEW k \in Changes[d], 2 * k <= scanned[d]
               PROVE  \/ <<d, k>> \in Handled \cup Received \cup InChannel \cup Pending(d)'
                      \/ ctxDone /\ handler'[d] = "returned" /\ scanned[d] = 2 * k
    BY <1>0, <1>1 DEF Complete
  <2>1. CASE d # c
    BY <1>0, <1>2, <2>1 DEF Complete, Pending
  <2>2. CASE d = c /\ handler[c] # "send"
    BY <1>0, <2>2 DEF Complete, Pending
  <2>3. CASE d = c /\ handler[c] = "send"
    <3>1. Parses(c, scanned[c]) /\ scanned[c] \in Lines(c) /\ handler'[c] = "returned" /\ ctxDone
      BY <1>0, <2>3 DEF Begun, Sending
    <3>2. scanned[c] = 2 * RequestOf(scanned[c])
      BY <3>1, ParsedLine
    <3>3. <<c, k>> = Event(c, scanned[c]) => 2 * k = scanned[c]
      BY <3>2 DEF Event
    <3>4. Pending(c) = {Event(c, scanned[c])}
      BY <2>3 DEF Pending
    <3>5. <<c, k>> \in Handled \cup Received \cup InChannel \cup Pending(c)
      BY <1>0, <2>3 DEF Complete
    <3> QED BY <2>3, <3>1, <3>3, <3>4, <3>5
  <2> QED BY <2>1, <2>2, <2>3
<1> QED BY <1>3, <1>4, <1>5

\* Send moves the pending change behind all others of its connection.
LEMMA SendKeeps ==
  ASSUME IInv, NEW c \in Conns, Send(c)
  PROVE  Begun' /\ Ordered' /\ Complete'
<1> DEFINE x == Event(c, scanned[c])
<1> USE DEF Goto, pumping
<1>0. /\ TypeOK /\ Sending /\ Begun /\ Ordered /\ Complete
      /\ handler[c] = "send" /\ handler' = [handler EXCEPT ![c] = "scan"]
      /\ events' = Append(events, x)
      /\ UNCHANGED <<ctxDone, scanned, pump, ev, got, lost>>
      /\ handler \in [Conns -> {"none", "scan", "send", "returned"}]
  BY DEF IInv, TypeOK, Send
<1>1. /\ scanned[c] \in Lines(c) /\ scanned[c] \in Nat
      /\ x \in AllEvents /\ x = <<c, RequestOf(scanned[c])>>
      /\ x[1] = c /\ 2 * x[2] = scanned[c] /\ x[2] \in Changes[c]
  <2>1. scanned[c] \in Lines(c) /\ scanned[c] \in Nat /\ Parses(c, scanned[c])
    BY <1>0 DEF Sending, TypeOK, Begun
  <2>2. x \in AllEvents /\ x = <<c, RequestOf(scanned[c])>>
    BY <2>1, EventOfLine
  <2>3. scanned[c] = 2 * RequestOf(scanned[c]) /\ RequestOf(scanned[c]) \in Changes[c]
    BY <2>1, ParsedLine
  <2> QED BY <2>1, <2>2, <2>3
<1>2. Pending(c) = {x}
  BY <1>0 DEF Pending
<1> HIDE DEF x
<1>3. /\ InChannel' = InChannel \cup {x}
      /\ \A i \in DOMAIN events' :
           events'[i] = IF i \in DOMAIN events THEN events[i] ELSE x
      /\ \A i, j \in DOMAIN events' : i < j => i \in DOMAIN events
  BY <1>0, <1>1, ChannelAfterSend
<1>4. Handled' = Handled /\ Received' = Received
  BY <1>0 DEF Handled, Received
<1>5. handler'[c] = "scan" /\ \A d \in Conns : d # c => handler'[d] = handler[d]
  BY <1>0
<1>6. \A e \in Handled \cup Received \cup InChannel : e \in AllEvents /\ Before(e, x)
  <2> SUFFICES ASSUME NEW e \in Handled \cup Received \cup InChannel, e[1] = c
               PROVE  e[2] < x[2]
    BY <1>0, <1>1, AreEvents DEF Before
  <2>1. e[2] \in Nat /\ x[2] \in Nat
    BY <1>0, <1>1, AreEvents, Numbers
  <2>2. 2 * e[2] < scanned[c]
    BY <1>0 DEF Begun
  <2> QED BY <1>1, <2>1, <2>2
<1>7. Begun'
  <2>1. \A e \in AllEvents : e[1] \in Conns
    BY <1>0, Numbers
  <2>2. \A d \in Conns : handler'[d] = "send" => Parses(d, scanned[d])
    BY <1>0, <1>5 DEF Begun
  <2>3. ASSUME NEW e \in Handled \cup Received \cup InChannel \cup {x}
        PROVE  /\ e[2] \in Changes[e[1]] /\ 2 * e[2] <= scanned[e[1]]
               /\ handler'[e[1]] = "send" => 2 * e[2] < scanned[e[1]]
    <3>1. CASE e = x
      BY <1>1, <1>5, <3>1
    <3>2. CASE e # x
      BY <1>0, <1>5, <1>6, <2>1, <3>2 DEF Begun
    <3> QED BY <3>1, <3>2
  <2> QED BY <1>0, <1>3, <1>4, <2>2, <2>3 DEF Begun
<1>8. Ordered'
  <2>1. \A i \in DOMAIN events : events[i] \in InChannel
    BY DEF InChannel
  <2>2. \A i, j \in DOMAIN events' : i < j => Before(events'[i], events'[j])
    BY <1>0, <1>3, <1>6, <2>1 DEF Ordered
  <2>3. \A e \in Handled \cup Received, i \in DOMAIN events' : Before(e, events'[i])
    BY <1>0, <1>3, <1>6 DEF Ordered
  <2> QED BY <1>0, <1>4, <2>2, <2>3 DEF Ordered
<1>9. Complete'
  <2> SUFFICES ASSUME NEW d \in Conns, NEW k \in Changes[d], 2 * k <= scanned[d]
               PROVE  \/ <<d, k>> \in Handled \cup Received \cup InChannel \cup {x} \cup Pending(d)'
                      \/ ctxDone /\ handler'[d] = "returned" /\ scanned[d] = 2 * k
    BY <1>0, <1>3, <1>4 DEF Complete
  <2>1. CASE d = c
    BY <1>0, <1>2, <2>1 DEF Complete
  <2>2. CASE d # c
    BY <1>0, <1>5, <2>2 DEF Complete, Pending
  <2> QED BY <2>1, <2>2
<1> QED BY <1>7, <1>8, <1>9

\* pump takes the oldest event of the channel.
LEMMA ReceiveKeeps ==
  ASSUME IInv, PumpReceives
  PROVE  Begun' /\ Ordered' /\ Complete'
<1> USE DEF reading
<1>0. /\ TypeOK /\ Begun /\ Ordered /\ Complete
      /\ pump = "select" /\ pump' = "ingest" /\ events # <<>>
      /\ ev' = Head(events) /\ events' = Tail(events)
      /\ UNCHANGED <<ctxDone, handler, scanned, got, lost>>
  BY DEF IInv, PumpReceives
<1>1. /\ Head(events) \in InChannel /\ Head(events) = events[1] /\ 1 \in DOMAIN events
      /\ InChannel = InChannel' \cup {Head(events)}
      /\ \A i \in DOMAIN events' :
           i + 1 \in DOMAIN events /\ 1 < i + 1 /\ events'[i] = events[i + 1]
      /\ \A i \in DOMAIN events' : i \in Nat
  BY <1>0, ChannelAfterReceive
<1>2. Received = {} /\ Received' = {Head(events)} /\ Handled' = Handled
  BY <1>0 DEF Received, Handled
<1>3. Handled' \cup Received' \cup InChannel' = Handled \cup Received \cup InChannel
  BY <1>1, <1>2
<1>4. Begun'
  BY <1>0, <1>3 DEF Begun
<1>5. Ordered'
  <2>1. \A i, j \in DOMAIN events' : i < j => Before(events'[i], events'[j])
    <3> SUFFICES ASSUME NEW i \in DOMAIN events', NEW j \in DOMAIN events', i < j
                 PROVE  Before(events'[i], events'[j])
      OBVIOUS
    <3>1. i + 1 < j + 1
      BY <1>1
    <3> QED BY <1>0, <1>1, <3>1 DEF Ordered
  <2>2. \A i \in DOMAIN events' : Before(Head(events), events'[i])
    BY <1>0, <1>1 DEF Ordered
  <2>3. \A e \in Handled, i \in DOMAIN events' : Before(e, events'[i])
    BY <1>0, <1>1 DEF Ordered
  <2>4. \A e \in Handled : Before(e, Head(events))
    BY <1>0, <1>1 DEF Ordered
  <2> QED BY <1>2, <2>1, <2>2, <2>3, <2>4 DEF Ordered
<1>6. Complete'
  BY <1>0, <1>3 DEF Complete, Pending
<1> QED BY <1>4, <1>5, <1>6

\* pump's event is handled, whether Ingest succeeded or not.
LEMMA IngestKeeps ==
  ASSUME IInv, IngestOk \/ IngestFails
  PROVE  Begun' /\ Ordered' /\ Complete'
<1> USE DEF reading
<1>0. /\ TypeOK /\ Begun /\ Ordered /\ Complete
      /\ pump = "ingest" /\ pump' = "select"
      /\ Handled' = Handled \cup {ev}
      /\ UNCHANGED <<ctxDone, handler, scanned, events>>
  BY DEF IInv, IngestOk, IngestFails, Handled
<1>1. Received = {ev} /\ Received' = {} /\ InChannel' = InChannel
  BY <1>0 DEF Received, InChannel
<1>2. Begun'
  BY <1>0, <1>1 DEF Begun
<1>3. Ordered'
  BY <1>0, <1>1 DEF Ordered
<1>4. Complete'
  BY <1>0, <1>1 DEF Complete, Pending
<1> QED BY <1>2, <1>3, <1>4

\* The stream's invariant holds in every reachable state.
LEMMA IInvHolds == Spec => []IInv
<1>1. Init => IInv
  <2> SUFFICES ASSUME Init PROVE IInv
    OBVIOUS
  <2>1. Handled = {} /\ Received = {} /\ InChannel = {} /\ DOMAIN events = {}
    BY DEF Init, Handled, Received, InChannel
  <2>2. Begun /\ Ordered
    BY <2>1 DEF Init, Begun, Ordered
  <2>3. \A c \in Conns : \A k \in Changes[c] : ~(2 * k <= scanned[c])
    BY DEF Init, Changes
  <2> QED BY <2>2, <2>3, InitType DEF IInv, Complete
<1>2. IInv /\ [Next]_vars => IInv'
  <2> SUFFICES ASSUME IInv, [Next]_vars PROVE IInv'
    OBVIOUS
  <2>1. TypeOK' /\ Sending'
    BY NextType DEF IInv
  <2>2. CASE UNCHANGED <<handler, scanned, events, pumping>> /\ (ctxDone => ctxDone')
    <3>1. UNCHANGED <<Handled, Received, InChannel>>
      BY <2>2 DEF Handled, Received, InChannel, pumping
    <3> QED BY <2>1, <2>2, <3>1 DEF IInv, Begun, Ordered, Complete, Pending
  <2>3. CASE UNCHANGED <<ctxDone, handler, scanned, events, ev, got, lost>>
             /\ (pump = "ingest" <=> pump' = "ingest")
    <3>1. UNCHANGED <<Handled, Received, InChannel>>
      BY <2>3 DEF Handled, Received, InChannel
    <3> QED BY <2>1, <2>3, <3>1 DEF IInv, Begun, Ordered, Complete, Pending
  <2>4. ASSUME NEW c \in Conns, Accept(c) \/ HandlerStep(c) \/ ScanFails(c) PROVE IInv'
    BY <2>1, <2>4, ScanKeeps, ReturnKeeps, SendKeeps DEF HandlerStep, IInv
  <2>5. CASE PumpReceives \/ IngestOk \/ IngestFails
    BY <2>1, <2>5, ReceiveKeeps, IngestKeeps DEF IInv
  <2>6. CASE Signal \/ BindFails \/ SocketStep
    BY <2>2, <2>6 DEF Signal, BindFails, SocketStep, Bind, AcceptFails, RunReturns, reading
  <2>7. CASE PumpReturns \/ MainReturns
    BY <2>3, <2>7 DEF PumpReturns, MainReturns, reading
  <2>8. CASE UNCHANGED vars
    BY <2>2, <2>8 DEF vars, reading
  <2> QED BY <2>4, <2>5, <2>6, <2>7, <2>8 DEF Next, PumpStep
<1> QED BY <1>1, <1>2, PTL DEF Spec

\* Until the shutdown no change disappears once its line was scanned.
THEOREM NothingDropped == Spec => []NoneDropped
<1>1. IInv => NoneDropped
  <2> SUFFICES ASSUME IInv, ~ctxDone, NEW c \in Conns, NEW k \in DOMAIN History[c],
                      Change(History[c][k]), 2 * k <= scanned[c]
               PROVE  <<c, k>> \in got \cup lost \cup Received \cup InChannel \cup Pending(c)
    BY DEF NoneDropped
  <2>1. k \in Changes[c]
    BY StreamAssumption DEF Changes
  <2> QED BY <2>1 DEF IInv, Complete, Handled
<1> QED BY <1>1, IInvHolds, PTL

\* A channel of n events holds at most n different ones.
LEMMA ChannelHolds ==
  ASSUME TypeOK
  PROVE  IsFiniteSet(InChannel) /\ Cardinality(InChannel) <= ChanCap
<1>1. events \in Seq(AllEvents) /\ Len(events) \in Nat /\ Len(events) <= ChanCap
      /\ DOMAIN events = 1 .. Len(events) /\ ChanCap \in Nat
  BY StreamAssumption DEF TypeOK
<1>2. IsFiniteSet(1 .. Len(events)) /\ Cardinality(1 .. Len(events)) = Len(events)
  <2>1. \A n \in Nat : IsFiniteSet(1 .. n) /\ Cardinality(1 .. n) = n
    <3> TAKE n \in Nat
    <3>1. IsFiniteSet(1 .. n) /\ Cardinality(1 .. n) = IF 1 > n THEN 0 ELSE n - 1 + 1
      BY FS_Interval
    <3> QED BY <3>1
  <2> QED BY <1>1, <2>1
<1> DEFINE place == [i \in 1 .. Len(events) |-> events[i]]
<1>3. place \in Surjection(1 .. Len(events), InChannel)
  BY <1>1 DEF Surjection, InChannel
<1>4. IsFiniteSet(InChannel) /\ Cardinality(InChannel) <= Cardinality(1 .. Len(events))
  BY <1>2, <1>3, FS_Surjection
<1>5. Cardinality(InChannel) \in Nat
  BY <1>4, FS_CardinalityType
<1> QED BY <1>1, <1>2, <1>4, <1>5

\* With the event pump may hold, it is one more.
LEMMA ChannelAndPumpHold ==
  ASSUME TypeOK
  PROVE  /\ IsFiniteSet(InChannel \cup Received)
         /\ Cardinality(InChannel \cup Received)
              <= ChanCap + (IF pump = "ingest" THEN 1 ELSE 0)
<1>1. IsFiniteSet(InChannel) /\ Cardinality(InChannel) <= ChanCap
      /\ Cardinality(InChannel) \in Nat /\ ChanCap \in Nat
  BY ChannelHolds, FS_CardinalityType, StreamAssumption
<1>2. CASE pump = "ingest"
  <2>1. InChannel \cup Received = InChannel \cup {ev}
    BY <1>2 DEF Received
  <2>2. IsFiniteSet(InChannel \cup {ev})
        /\ Cardinality(InChannel \cup {ev}) \in
             {Cardinality(InChannel), Cardinality(InChannel) + 1}
    BY <1>1, FS_AddElement
  <2> QED BY <1>1, <1>2, <2>1, <2>2
<1>3. CASE pump # "ingest"
  <2>1. InChannel \cup Received = InChannel
    BY <1>3 DEF Received
  <2> QED BY <1>1, <1>3, <2>1
<1> QED BY <1>2, <1>3

\* At any moment the changes scanned and not handled are at most one line per
\* connection, what the channel holds and the event in pump's hands, for any number
\* of connections.
THEOREM BacklogIsBounded == Spec => []BacklogBounded
<1>1. IInv => BacklogBounded
  <2> SUFFICES ASSUME IInv PROVE BacklogBounded
    OBVIOUS
  <2> DEFINE Rest == {e \in Unfinished : 2 * e[2] # scanned[e[1]]}
  <2>1. TypeOK /\ Complete
    BY DEF IInv
  <2>2. ASSUME NEW e \in Rest PROVE e \in InChannel \cup Received
    <3>1. e \in AllEvents /\ e[2] \in Changes[e[1]] /\ 2 * e[2] <= scanned[e[1]]
          /\ e \notin Handled /\ 2 * e[2] # scanned[e[1]]
      BY DEF Unfinished, Scanned, Handled
    <3>2. e[1] \in Conns /\ e = <<e[1], e[2]>>
      BY <3>1, EventPairs
    <3>3. e \in Received \cup InChannel \cup Pending(e[1])
      BY <2>1, <3>1, <3>2 DEF Complete
    <3>4. e \notin Pending(e[1])
      <4> SUFFICES ASSUME e \in Pending(e[1]) PROVE FALSE
        OBVIOUS
      <4>1. handler[e[1]] = "send" /\ e = Event(e[1], scanned[e[1]])
        BY DEF Pending
      <4>2. scanned[e[1]] \in Lines(e[1]) /\ Parses(e[1], scanned[e[1]])
        BY <3>2, <4>1 DEF IInv, Sending, Begun
      <4>3. scanned[e[1]] = 2 * RequestOf(scanned[e[1]])
            /\ e = <<e[1], RequestOf(scanned[e[1]])>>
        BY <3>2, <4>1, <4>2, ParsedLine, EventOfLine
      <4>4. e[2] = RequestOf(scanned[e[1]])
        BY <4>3
      <4> QED BY <3>1, <4>3, <4>4
    <3> QED BY <3>3, <3>4
  <2>3. Rest \subseteq InChannel \cup Received
    BY <2>2
  <2>4. IsFiniteSet(InChannel \cup Received)
        /\ Cardinality(InChannel \cup Received)
             <= ChanCap + (IF pump = "ingest" THEN 1 ELSE 0)
    BY <2>1, ChannelAndPumpHold
  <2>5. IsFiniteSet(Rest) /\ Cardinality(Rest) <= Cardinality(InChannel \cup Received)
    BY <2>3, <2>4, FS_Subset
  <2>6. Cardinality(Rest) \in Nat /\ Cardinality(InChannel \cup Received) \in Nat
        /\ ChanCap \in Nat
    BY <2>4, <2>5, FS_CardinalityType, StreamAssumption
  <2> QED BY <2>4, <2>5, <2>6 DEF BacklogBounded
<1> QED BY <1>1, IInvHolds, PTL

-----------------------------------------------------------------------------
(* AuditStream implements Pipe *)

\* The event pump holds is the next change of its connection.
LEMMA NextInLine ==
  ASSUME IInv, pump = "ingest"
  PROVE  ev[1] \in Conns /\ ev = <<ev[1], ev[2]>> /\ Stream!Ripe(ev[1], ev[2])
<1>0. TypeOK /\ Begun /\ Ordered /\ Complete /\ Received = {ev}
  BY DEF IInv, Received
<1>1. ev \in AllEvents /\ ev[1] \in Conns /\ ev[2] \in Nat /\ ev = <<ev[1], ev[2]>>
  BY <1>0, Numbers, EventPairs DEF TypeOK
<1>2. ev[2] \in Changes[ev[1]] /\ 2 * ev[2] <= scanned[ev[1]] /\ scanned[ev[1]] \in Nat
  BY <1>0, <1>1 DEF Begun, TypeOK
<1>3. ev \notin Handled
  <2> SUFFICES ASSUME ev \in Handled PROVE FALSE
    OBVIOUS
  <2>1. ev[2] < ev[2]
    BY <1>0 DEF Ordered, Before
  <2> QED BY <1>1, <2>1
<1>4. ASSUME NEW j \in Changes[ev[1]], j < ev[2] PROVE <<ev[1], j>> \in Handled
  <2>1. j \in Nat /\ 2 * j < scanned[ev[1]] /\ 2 * j <= scanned[ev[1]]
    <3>1. j \in Nat
      BY <1>0, <1>1, Numbers
    <3> QED BY <1>1, <1>2, <1>4, <3>1
  <2>2. <<ev[1], j>> \in Handled \cup Received \cup InChannel \cup Pending(ev[1])
    BY <1>0, <1>1, <2>1 DEF Complete
  <2>3. <<ev[1], j>> # ev
    BY <1>1, <1>4, <2>1
  <2>4. <<ev[1], j>> \notin InChannel
    <3> SUFFICES ASSUME NEW i \in DOMAIN events, events[i] = <<ev[1], j>> PROVE FALSE
      BY DEF InChannel
    <3>1. ev[2] < j
      BY <1>0 DEF Ordered, Before
    <3> QED BY <1>1, <1>4, <2>1, <3>1
  <2>5. <<ev[1], j>> \notin Pending(ev[1])
    <3> SUFFICES ASSUME handler[ev[1]] = "send", <<ev[1], j>> = Event(ev[1], scanned[ev[1]])
                 PROVE  FALSE
      BY DEF Pending
    <3>1. scanned[ev[1]] \in Lines(ev[1]) /\ Parses(ev[1], scanned[ev[1]])
      BY <1>0, <1>1 DEF IInv, Sending, Begun
    <3>2. scanned[ev[1]] = 2 * RequestOf(scanned[ev[1]])
      BY <1>1, <3>1, ParsedLine
    <3>3. j = RequestOf(scanned[ev[1]])
      BY DEF Event
    <3> QED BY <2>1, <3>2, <3>3
  <2> QED BY <1>0, <2>2, <2>3, <2>4, <2>5
<1> QED BY <1>1, <1>2, <1>3, <1>4 DEF Stream!Ripe, Handled

\* The events of each connection are ingested in Vault's order, once, without a
\* gap but for failed ingests: the listener implements Pipe.
THEOREM StreamImplementsPipe == Spec => KeepsOrder
<1>1. Init => Stream!Init
  BY DEF Init, Stream!Init
<1>2. IInv /\ [Next]_vars => [Stream!Next]_<<got, lost>>
  <2> SUFFICES ASSUME IInv, [Next]_vars PROVE [Stream!Next]_<<got, lost>>
    OBVIOUS
  <2>1. CASE IngestOk \/ IngestFails
    <3>1. PICK c \in Conns, k \in Nat :
            ev = <<c, k>> /\ k \in Changes[c] /\ Stream!Ripe(c, k)
      <4>1. pump = "ingest"
        BY <2>1 DEF IngestOk, IngestFails
      <4>2. ev[1] \in Conns /\ ev = <<ev[1], ev[2]>> /\ Stream!Ripe(ev[1], ev[2])
        BY <4>1, NextInLine
      <4>3. ev[2] \in Changes[ev[1]] /\ ev[2] \in Nat
        BY <4>2, Numbers DEF IInv, Stream!Ripe
      <4> QED BY <4>2, <4>3
    <3>2. Stream!Deliver(c, k) \/ Stream!Lose(c, k)
      BY <2>1, <3>1 DEF IngestOk, IngestFails, Stream!Deliver, Stream!Lose
    <3> QED BY <3>1, <3>2 DEF Stream!Next
  <2>2. CASE ~(IngestOk \/ IngestFails)
    <3>1. UNCHANGED <<got, lost>>
      BY <2>2 DEF Next, vars, pumping, Signal, BindFails, SocketStep, Bind, AcceptFails,
        RunReturns, Accept, HandlerStep, ScanLine, ScanTooLong, Send, GiveUp, ScanFails,
        PumpStep, PumpReceives, PumpReturns, MainReturns
    <3> QED BY <3>1
  <2> QED BY <2>1, <2>2
<1> QED BY <1>1, <1>2, IInvHolds, PTL DEF Spec, KeepsOrder, Stream!Spec

\* What reached Ingest of a connection has no gap: of every change that was ingested
\* the changes before it were ingested or their Ingest failed, and never both.
THEOREM NoGaps ==
  Spec => [](\A e \in got \cup lost : \A j \in Changes[e[1]] :
               j < e[2] => <<e[1], j>> \in got \cup lost)
<1>1. ASSUME IInv, NEW e \in Handled, NEW j \in Changes[e[1]], j < e[2]
      PROVE  <<e[1], j>> \in Handled
  <2>1. TypeOK /\ Begun /\ Ordered /\ Complete
    BY <1>1 DEF IInv
  <2>2. e \in AllEvents /\ e[1] \in Conns /\ e[2] \in Nat /\ j \in Nat
        /\ scanned[e[1]] \in Nat
    BY <2>1, AreEvents, Numbers
  <2>3. 2 * j < scanned[e[1]]
    BY <1>1, <2>1, <2>2 DEF Begun
  <2>4. <<e[1], j>> \in Handled \cup Received \cup InChannel \cup Pending(e[1])
    BY <2>1, <2>2, <2>3 DEF Complete
  <2>5. <<e[1], j>> \notin Received \cup InChannel
    <3>1. \A f \in Received \cup InChannel : Before(e, f)
      BY <2>1 DEF Ordered, InChannel
    <3>2. ~Before(e, <<e[1], j>>)
      BY <1>1, <2>2 DEF Before
    <3> QED BY <3>1, <3>2
  <2>6. <<e[1], j>> \notin Pending(e[1])
    <3> SUFFICES ASSUME <<e[1], j>> \in Pending(e[1]) PROVE FALSE
      OBVIOUS
    <3>1. handler[e[1]] = "send" /\ <<e[1], j>> = Event(e[1], scanned[e[1]])
      BY DEF Pending
    <3>2. scanned[e[1]] \in Lines(e[1]) /\ Parses(e[1], scanned[e[1]])
      BY <1>1, <2>1, <2>2, <3>1 DEF IInv, Sending, Begun
    <3>3. scanned[e[1]] = 2 * RequestOf(scanned[e[1]])
          /\ Event(e[1], scanned[e[1]]) = <<e[1], RequestOf(scanned[e[1]])>>
      BY <2>2, <3>2, ParsedLine, EventOfLine
    <3>4. j = RequestOf(scanned[e[1]])
      BY <3>1, <3>3
    <3> QED BY <2>2, <2>3, <3>3, <3>4
  <2> QED BY <2>4, <2>5, <2>6
<1>2. IInv => \A e \in got \cup lost : \A j \in Changes[e[1]] :
                j < e[2] => <<e[1], j>> \in got \cup lost
  BY <1>1 DEF Handled
<1> QED BY <1>2, IInvHolds, PTL
=============================================================================
