---------------------------- MODULE WakeupProofs ----------------------------
(* Proofs about Wakeup for every batch size and every bound.                 *)
EXTENDS Wakeup, TLAPS

\* Only the worker takes rows away, so a batch is still in the table.
BatchPresent == worker = "handle" => todo > 0 /\ todo <= ready

\* Every connection lent out is held by this subscriber or by the other pair.
Lent == inUse = other + (IF conn = "down" THEN 0 ELSE 1)

IInv == TypeOK /\ BatchPresent /\ NoLostWakeup /\ Lent

\* Without rows the inductive invariant holds initially.
LEMMA InitIInv == Init => IInv
BY WakeupAssumption DEF Init, IInv, TypeOK, BatchPresent, NoLostWakeup, Lent

\* No step of subscriber, worker, ticker or Postgres breaks it.
LEMMA Inductive == IInv /\ [Next]_vars => IInv'
<1> SUFFICES ASSUME IInv, [Next]_vars PROVE IInv'
  OBVIOUS
<1> USE WakeupAssumption
    DEF IInv, TypeOK, BatchPresent, NoLostWakeup, Lent, rows, subscriber, pool
<1>1. CASE Commit
  BY <1>1 DEF Commit
<1>2. CASE RetryDue
  BY <1>2 DEF RetryDue
<1>3. CASE Acquire \/ Listen
  BY <1>3 DEF Acquire, Listen
<1>4. CASE Receive
  BY <1>4 DEF Receive
<1>5. CASE ConnectionLost
  BY <1>5 DEF ConnectionLost, Fault
<1>5a. CASE OtherBorrows
  BY <1>5a DEF OtherBorrows
<1>5b. CASE OtherReturns
  BY <1>5b DEF OtherReturns
<1>6. CASE TickerFires
  BY <1>6 DEF TickerFires
<1>7. CASE WakeOnToken
  BY <1>7 DEF WakeOnToken
<1>8. CASE WakeOnTick
  BY <1>8 DEF WakeOnTick
<1>9. CASE FetchSome
  BY <1>9 DEF FetchSome
<1>10. CASE FetchNone
  BY <1>10 DEF FetchNone
<1>11. CASE FetchError
  BY <1>11 DEF FetchError, Fault
<1>12. CASE HandleRow
  BY <1>12 DEF HandleRow, Handled
<1>13. CASE HandleDeferred
  BY <1>13 DEF HandleDeferred, Handled, Fault
<1>14. CASE HandleError
  BY <1>14 DEF HandleError, Handled, Fault
<1>15. CASE BackToSelect
  BY <1>15 DEF BackToSelect
<1>16. CASE UNCHANGED vars
  BY <1>16 DEF vars
<1> QED
  BY <1>1, <1>2, <1>3, <1>4, <1>5, <1>5a, <1>5b, <1>6, <1>7, <1>8, <1>9, <1>10, <1>11, <1>12,
     <1>13, <1>14, <1>15, <1>16
  DEF Next, WorkerStep, SubscriberStep

\* Every reachable state has the invariant.
LEMMA Invariant == Spec => []IInv
BY InitIInv, Inductive, PTL DEF Spec

\* Tokens, ticks and connections stay within their bounds for every pool size
\* and batch size.
THEOREM TypeCorrect == Spec => []TypeOK
<1>1. IInv => TypeOK BY DEF IInv
<1> QED
  BY <1>1, Invariant, PTL

\* The one-token channel of Subscribe is enough: a dropped wake-up never leaves
\* the worker asleep over a row whose notification arrived.
THEOREM DroppedTokensAreHarmless == Spec => []NoLostWakeup
<1>1. IInv => NoLostWakeup BY DEF IInv
<1> QED
  BY <1>1, Invariant, PTL

\* With the four connections pgx opens at least, two listening subscribers and
\* the other worker always leave one for this worker.
THEOREM PoolSuffices == Spec => []WorkerFindsConnection
<1>1. IInv => WorkerFindsConnection
  BY WakeupAssumption DEF IInv, TypeOK, Lent, WorkerFindsConnection, Borrow
<1> QED
  BY <1>1, Invariant, PTL
=============================================================================
