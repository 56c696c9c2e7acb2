------------------------- MODULE ConnDeadlineProofs -------------------------
(***************************************************************************)
(* connDeadline is safe for any number of waiters and channels.            *)
(***************************************************************************)
EXTENDS ConnDeadline, TLAPS

IInv == TypeOK /\ TimerOwnsChannel /\ NoDoubleClose /\ BlockedCallsFollow

\* The initial state satisfies the inductive invariant.
LEMMA InitIInv == Init => IInv
<1> SUFFICES ASSUME Init PROVE IInv
  OBVIOUS
<1>1. 1 \in 1..MaxChan /\ 0 \in 0..MaxChan
  BY ChanAssumption
<1>2. TypeOK
  BY <1>1, Zenon DEF Init, TypeOK, Time
<1>3. TimerOwnsChannel /\ NoDoubleClose
  BY DEF Init, TimerOwnsChannel, NoDoubleClose
<1>4. BlockedCallsFollow
  BY Zenon DEF Init, BlockedCallsFollow
<1> QED
  BY <1>2, <1>3, <1>4 DEF IInv

\* Every step preserves the inductive invariant.
LEMMA NextIInv == IInv /\ [Next]_vars => IInv'
<1> SUFFICES ASSUME IInv, [Next]_vars PROVE IInv'
  OBVIOUS
<1> USE ChanAssumption DEF IInv, TypeOK, TimerOwnsChannel, NoDoubleClose,
                           BlockedCallsFollow
<1>1. CASE \E t \in Time : Set(t)
  BY <1>1 DEF Set
<1>2. CASE SetZero
  BY <1>2 DEF SetZero, CallbackOver, Reopen
<1>3. CASE SetFuture
  BY <1>3 DEF SetFuture, CallbackOver, Reopen
<1>4. CASE SetPast
  <2>1. UNCHANGED <<cancel, callbacks, waits>> /\ timer' = "nil"
    BY <1>4 DEF SetPast
  <2>2. callbacks = 0
    BY <1>4 DEF SetPast, CallbackOver
  <2>3. setting' = "none" /\ panicked' = FALSE /\ closed' = closed \cup {cancel}
    BY <1>4 DEF SetPast, Close
  <2>4. closed' \in SUBSET (1..MaxChan) /\ \A c \in closed' : c <= cancel'
    BY <2>1, <2>3
  <2>5. TypeOK'
    BY <2>1, <2>3, <2>4
  <2>6. TimerOwnsChannel'
    BY <2>1, <2>2, <2>3, <2>4
  <2>7. BlockedCallsFollow'
    BY <2>1, <2>3
  <2> QED
    BY <2>3, <2>5, <2>6, <2>7
<1>5. CASE Expire
  BY <1>5 DEF Expire
<1>6. CASE Callback
  BY <1>6 DEF Callback, Close
<1>7. CASE \E w \in Waiter : Wait(w)
  BY <1>7 DEF Wait
<1>8. CASE \E w \in Waiter : TimedOut(w) \/ Served(w)
  <2>1. PICK w \in Waiter : TimedOut(w) \/ Served(w)
    BY <1>8
  <2>2. UNCHANGED <<cancel, closed, timer, callbacks, setting, panicked>>
    BY <2>1 DEF TimedOut, Served
  <2>3. waits' = [waits EXCEPT ![w] = 0]
    BY <2>1 DEF TimedOut, Served
  <2>4. \A v \in Waiter : waits'[v] \in {0, waits[v]}
    BY <2>3
  <2>5. TypeOK'
    BY <2>2, <2>3
  <2>6. BlockedCallsFollow'
    BY <2>2, <2>4
  <2> QED
    BY <2>2, <2>5, <2>6
<1>9. CASE UNCHANGED vars
  BY <1>9 DEF vars
<1> QED
  BY <1>1, <1>2, <1>3, <1>4, <1>5, <1>6, <1>7, <1>8, <1>9 DEF Next

\* The inductive invariant holds of every behaviour of a deadline.
THEOREM Invariance == Spec => []IInv
BY InitIInv, NextIInv, PTL DEF Spec

\* The channel of a deadline is never closed twice, although the callback
\* closes it without taking mu.
THEOREM DeadlineSafe == Spec => []NoDoubleClose
<1>1. IInv => NoDoubleClose
  BY DEF IInv
<1> QED
  BY <1>1, Invariance, PTL

\* Setting a deadline always reaches the calls that are already blocked.
THEOREM DeadlineReachesBlocked == Spec => []BlockedCallsFollow
<1>1. IInv => BlockedCallsFollow
  BY DEF IInv
<1> QED
  BY <1>1, Invariance, PTL

\* The timer that SetDeadline keeps and the callback it may have started own
\* the current channel: while either is there the channel is open, there is at
\* most one callback, and once an expired timer's callback has returned the
\* channel is closed.
THEOREM TimerIsOwner == Spec => []TimerOwnsChannel
<1>1. IInv => TimerOwnsChannel
  BY DEF IInv
<1> QED
  BY <1>1, Invariance, PTL
=============================================================================
