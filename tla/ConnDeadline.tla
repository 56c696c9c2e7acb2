---------------------------- MODULE ConnDeadline ----------------------------
(***************************************************************************)
(* connDeadline (src/conn.go): a deadline that is set again and again      *)
(* while reads and writes wait for the channel it closes when it expires.  *)
(*                                                                         *)
(* set runs under mu; the timer's callback does not.  The callback closes  *)
(* whatever channel d.cancel holds when it runs, so set must not replace   *)
(* or close the channel while a callback is on its way: it waits for it.   *)
(***************************************************************************)
EXTENDS Naturals

CONSTANTS
    Waiter,      \* goroutines blocked in readFrame or writeFrame
    MaxChan      \* bound: how many channels are made

ASSUME ChanAssumption == MaxChan \in Nat \ {0}

VARIABLES
    cancel,      \* d.cancel: the channel, by the order in which it was made
    closed,      \* the channels that are closed
    timer,       \* d.timer: nil, running or expired
    callbacks,   \* how many callbacks have started and not yet ended
    setting,     \* the argument of the set that holds mu, or "none"
    waits,       \* waits[w]: the channel w got from wait, or 0
    panicked     \* was a closed channel closed?

vars == <<cancel, closed, timer, callbacks, setting, waits, panicked>>

Time == {"zero", "future", "past"}

\* The type invariant.
TypeOK ==
    /\ cancel \in 1..MaxChan
    /\ closed \in SUBSET (1..MaxChan)
    /\ timer \in {"nil", "running", "expired"}
    /\ callbacks \in Nat
    /\ setting \in Time \cup {"none"}
    /\ waits \in [Waiter -> 0..MaxChan]
    /\ panicked \in BOOLEAN

Init ==
    /\ cancel = 1
    /\ closed = {}
    /\ timer = "nil"
    /\ callbacks = 0
    /\ setting = "none"
    /\ waits = [w \in Waiter |-> 0]
    /\ panicked = FALSE

\* Mutant: the channel is not closed.
Close_Mutant == UNCHANGED <<closed, panicked>>

\* close(d.cancel)
Close ==
    /\ closed' = closed \cup {cancel}
    /\ panicked' = (panicked \/ cancel \in closed)

----------------------------------------------------------------------------
\* set gets mu, and Stop ends a running timer.
Set(t) ==
    /\ setting = "none"
    /\ setting' = t
    /\ timer' = IF timer = "running" THEN "nil" ELSE timer
    /\ UNCHANGED <<cancel, closed, callbacks, waits, panicked>>

\* Mutant: set does not wait for a callback that has started.
CallbackOver_Mutant == TRUE

\* <-d.cancel, when Stop returned false
CallbackOver == timer = "expired" => cancel \in closed

\* Mutant: every set makes a channel.
Reopen_Mutant ==
    /\ cancel < MaxChan
    /\ cancel' = cancel + 1
    /\ UNCHANGED <<closed, panicked>>

\* The channel is replaced if it is closed.
Reopen ==
    /\ cancel \in closed => cancel < MaxChan
    /\ cancel' = IF cancel \in closed THEN cancel + 1 ELSE cancel
    /\ UNCHANGED <<closed, panicked>>

\* The rest of set: there is no deadline, it is in the future, or it has passed.
SetZero ==
    /\ setting = "zero"
    /\ CallbackOver
    /\ Reopen
    /\ timer' = "nil"
    /\ setting' = "none"
    /\ UNCHANGED <<callbacks, waits>>

SetFuture ==
    /\ setting = "future"
    /\ CallbackOver
    /\ Reopen
    /\ timer' = "running"
    /\ setting' = "none"
    /\ UNCHANGED <<callbacks, waits>>

SetPast ==
    /\ setting = "past"
    /\ CallbackOver
    /\ IF cancel \in closed THEN UNCHANGED <<closed, panicked>> ELSE Close
    /\ timer' = "nil"
    /\ setting' = "none"
    /\ UNCHANGED <<cancel, callbacks, waits>>

\* The timer expires and starts its callback.
Expire ==
    /\ timer = "running"
    /\ timer' = "expired"
    /\ callbacks' = callbacks + 1
    /\ UNCHANGED <<cancel, closed, setting, waits, panicked>>

\* Mutant: the callback takes mu.
Callback_Mutant ==
    /\ setting = "none"
    /\ callbacks > 0
    /\ Close
    /\ callbacks' = callbacks - 1
    /\ UNCHANGED <<cancel, timer, setting, waits>>

\* The callback closes the channel that d.cancel holds now.
Callback ==
    /\ callbacks > 0
    /\ Close
    /\ callbacks' = callbacks - 1
    /\ UNCHANGED <<cancel, timer, setting, waits>>

\* wait, which needs mu, and the select that blocks on its result.
Wait(w) ==
    /\ waits[w] = 0
    /\ setting = "none"
    /\ waits' = [waits EXCEPT ![w] = cancel]
    /\ UNCHANGED <<cancel, closed, timer, callbacks, setting, panicked>>

TimedOut(w) ==
    /\ waits[w] \in closed
    /\ waits' = [waits EXCEPT ![w] = 0]
    /\ UNCHANGED <<cancel, closed, timer, callbacks, setting, panicked>>

\* The select ends for another reason.
Served(w) ==
    /\ waits[w] # 0
    /\ waits' = [waits EXCEPT ![w] = 0]
    /\ UNCHANGED <<cancel, closed, timer, callbacks, setting, panicked>>

Next ==
    \/ \E t \in Time : Set(t)
    \/ SetZero \/ SetFuture \/ SetPast
    \/ Expire \/ Callback
    \/ \E w \in Waiter : Wait(w) \/ TimedOut(w) \/ Served(w)

Spec == Init /\ [][Next]_vars

\* Time passes, callbacks run, set continues when it can, and a select whose
\* channel is closed is woken.  Nobody has to call set or wait.
Fairness ==
    /\ WF_vars(Expire)
    /\ WF_vars(Callback)
    /\ WF_vars(SetZero \/ SetFuture \/ SetPast)
    /\ \A w \in Waiter : WF_vars(TimedOut(w))

FairSpec == Spec /\ Fairness

----------------------------------------------------------------------------
\* Neither set nor the callback closes a channel that is already closed,
\* which would panic: the callback's unlocked use of d.cancel is safe.
NoDoubleClose == ~panicked

\* A deadline that is set applies to the calls that are already blocked
\* ("and any currently-blocked Read call"): they wait for the channel that
\* will be closed next, or for one that is closed.
BlockedCallsFollow ==
    \A w \in Waiter : waits[w] # 0 => waits[w] \in {cancel} \cup closed

\* d.cancel is open while a timer runs or a callback is on its way, there is
\* at most one callback, and it belongs to the timer that d.timer holds.  No
\* channel is closed that was not yet made.
TimerOwnsChannel ==
    /\ \A c \in closed : c <= cancel
    /\ callbacks <= 1
    /\ callbacks = 1 => timer = "expired"
    /\ timer = "running" \/ callbacks = 1 => cancel \notin closed
    /\ timer = "expired" /\ callbacks = 0 => cancel \in closed
    /\ timer = "running" => setting = "none"

\* A call blocked on a deadline whose timer runs does not stay blocked for
\* ever, unless set is called again.
Expires ==
    \A w \in Waiter :
        timer # "nil" /\ waits[w] = cancel
            ~> waits[w] = 0 \/ setting # "none"

\* set returns: it never waits for a callback that does not come.
SetReturns == setting # "none" /\ cancel < MaxChan ~> setting = "none"
=============================================================================
