------------------------------ MODULE ConnPool ------------------------------
(***************************************************************************)
(* The Conn pool of a client's Muxer (src/muxer.go): NewConn, NewConnWait, *)
(* AvailableConns and ConnRelease, called by any number of goroutines.     *)
(*                                                                         *)
(* A Conn comes from the channel conns, where recycled Conns wait, or is   *)
(* made for the next ID, which a compare-and-swap of connLastID reserves.  *)
(* No lock is taken.  A Conn is named by its ID.                           *)
(***************************************************************************)
EXTENDS Naturals, Sequences, FiniteSets

CONSTANTS
    Caller,      \* the goroutines that ask for a Conn, one after the other
    MaxConnID    \* the highest ID; also the capacity of conns

ASSUME MaxConnAssumption == MaxConnID \in Nat

VARIABLES
    conns,       \* mux.conns, a buffered channel
    connLastID,  \* mux.connLastID
    connLookup,  \* the IDs whose Conn in mux.connLookup releases to the pool
    pc,          \* where each caller is
    lastID,      \* the caller's copy of connLastID
    conn,        \* the Conn a caller holds, or 0
    full         \* did ConnRelease find no room?  It panics then.

vars == <<conns, connLastID, connLookup, pc, lastID, conn, full>>

ConnID == 1..MaxConnID

\* The type invariant.
TypeOK ==
    /\ conns \in Seq(ConnID)
    /\ connLastID \in 0..MaxConnID
    /\ connLookup \in SUBSET ConnID
    /\ pc \in [Caller -> {"idle", "load", "cas", "publish", "wait", "hold"}]
    /\ lastID \in [Caller -> 0..MaxConnID]
    /\ conn \in [Caller -> 0..MaxConnID]
    /\ full \in BOOLEAN

Init ==
    /\ conns = <<>>
    /\ connLastID = 0
    /\ connLookup = {}
    /\ pc = [g \in Caller |-> "idle"]
    /\ lastID = [g \in Caller |-> 0]
    /\ conn = [g \in Caller |-> 0]
    /\ full = FALSE

----------------------------------------------------------------------------
\* conn = <-mux.conns
Take(g) ==
    /\ conns # <<>>
    /\ conn' = [conn EXCEPT ![g] = Head(conns)]
    /\ conns' = Tail(conns)
    /\ pc' = [pc EXCEPT ![g] = "hold"]
    /\ UNCHANGED <<connLastID, connLookup, lastID, full>>

\* NewConn, the select: a recycled Conn, or the loop if there is none.
NewConn(g) ==
    /\ pc[g] = "idle"
    /\ \/ Take(g)
       \/ /\ conns = <<>>
          /\ pc' = [pc EXCEPT ![g] = "load"]
          /\ UNCHANGED <<conns, connLastID, connLookup, lastID, conn, full>>

\* Mutant: the limit is off by one.
Exhausted_Mutant == connLastID > MaxConnID

\* lastID >= MaxConnID
Exhausted == connLastID >= MaxConnID

\* NewConn, the loop: nil is returned when no ID is left, which NewConnWait
\* answers by waiting.
Load(g) ==
    /\ pc[g] = "load"
    /\ lastID' = [lastID EXCEPT ![g] = connLastID]
    /\ \E wait \in BOOLEAN :
          pc' = [pc EXCEPT ![g] = IF ~Exhausted THEN "cas"
                                  ELSE IF wait THEN "wait" ELSE "idle"]
    /\ UNCHANGED <<conns, connLastID, connLookup, conn, full>>

\* Mutant: the counter is stored, not compared and swapped.
Swapped_Mutant(g) == TRUE

Swapped(g) == connLastID = lastID[g]

\* Mutant: after a failed swap connLastID is not loaded again.
CAS_Mutant(g) ==
    /\ pc[g] = "cas"
    /\ Swapped(g)
    /\ connLastID' = lastID[g] + 1
    /\ conn' = [conn EXCEPT ![g] = lastID[g] + 1]
    /\ pc' = [pc EXCEPT ![g] = "publish"]
    /\ UNCHANGED <<conns, connLookup, lastID, full>>

\* CompareAndSwapInt32, and the loop again if another caller was faster.
CAS(g) ==
    /\ pc[g] = "cas"
    /\ IF Swapped(g)
       THEN /\ connLastID' = lastID[g] + 1
            /\ conn' = [conn EXCEPT ![g] = lastID[g] + 1]
            /\ pc' = [pc EXCEPT ![g] = "publish"]
       ELSE /\ pc' = [pc EXCEPT ![g] = "load"]
            /\ UNCHANGED <<connLastID, conn>>
    /\ UNCHANGED <<conns, connLookup, lastID, full>>

\* The new Conn gets its OnRecycle and replaces the one in connLookup.
Publish(g) ==
    /\ pc[g] = "publish"
    /\ connLookup' = connLookup \cup {conn[g]}
    /\ pc' = [pc EXCEPT ![g] = "hold"]
    /\ UNCHANGED <<conns, connLastID, lastID, conn, full>>

\* NewConnWait, the select: a Conn is released, or the timer expires.
WaitTake(g) == pc[g] = "wait" /\ Take(g)

WaitTimeout(g) ==
    /\ pc[g] = "wait"
    /\ pc' = [pc EXCEPT ![g] = "idle"]
    /\ UNCHANGED <<conns, connLastID, connLookup, lastID, conn, full>>

\* Mutant: the Conn is dropped.
ConnRelease_Mutant(g) ==
    /\ pc[g] = "hold"
    /\ pc' = [pc EXCEPT ![g] = "idle"]
    /\ conn' = [conn EXCEPT ![g] = 0]
    /\ UNCHANGED <<conns, connLastID, connLookup, lastID, full>>

\* ConnRelease, called when the session of the holder is over.
ConnRelease(g) ==
    /\ pc[g] = "hold"
    /\ pc' = [pc EXCEPT ![g] = "idle"]
    /\ conn' = [conn EXCEPT ![g] = 0]
    /\ IF Len(conns) < MaxConnID
       THEN conns' = Append(conns, conn[g]) /\ UNCHANGED full
       ELSE full' = TRUE /\ UNCHANGED conns
    /\ UNCHANGED <<connLastID, connLookup, lastID>>

\* AvailableConns changes nothing and is read as a state function.
AvailableConns ==
    Len(conns) + (IF connLastID < MaxConnID THEN MaxConnID - connLastID ELSE 0)

Next ==
    \E g \in Caller : \/ NewConn(g) \/ Load(g) \/ CAS(g) \/ Publish(g)
                      \/ WaitTake(g) \/ WaitTimeout(g) \/ ConnRelease(g)

Spec == Init /\ [][Next]_vars

\* A goroutine inside NewConn runs, and the timer of NewConnWait expires;
\* nobody has to release a Conn.
Fairness ==
    \A g \in Caller : /\ WF_vars(Load(g) \/ CAS(g) \/ Publish(g))
                      /\ WF_vars(WaitTake(g) \/ WaitTimeout(g))

FairSpec == Spec /\ Fairness

----------------------------------------------------------------------------
Holders == {g \in Caller : conn[g] # 0}

\* Every ID that was reserved is in one place: with one caller, or once in
\* the channel.  Two callers never get the same Conn, and none is lost.
OneOwner ==
    /\ \A g, h \in Holders : conn[g] = conn[h] => g = h
    /\ \A g \in Holders : \A i \in DOMAIN conns : conn[g] # conns[i]
    /\ \A i, j \in DOMAIN conns : conns[i] = conns[j] => i = j
    /\ \A c \in 1..connLastID : \/ \E g \in Holders : conn[g] = c
                                \/ \E i \in DOMAIN conns : conns[i] = c

\* ConnRelease never finds the channel full, so it never panics.
ReleaseFits == ~full

\* AvailableConns, if nothing changes between its two loads, counts the Conns
\* that are with no caller, whatever the callers are in the middle of.
AvailableExact == AvailableConns = MaxConnID - Cardinality(Holders)

\* NewConn and NewConnWait return: the loop ends, since a compare-and-swap
\* only fails when another caller has taken an ID.
NewConnReturns ==
    \A g \in Caller : pc[g] \in {"load", "wait"} ~> pc[g] \in {"idle", "hold"}
=============================================================================
