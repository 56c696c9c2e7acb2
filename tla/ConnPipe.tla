------------------------------ MODULE ConnPipe ------------------------------
(***************************************************************************)
(* What a Conn promises for one session, without windows, acks, locks,     *)
(* queues, deadlines or recycling: two pipes, one in each direction.  An   *)
(* end writes until it ends its pipe; its peer reads what was written, in  *)
(* order, and learns of the end only when it has read everything.  An end  *)
(* leaves the session, which frees it for another, only when both pipes    *)
(* have ended; it may leave data unread.                                   *)
(*                                                                         *)
(* Order is implied by counting: frame n is the n-th written and the n-th  *)
(* read.  RapConn is checked to implement this specification.              *)
(***************************************************************************)
EXTENDS Naturals

CONSTANTS
    Side,      \* the two ends
    Peer(_)    \* the other end

VARIABLES
    sent,      \* frames an end has written
    rcvd,      \* frames an end has read
    ended,     \* has an end ended its pipe?
    over       \* has an end read its peer's pipe to the end, or left?

vars == <<sent, rcvd, ended, over>>

Init ==
    /\ sent = [s \in Side |-> 0]
    /\ rcvd = [s \in Side |-> 0]
    /\ ended = [s \in Side |-> FALSE]
    /\ over = [s \in Side |-> FALSE]

Complete(s, n) == ended[Peer(s)] /\ n = sent[Peer(s)]

Write(s) ==
    /\ ~ended[s]
    /\ sent' = [sent EXCEPT ![s] = @ + 1]
    /\ UNCHANGED <<rcvd, ended, over>>

Finish(s) ==
    /\ ~ended[s]
    /\ ended' = [ended EXCEPT ![s] = TRUE]
    /\ UNCHANGED <<sent, rcvd, over>>

\* The next frame is read; with the last one the reader may see the end.
Read(s) ==
    /\ ~over[s]
    /\ rcvd[s] < sent[Peer(s)]
    /\ rcvd' = [rcvd EXCEPT ![s] = @ + 1]
    /\ \/ UNCHANGED over
       \/ Complete(s, rcvd'[s]) /\ over' = [over EXCEPT ![s] = TRUE]
    /\ UNCHANGED <<sent, ended>>

Eof(s) ==
    /\ ~over[s]
    /\ Complete(s, rcvd[s])
    /\ over' = [over EXCEPT ![s] = TRUE]
    /\ UNCHANGED <<sent, rcvd, ended>>

Leave(s) ==
    /\ \A t \in Side : ended[t]
    /\ over' = [over EXCEPT ![s] = TRUE]
    /\ UNCHANGED <<sent, rcvd, ended>>

Next == \E s \in Side : Write(s) \/ Finish(s) \/ Read(s) \/ Eof(s) \/ Leave(s)

Spec == Init /\ [][Next]_vars
=============================================================================
