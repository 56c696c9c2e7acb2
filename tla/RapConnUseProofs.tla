-------------------------- MODULE RapConnUseProofs --------------------------
(***************************************************************************)
(* What RapConn promises to those who use a Conn as its documentation      *)
(* asks, for every window size, every number of sessions and frames, and   *)
(* whichever ends copy, are sequential or have deadlines, and whenever     *)
(* their Muxers are closed: no panic, no lost window unit, no gap in a     *)
(* pipe, and no frame of one session in another.  And that a session is    *)
(* the pair of pipes that ConnPipe promises.                               *)
(***************************************************************************)
EXTENDS RapConnProofs, FiniteSetTheorems

(***************************************************************************)
(* A Conn is flushed before it is closed and not read or closed after      *)
(* that.  An ID is used for a second session only if the client waits for  *)
(* the server's final frame before it closes.                              *)
(***************************************************************************)
Disciplined ==
    /\ SelfClosing = {} /\ ~UnflushedClose /\ ~ReadAfterClose
    /\ MaxSessions > 1 => EarlyClose \subseteq {"server"}

----------------------------------------------------------------------------
(* Queues of frames.                                                       *)

IsFinalOf(f, k) == f.type \in Final /\ f.session = k
IsDataOf(f, k) == f.type = "data" /\ f.session = k

Contents(q) == {q[i] : i \in DOMAIN q}

\* Sessions follow each other, nothing follows a session's final frame, and
\* data frames are in the order of their numbers.
InOrder(f, g) ==
    /\ f.session <= g.session
    /\ f.type \in Final => f.session < g.session
    /\ f.type = "data" /\ IsDataOf(g, f.session) => f.n < g.n

Ordered(q) == \A i, j \in DOMAIN q : i < j => InOrder(q[i], q[j])

\* The data frames b + 1 to t of session k are in q.
AllIn(q, k, b, t) ==
    \A m \in Nat : b < m /\ m <= t =>
        \E f \in Contents(q) : IsDataOf(f, k) /\ f.n = m

\* The data frames of session k in q come after frame b; a final frame has the
\* number of the last one.
Numbered(q, k, b) ==
    /\ \A f \in Contents(q) : IsDataOf(f, k) => f.n > b
    /\ \A f \in Contents(q) : IsFinalOf(f, k) =>
          /\ b <= f.n
          /\ \A g \in Contents(q) : IsDataOf(g, k) => g.n <= f.n
          /\ AllIn(q, k, b, f.n)

\* Of the t data frames of session k those after frame b are in q.
Covered(q, k, b, t) ==
    /\ b <= t
    /\ \A f \in Contents(q) : IsDataOf(f, k) => f.n <= t
    /\ AllIn(q, k, b, t)

----------------------------------------------------------------------------
(* The inductive invariant.                                                *)

\* Has the client left the server's session, or was it never in it?
ClientGone == pooled \/ session["client"] # session["server"]

\* Is there a final frame of the end's peer's session on its way to the peer?
FinalFor(s) == \E f \in Contents(link[s]) : IsFinalOf(f, session[Peer(s)])

\* A Conn outside a session is as new, and one that has sent its final frame
\* is not used any more.
Calls(s) ==
    /\ late[s] = 0
    /\ open[s] => InSession(s) /\ ~localClosed[s]
    /\ InSession(s) => open[s] \/ localClosed[s]
    /\ localSentFinal[s] => wpc[s] = "idle" /\ rpc[s] = "idle"
    /\ localClosed[s] => fdw[s] # "data"

Clean(s) ==
    ~InSession(s) =>
        /\ ~localClosed[s] /\ ~localSentFinal[s] /\ ~remoteSentFinal[s]
        /\ wpc[s] = "idle" /\ rpc[s] = "idle"
        /\ sendWindow[s] = SendWindowSize /\ ackCh[s] = 0 /\ readCh[s] = <<>>

\* The server is in the client's session or in the one before.
Sessions ==
    /\ session["server"] <= session["client"]
    /\ session["client"] <= session["server"] + 1
    /\ pooled => session["client"] = session["server"]
    /\ InSession("server") => session["server"] > 0
    /\ session["client"] = session["server"] /\ ~pooled /\ ~InSession("server")
          => localSentFinal["client"]

\* While the server has not started the client's session, the client has
\* received nothing in it.
Unheard ==
    session["client"] # session["server"] =>
        /\ link["server"] = <<>>
        /\ ~remoteSentFinal["client"]
        /\ readCh["client"] = <<>> /\ rcvd["client"] = 0
        /\ rpc["client"] \in {"idle", "select"}
        /\ \A f \in Contents(link["client"]) :
              f.session = session["client"] => f.type \in {"data", "final"}

\* The frames on their way from s, and those who are to receive them.
Traffic(s) ==
    LET p == Peer(s) IN
    \A f \in Contents(link[s]) :
       /\ f.session \in {session[s], session[p]}
       /\ f.session = session[p] => InSession(p) /\ ~remoteSentFinal[p]
       /\ IsFinalOf(f, session[s]) /\ InSession(s) => localSentFinal[s]
       /\ f.type = "finalAck" /\ f.session = session[p] => localSentFinal[p]

\* A final frame is received after it was sent.
FinalSent(s) ==
    LET p == Peer(s) IN
    remoteSentFinal[s] /\ session[p] = session[s] /\ InSession(p)
       => localSentFinal[p]

\* The client's final frame is on its way until the server has received it.
FinalArrives ==
    localSentFinal["client"] /\ ~aborted["client"] =>
        \/ /\ session["server"] = session["client"]
           /\ remoteSentFinal["server"] \/ ~InSession("server")
        \/ \E f \in Contents(link["client"]) :
              IsFinalOf(f, session["client"])

\* The client's Muxer is closed, and the server gets nothing of a later
\* session from it.
Silenced ==
    /\ aborted["client"] /\ wpc["client"] # "send"
    /\ \A f \in Contents(link["client"]) : f.session <= session["server"]

\* A server that the client has left has sent its final frame; it is recycled
\* before it gets a frame of the next session, if it ever gets one.
ServerFollows ==
    ClientGone /\ InSession("server") =>
        /\ localSentFinal["server"]
        /\ MaxSessions > 1 => \/ FinalFor("client")
                              \/ mpc["server"] = "recycle"
                              \/ Silenced

\* With more than one session, the server's final frame comes first, and the
\* client's is an answer to it.
ServerFirst ==
    MaxSessions > 1 =>
        /\ localClosed["client"] => remoteSentFinal["client"]
        /\ remoteSentFinal["server"] => mpc["server"] = "recycle"

\* ReadFrom submits a frame to the end that is in its session.
Submits(s) ==
    mpc[s] = "submit" => InSession(s) /\ Incoming(s).session = session[s]

\* What the peer of s has got of session k.
Base(s, k) ==
    IF session[Peer(s)] = k THEN rcvd[Peer(s)] + Len(readCh[Peer(s)]) ELSE 0

\* The peer of s has not left the session of s.
NotLeft(s) ==
    IF session[Peer(s)] = session[s] THEN InSession(Peer(s)) ELSE s = "client"

\* What the peer of s has got in its session, and is to get, has no gap.
Sound(s) ==
    LET k == session[Peer(s)] IN
    InSession(Peer(s)) => \E t \in Nat : Covered(link[s], k, Base(s, k), t)

Stream(s) ==
    /\ Ordered(link[s])
    /\ \A k \in Nat : Numbered(link[s], k, Base(s, k))
    /\ NotLeft(s) => Covered(link[s], session[s], Base(s, session[s]), sent[s])
    /\ Sound(s)

\* PipeIntact, for one end
Queue(s) ==
    /\ \A i \in DOMAIN readCh[s] : /\ readCh[s][i].session = session[s]
                                   /\ readCh[s][i].n = rcvd[s] + i
    /\ remoteSentFinal[s] => rcvd[s] + Len(readCh[s]) = total[s]

\* WindowConserved, for one end
Window(s) ==
    /\ InSession(s) => WindowUnits(s) <= SendWindowSize
    /\ open[s] /\ (\A t \in Side : ~aborted[t])
          => WindowUnits(s) = SendWindowSize

\* The peer has room for what s has sent it, even if s is in a session of
\* its own by now.
Room(s) ==
    InSession(Peer(s)) =>
        FramesIn(link[s], "data", session[Peer(s)]) + Len(readCh[Peer(s)])
           <= SendWindowSize

Control ==
    /\ \A s \in Side : Calls(s) /\ Clean(s)
    /\ Sessions /\ Unheard /\ FinalArrives /\ ServerFollows /\ ServerFirst
    /\ \A s \in Side : Traffic(s) /\ FinalSent(s) /\ Submits(s)

Data ==
    \A s \in Side : Stream(s) /\ Queue(s) /\ Window(s) /\ Room(s)

UInv == IInv /\ NoPanic /\ Control /\ Data

----------------------------------------------------------------------------
(* Queues: what Append and Tail do to each of these.                       *)

\* A frame that is appended is the last one.
LEMMA AppendFacts ==
    ASSUME NEW q \in Seq(Frame), NEW f \in Frame
    PROVE  /\ Append(q, f) \in Seq(Frame) /\ Append(q, f) # <<>>
           /\ Len(q) \in Nat
           /\ DOMAIN q = 1..Len(q)
           /\ DOMAIN Append(q, f) = 1..(Len(q) + 1)
           /\ \A i \in 1..Len(q) : Append(q, f)[i] = q[i]
           /\ Append(q, f)[Len(q) + 1] = f
BY AppendProperties, LenProperties

\* The tail is what follows the first frame.
LEMMA TailFacts ==
    ASSUME NEW q \in Seq(Frame), q # <<>>
    PROVE  /\ Tail(q) \in Seq(Frame) /\ Head(q) \in Frame
           /\ Len(q) \in Nat \ {0}
           /\ DOMAIN q = 1..Len(q) /\ Head(q) = q[1]
           /\ DOMAIN Tail(q) = 1..(Len(q) - 1) /\ Len(Tail(q)) = Len(q) - 1
           /\ \A i \in 1..(Len(q) - 1) : Tail(q)[i] = q[i + 1]
<1>1. /\ Tail(q) \in Seq(Frame) /\ Head(q) \in Frame
      /\ Len(Tail(q)) = Len(q) - 1
      /\ \A i \in 1..Len(Tail(q)) : Tail(q)[i] = q[i + 1]
  BY HeadTailProperties
<1>2. Len(q) \in Nat \ {0}
  BY EmptySeq
<1>3. DOMAIN q = 1..Len(q) /\ DOMAIN Tail(q) = 1..Len(Tail(q))
  BY <1>1, LenProperties
<1> QED
  BY <1>1, <1>2, <1>3

\* The frames of a queue with one more.
LEMMA AppendContents ==
    ASSUME NEW q \in Seq(Frame), NEW f \in Frame
    PROVE  Contents(Append(q, f)) = Contents(q) \cup {f}
<1>1. \A i \in 1..Len(q) : Append(q, f)[i] = q[i]
  BY AppendFacts
<1>2. \A g \in Contents(Append(q, f)) : g \in Contents(q) \cup {f}
  <2> SUFFICES ASSUME NEW i \in 1..(Len(q) + 1), Append(q, f)[i] # f
               PROVE  Append(q, f)[i] \in Contents(q)
    BY AppendFacts DEF Contents
  <2> QED
    BY AppendFacts DEF Contents
<1>3. \A g \in Contents(q) : g \in Contents(Append(q, f))
  <2> SUFFICES ASSUME NEW i \in 1..Len(q)
               PROVE  q[i] \in Contents(Append(q, f))
    BY AppendFacts DEF Contents
  <2>1. i \in DOMAIN Append(q, f) /\ q[i] = Append(q, f)[i]
    BY AppendFacts
  <2> QED
    BY <2>1 DEF Contents
<1>4. f \in Contents(Append(q, f))
  <2>1. Len(q) + 1 \in DOMAIN Append(q, f) /\ Append(q, f)[Len(q) + 1] = f
    BY AppendFacts
  <2> QED
    BY <2>1 DEF Contents
<1> QED
  BY <1>2, <1>3, <1>4

\* The frames of a queue are its first one and those of its tail.
LEMMA TailContents ==
    ASSUME NEW q \in Seq(Frame), q # <<>>
    PROVE  /\ Contents(q) = Contents(Tail(q)) \cup {Head(q)}
           /\ Head(q) \in Contents(q)
<1>1. Head(q) \in Contents(q)
  BY TailFacts DEF Contents
<1>2. \A g \in Contents(Tail(q)) : g \in Contents(q)
  <2> SUFFICES ASSUME NEW i \in 1..(Len(q) - 1)
               PROVE  Tail(q)[i] \in Contents(q)
    BY TailFacts DEF Contents
  <2>1. i + 1 \in DOMAIN q /\ Tail(q)[i] = q[i + 1]
    BY TailFacts
  <2> QED
    BY <2>1 DEF Contents
<1>3. \A g \in Contents(q) : g \in Contents(Tail(q)) \cup {Head(q)}
  <2> SUFFICES ASSUME NEW i \in 1..Len(q), i # 1
               PROVE  q[i] \in Contents(Tail(q))
    BY TailFacts DEF Contents
  <2>1. i - 1 \in DOMAIN Tail(q) /\ Tail(q)[i - 1] = q[i]
    BY TailFacts
  <2> QED
    BY <2>1 DEF Contents
<1> QED
  BY <1>1, <1>2, <1>3

\* The frames of a queue are frames, and an empty queue has none.
LEMMA ContentsType ==
    /\ \A q \in Seq(Frame) : Contents(q) \subseteq Frame
    /\ Contents(<<>>) = {}
    /\ \A q \in Seq(Frame) : q # <<>> => Contents(q) # {}
<1>1. ASSUME NEW q \in Seq(Frame) PROVE Contents(q) \subseteq Frame
  BY LenProperties DEF Contents
<1>2. Contents(<<>>) = {}
  BY DEF Contents
<1>3. ASSUME NEW q \in Seq(Frame), q # <<>> PROVE Contents(q) # {}
  BY <1>3, TailContents
<1> QED
  BY <1>1, <1>2, <1>3

\* What a frame must be like to follow the others.
LEMMA AppendOrdered ==
    ASSUME NEW q \in Seq(Frame), NEW f \in Frame, Ordered(q),
           \A g \in Contents(q) : InOrder(g, f)
    PROVE  Ordered(Append(q, f))
<1> SUFFICES ASSUME NEW i \in DOMAIN Append(q, f), NEW j \in DOMAIN Append(q, f), i < j
             PROVE  InOrder(Append(q, f)[i], Append(q, f)[j])
  BY DEF Ordered
<1>1. i \in 1..Len(q) /\ Append(q, f)[i] = q[i] /\ q[i] \in Contents(q)
  BY AppendFacts DEF Contents
<1>2. CASE j = Len(q) + 1
  BY <1>1, <1>2, AppendFacts
<1>3. CASE j # Len(q) + 1
  BY <1>1, <1>3, AppendFacts DEF Ordered
<1> QED
  BY <1>2, <1>3

\* The first frame comes before the others, which keep their order.
LEMMA TailOrdered ==
    ASSUME NEW q \in Seq(Frame), q # <<>>, Ordered(q)
    PROVE  /\ Ordered(Tail(q))
           /\ \A g \in Contents(Tail(q)) : InOrder(Head(q), g)
<1>1. Ordered(Tail(q))
  <2> SUFFICES ASSUME NEW i \in 1..(Len(q) - 1), NEW j \in 1..(Len(q) - 1), i < j
               PROVE  InOrder(Tail(q)[i], Tail(q)[j])
    BY TailFacts DEF Ordered
  <2>1. /\ i + 1 \in DOMAIN q /\ j + 1 \in DOMAIN q /\ i + 1 < j + 1
        /\ Tail(q)[i] = q[i + 1] /\ Tail(q)[j] = q[j + 1]
    BY TailFacts
  <2> QED
    BY <2>1 DEF Ordered
<1>2. ASSUME NEW i \in DOMAIN Tail(q) PROVE InOrder(Head(q), Tail(q)[i])
  <2>1. /\ 1 \in DOMAIN q /\ i + 1 \in DOMAIN q /\ 1 < i + 1
        /\ Head(q) = q[1] /\ Tail(q)[i] = q[i + 1]
    BY TailFacts
  <2> QED
    BY <2>1 DEF Ordered
<1> QED
  BY <1>1, <1>2 DEF Contents

\* Moving every position of a set down by one does not change its size.
LEMMA ShiftedDown ==
    ASSUME NEW S \in SUBSET Nat, IsFiniteSet(S), NEW T \in SUBSET Nat,
           \A i \in Nat : i \in T <=> i + 1 \in S, 0 \notin S
    PROVE  Cardinality(T) = Cardinality(S)
<1> DEFINE down == [i \in S |-> i - 1]
<1>1. \A i \in S : i - 1 \in T
  OBVIOUS
<1>2. down \in [S -> T]
  BY <1>1
<1>3. \A a, b \in S : down[a] = down[b] => a = b
  OBVIOUS
<1>4. \A t \in T : \E i \in S : down[i] = t
  <2> SUFFICES ASSUME NEW t \in T PROVE \E i \in S : down[i] = t
    OBVIOUS
  <2>1. t + 1 \in S /\ down[t + 1] = t
    OBVIOUS
  <2> QED
    BY <2>1
<1>5. ExistsBijection(S, T)
  BY <1>2, <1>3, <1>4 DEF ExistsBijection, Bijection, Injection, IsInjective, Surjection
<1> QED
  BY <1>5, FS_Bijection

Positions(q, type, k) == {i \in DOMAIN q : q[i].type = type /\ q[i].session = k}

\* The frames that FramesIn counts are finitely many.
LEMMA PositionsFinite ==
    ASSUME NEW q \in Seq(Frame), NEW type \in {"data", "ack"}, NEW k \in Nat
    PROVE  /\ IsFiniteSet(Positions(q, type, k))
           /\ Positions(q, type, k) \in SUBSET Nat
           /\ FramesIn(q, type, k) = Cardinality(Positions(q, type, k))
           /\ FramesIn(q, type, k) \in Nat
<1>1. Len(q) \in Nat /\ DOMAIN q = 1..Len(q)
  BY LenProperties
<1>2. IsFiniteSet(1..Len(q))
  BY <1>1, FS_Interval
<1>3. Positions(q, type, k) \in SUBSET (1..Len(q))
  BY <1>1 DEF Positions
<1>4. IsFiniteSet(Positions(q, type, k))
  BY <1>2, <1>3, FS_Subset
<1>5. FramesIn(q, type, k) = Cardinality(Positions(q, type, k))
  BY DEF FramesIn, Positions
<1> QED
  BY <1>1, <1>3, <1>4, <1>5, FS_CardinalityType

\* FramesIn counts a frame that is appended.
LEMMA AppendCount ==
    ASSUME NEW q \in Seq(Frame), NEW f \in Frame, NEW type \in {"data", "ack"}, NEW k \in Nat
    PROVE  FramesIn(Append(q, f), type, k)
              = FramesIn(q, type, k) + (IF f.type = type /\ f.session = k THEN 1 ELSE 0)
<1> DEFINE S == Positions(q, type, k)
           T == Positions(Append(q, f), type, k)
           n == Len(q) + 1
<1>1. FramesIn(q, type, k) = Cardinality(S) /\ IsFiniteSet(S) /\ Cardinality(S) \in Nat
  BY PositionsFinite, ZenonT(40)
<1>2. FramesIn(Append(q, f), type, k) = Cardinality(T)
  BY AppendFacts, PositionsFinite
<1>3. n \notin S
  BY AppendFacts DEF Positions
<1>4. CASE f.type = type /\ f.session = k
  <2>1. T = S \cup {n}
    BY <1>4, AppendFacts DEF Positions
  <2>2. Cardinality(S \cup {n}) = Cardinality(S) + 1
    BY <1>1, <1>3, FS_AddElement
  <2> QED
    BY <1>1, <1>2, <1>4, <2>1, <2>2
<1>5. CASE ~(f.type = type /\ f.session = k)
  <2>1. T = S
    BY <1>5, AppendFacts DEF Positions
  <2> QED
    BY <1>1, <1>2, <1>5, <2>1
<1> QED
  BY <1>4, <1>5

\* FramesIn counts the first frame and those of the tail.
LEMMA TailCount ==
    ASSUME NEW q \in Seq(Frame), q # <<>>, NEW type \in {"data", "ack"}, NEW k \in Nat
    PROVE  FramesIn(q, type, k)
              = FramesIn(Tail(q), type, k)
                + (IF Head(q).type = type /\ Head(q).session = k THEN 1 ELSE 0)
<1> DEFINE S == Positions(q, type, k)
           T == Positions(Tail(q), type, k)
<1>1. FramesIn(q, type, k) = Cardinality(S) /\ IsFiniteSet(S) /\ Cardinality(S) \in Nat
  BY PositionsFinite, ZenonT(40)
<1>2. FramesIn(Tail(q), type, k) = Cardinality(T) /\ Cardinality(T) \in Nat /\ T \in SUBSET Nat
  BY TailFacts, PositionsFinite, ZenonT(40)
<1>3. IsFiniteSet(S \ {1}) /\ S \ {1} \in SUBSET Nat /\ 0 \notin S \ {1}
  <2>1. IsFiniteSet(S \ {1})
    BY <1>1, FS_RemoveElement
  <2> QED
    BY <2>1, TailFacts DEF Positions
<1>4. \A i \in Nat : i \in T <=> i + 1 \in S \ {1}
  <2> SUFFICES ASSUME NEW i \in Nat PROVE i \in T <=> i + 1 \in S \ {1}
    OBVIOUS
  <2>1. i \in DOMAIN Tail(q) <=> i + 1 \in DOMAIN q /\ i + 1 # 1
    BY TailFacts
  <2>2. i \in DOMAIN Tail(q) => Tail(q)[i] = q[i + 1]
    BY TailFacts
  <2> QED
    BY <2>1, <2>2 DEF Positions
<1>5. Cardinality(T) = Cardinality(S \ {1})
  BY <1>2, <1>3, <1>4, ShiftedDown
<1>6. 1 \in S <=> Head(q).type = type /\ Head(q).session = k
  BY TailFacts DEF Positions
<1>7. Cardinality(S \ {1}) = IF 1 \in S THEN Cardinality(S) - 1 ELSE Cardinality(S)
  BY <1>1, FS_RemoveElement
<1> HIDE DEF S, T
<1>8. CASE 1 \in S
  BY <1>1, <1>2, <1>5, <1>6, <1>7, <1>8
<1>9. CASE 1 \notin S
  BY <1>1, <1>2, <1>5, <1>6, <1>7, <1>9
<1> QED
  BY <1>8, <1>9

\* FramesIn is 0 if there is no such frame.
LEMMA NoneIn ==
    ASSUME NEW q \in Seq(Frame), NEW type \in {"data", "ack"}, NEW k \in Nat,
           \A f \in Contents(q) : ~(f.type = type /\ f.session = k)
    PROVE  FramesIn(q, type, k) = 0
<1>1. Positions(q, type, k) = {}
  BY DEF Positions, Contents
<1>2. Cardinality({}) = 0
  BY FS_EmptySet
<1>3. FramesIn(q, type, k) = Cardinality(Positions(q, type, k))
  BY PositionsFinite
<1> QED
  BY <1>1, <1>2, <1>3

----------------------------------------------------------------------------
(* Numbers: what Append and Tail do to Numbered and Covered.               *)

\* The first frame of session k is the one after b, if it is a data frame, and
\* has b as its number, if it is final.
LEMMA HeadNumber ==
    ASSUME NEW q \in Seq(Frame), q # <<>>, Ordered(q), NEW k \in Nat, NEW b \in Nat,
           Numbered(q, k, b),
           \/ \E t \in Nat : Covered(q, k, b, t)
           \/ \E f \in Contents(q) : IsFinalOf(f, k)
    PROVE  /\ IsDataOf(Head(q), k) => Head(q).n = b + 1
           /\ IsFinalOf(Head(q), k) => Head(q).n = b
<1>1. /\ Head(q) \in Contents(q) /\ Contents(q) = Contents(Tail(q)) \cup {Head(q)}
      /\ \A g \in Contents(Tail(q)) : InOrder(Head(q), g)
  BY TailContents, TailOrdered
<1>2. \A g \in Contents(q) : g \in Frame
  BY ContentsType
<1>3. \A g \in Contents(q) : g.n \in Nat /\ g.session \in Nat
  BY <1>2, BoundAssumption DEF Frame
<1>4. PICK t \in Nat : /\ \A f \in Contents(q) : IsDataOf(f, k) => f.n <= t
                       /\ AllIn(q, k, b, t)
  BY <1>3 DEF Numbered, Covered
<1>5. ASSUME IsDataOf(Head(q), k) PROVE Head(q).n = b + 1
  <2>1. b < b + 1 /\ b + 1 <= t /\ b + 1 \in Nat /\ Head(q).n > b
    BY <1>1, <1>3, <1>4, <1>5 DEF Numbered
  <2>2. PICK f \in Contents(q) : IsDataOf(f, k) /\ f.n = b + 1
    BY <1>4, <2>1 DEF AllIn
  <2>3. CASE f = Head(q)
    BY <2>2, <2>3
  <2>4. CASE f \in Contents(Tail(q))
    <3>1. Head(q).n < f.n
      BY <1>1, <1>5, <2>2, <2>4 DEF InOrder, IsDataOf
    <3> QED
      BY <1>1, <1>3, <2>1, <2>2, <3>1
  <2> QED
    BY <1>1, <2>3, <2>4
<1>6. ASSUME IsFinalOf(Head(q), k) PROVE Head(q).n = b
  <2>1. b <= Head(q).n /\ AllIn(q, k, b, Head(q).n)
    BY <1>1, <1>6 DEF Numbered
  <2>2. \A f \in Contents(q) : ~IsDataOf(f, k)
    BY <1>1, <1>3, <1>6 DEF InOrder, IsDataOf, IsFinalOf, Final
  <2>3. ~(b < b + 1 /\ b + 1 <= Head(q).n)
    BY <2>1, <2>2 DEF AllIn
  <2> QED
    BY <1>1, <1>3, <2>1, <2>3
<1> QED
  BY <1>5, <1>6

\* Taking the first frame away, and counting it if it is a data frame.
LEMMA TailNumber ==
    ASSUME NEW q \in Seq(Frame), q # <<>>, Ordered(q), NEW k \in Nat, NEW b \in Nat,
           Numbered(q, k, b),
           NEW c \in Nat,
           \/ IsDataOf(Head(q), k) /\ Head(q).n = b + 1 /\ c = b + 1
           \/ ~IsDataOf(Head(q), k) /\ c = b
    PROVE  /\ Numbered(Tail(q), k, c)
           /\ \A t \in Nat : Covered(q, k, b, t) => Covered(Tail(q), k, c, t)
<1>1. /\ Head(q) \in Contents(q) /\ Contents(q) = Contents(Tail(q)) \cup {Head(q)}
      /\ \A g \in Contents(Tail(q)) : InOrder(Head(q), g)
  BY TailContents, TailOrdered
<1>2. \A g \in Contents(q) : g \in Frame
  BY ContentsType
<1>3. \A g \in Contents(q) : g.n \in Nat /\ g.session \in Nat
  BY <1>2, BoundAssumption DEF Frame
<1>4. \A g \in Contents(Tail(q)) : IsDataOf(g, k) => g.n > c
  BY <1>1, <1>3 DEF Numbered, InOrder, IsDataOf
<1>5. ASSUME NEW t \in Nat, AllIn(q, k, b, t) PROVE AllIn(Tail(q), k, c, t)
  <2> SUFFICES ASSUME NEW m \in Nat, c < m, m <= t
               PROVE  \E f \in Contents(Tail(q)) : IsDataOf(f, k) /\ f.n = m
    BY DEF AllIn
  <2>1. PICK f \in Contents(q) : IsDataOf(f, k) /\ f.n = m
    BY <1>5 DEF AllIn
  <2>2. f # Head(q)
    BY <2>1
  <2> QED
    BY <1>1, <2>1, <2>2
<1>6. ASSUME NEW t \in Nat, b <= t,
             \A f \in Contents(q) : IsDataOf(f, k) => f.n <= t
      PROVE  /\ c <= t
             /\ \A f \in Contents(Tail(q)) : IsDataOf(f, k) => f.n <= t
  BY <1>1, <1>6
<1>7. Numbered(Tail(q), k, c)
  <2> SUFFICES ASSUME NEW f \in Contents(Tail(q)), IsFinalOf(f, k)
               PROVE  /\ c <= f.n
                      /\ \A g \in Contents(Tail(q)) : IsDataOf(g, k) => g.n <= f.n
                      /\ AllIn(Tail(q), k, c, f.n)
    BY <1>4 DEF Numbered
  <2>1. f \in Contents(q) /\ f.n \in Nat
    BY <1>1, <1>3
  <2>2. /\ b <= f.n /\ AllIn(q, k, b, f.n)
        /\ \A g \in Contents(q) : IsDataOf(g, k) => g.n <= f.n
    BY <2>1 DEF Numbered
  <2> QED
    BY <1>5, <1>6, <2>1, <2>2
<1>8. ASSUME NEW t \in Nat, Covered(q, k, b, t) PROVE Covered(Tail(q), k, c, t)
  BY <1>5, <1>6, <1>8 DEF Covered
<1> QED
  BY <1>7, <1>8

\* A frame that is no data or final frame of session k, or one whose number is
\* right, may follow.
LEMMA AppendNumber ==
    ASSUME NEW q \in Seq(Frame), NEW f \in Frame, NEW k \in Nat, NEW b \in Nat,
           Numbered(q, k, b),
           NEW t \in Nat,
           IsDataOf(f, k) => /\ Covered(q, k, b, t) /\ f.n = t + 1
                             /\ \A g \in Contents(q) : ~IsFinalOf(g, k),
           IsFinalOf(f, k) => Covered(q, k, b, t) /\ f.n = t
    PROVE  /\ Numbered(Append(q, f), k, b)
           /\ IsDataOf(f, k) => Covered(Append(q, f), k, b, t + 1)
           /\ ~IsDataOf(f, k) /\ Covered(q, k, b, t) => Covered(Append(q, f), k, b, t)
<1>1. Contents(Append(q, f)) = Contents(q) \cup {f}
  BY AppendContents
<1>2. \A g \in Contents(q) : g \in Frame
  BY ContentsType
<1>3. (\A g \in Contents(q) : g.n \in Nat) /\ f.n \in Nat
  BY <1>2 DEF Frame
<1>4. ASSUME NEW u \in Nat, AllIn(q, k, b, u) PROVE AllIn(Append(q, f), k, b, u)
  BY <1>1, <1>4 DEF AllIn
<1>5. ~(IsDataOf(f, k) /\ IsFinalOf(f, k))
  BY DEF IsDataOf, IsFinalOf, Final
<1>6. CASE IsDataOf(f, k)
  <2>1. /\ b <= t /\ f.n = t + 1 /\ AllIn(q, k, b, t)
        /\ \A g \in Contents(q) : IsDataOf(g, k) => g.n <= t
    BY <1>6 DEF Covered
  <2>2. Numbered(Append(q, f), k, b)
    BY <1>1, <1>5, <1>6, <2>1 DEF Numbered
  <2>3. AllIn(Append(q, f), k, b, t + 1)
    <3> SUFFICES ASSUME NEW m \in Nat, b < m, m <= t + 1
                 PROVE  \E g \in Contents(Append(q, f)) : IsDataOf(g, k) /\ g.n = m
      BY DEF AllIn
    <3>1. CASE m = t + 1
      BY <1>1, <1>6, <2>1, <3>1
    <3>2. CASE m # t + 1
      <4>1. m <= t
        BY <3>2
      <4> QED
        BY <1>1, <2>1, <4>1 DEF AllIn
    <3> QED
      BY <3>1, <3>2
  <2>4. Covered(Append(q, f), k, b, t + 1)
    BY <1>1, <1>3, <2>1, <2>3 DEF Covered
  <2> QED
    BY <1>6, <2>2, <2>4
<1>7. CASE ~IsDataOf(f, k)
  <2>1. Covered(q, k, b, t) => Covered(Append(q, f), k, b, t)
    BY <1>1, <1>4, <1>7 DEF Covered
  <2>2. \A g \in Contents(Append(q, f)) : IsDataOf(g, k) => g.n > b
    BY <1>1, <1>7 DEF Numbered
  <2>3. ASSUME NEW g \in Contents(Append(q, f)), IsFinalOf(g, k)
        PROVE  /\ b <= g.n
               /\ \A h \in Contents(Append(q, f)) : IsDataOf(h, k) => h.n <= g.n
               /\ AllIn(Append(q, f), k, b, g.n)
    <3>1. CASE g = f
      BY <1>1, <1>4, <1>7, <2>3, <3>1 DEF Covered
    <3>2. CASE g \in Contents(q)
      <4>1. /\ b <= g.n /\ AllIn(q, k, b, g.n)
            /\ \A h \in Contents(q) : IsDataOf(h, k) => h.n <= g.n
        BY <2>3, <3>2 DEF Numbered
      <4> QED
        BY <1>1, <1>3, <1>4, <1>7, <3>2, <4>1
    <3> QED
      BY <1>1, <3>1, <3>2
  <2>4. Numbered(Append(q, f), k, b)
    BY <2>2, <2>3 DEF Numbered
  <2> QED
    BY <1>7, <2>1, <2>4
<1> QED
  BY <1>6, <1>7

----------------------------------------------------------------------------
(* Steps that send, receive, recycle and open nothing.                     *)

USE DEF flagVars, flowVars, connVars, pcVars, userVars, histVars

Steady ==
    /\ UNCHANGED <<session, link, pooled, localSentFinal, remoteSentFinal>>
    /\ \A t \in Side : /\ InSession(t)' <=> InSession(t)
                       /\ mpc'[t] = "recycle" <=> mpc[t] = "recycle"
                       /\ aborted[t] => aborted'[t]
                       /\ wpc'[t] = "send" => wpc[t] = "send" \/ ~aborted[t]

Quiet ==
    /\ Steady
    /\ UNCHANGED <<readCh, sent, rcvd, total>>
    /\ \A t \in Side : rpc'[t] \in {rpc[t], "idle", "select"} \/ rpc[t] = "ack"

\* The parts of the invariant that are about one end and its goroutines.
Own(t) == Calls(t) /\ Clean(t) /\ Submits(t)

\* A steady step keeps what relates the sessions and final frames of the ends.
LEMMA SteadyStep ==
    ASSUME Control, Steady, Unheard', ServerFirst', \A t \in Side : Own(t)'
    PROVE  Control'
<1>1. \A t \in Side : Peer(t) \in Side
  BY PeerType
<1>2. "client" \in Side /\ "server" \in Side
  BY DEF Side
<1>3. Sessions'
  BY <1>2 DEF Control, Sessions, Steady
<1>4. FinalArrives'
  BY <1>2 DEF Control, FinalArrives, Steady
<1>5. ServerFollows'
  BY <1>2 DEF Control, ServerFollows, Silenced, Steady, ClientGone, FinalFor
<1>6. ASSUME NEW t \in Side PROVE Traffic(t)' /\ FinalSent(t)'
  BY <1>1 DEF Control, Traffic, FinalSent, Steady
<1> QED
  BY <1>3, <1>4, <1>5, <1>6 DEF Own, Control

\* A quiet step keeps what relates the two ends.
LEMMA QuietStep ==
    ASSUME Control, Data, Quiet, ServerFirst', \A t \in Side : Own(t)' /\ Window(t)'
    PROVE  Control' /\ Data'
<1>1. \A t \in Side : Peer(t) \in Side
  BY PeerType
<1>2. "client" \in Side /\ "server" \in Side
  BY DEF Side
<1>3. Unheard'
  BY <1>2 DEF Control, Unheard, Quiet, Steady
<1>4. Control'
  BY <1>3, SteadyStep DEF Quiet
<1>5. ASSUME NEW t \in Side PROVE Stream(t)' /\ Queue(t)' /\ Room(t)'
  <2>1. \A k \in Nat : Base(t, k)' = Base(t, k)
    BY DEF Base, Quiet, Steady
  <2>2. NotLeft(t)' <=> NotLeft(t)
    BY <1>1 DEF NotLeft, Quiet, Steady
  <2>3. Base(t, session[t])' = Base(t, session[t])
    BY DEF Base, Quiet, Steady
  <2>4. Stream(t)'
    <3>1. Base(t, session[Peer(t)])' = Base(t, session[Peer(t)])
      BY DEF Base, Quiet, Steady
    <3>2. Sound(t)'
      BY <1>1, <3>1 DEF Data, Stream, Sound, Quiet, Steady
    <3> QED
      BY <2>1, <2>2, <2>3, <3>2 DEF Data, Stream, Quiet, Steady
  <2>5. Queue(t)'
    BY DEF Data, Queue, Quiet, Steady
  <2>6. Room(t)'
    BY <1>1 DEF Data, Room, Quiet, Steady
  <2> QED
    BY <2>4, <2>5, <2>6
<1> QED
  BY <1>4, <1>5 DEF Data

\* The terms of WindowUnits are natural numbers.
LEMMA UnitTypes ==
    ASSUME TypeOK, NEW s \in Side
    PROVE  /\ sendWindow[s] \in Nat /\ ackCh[s] \in Nat /\ SendWindowSize \in Nat
           /\ \A k \in Nat : /\ FramesIn(link[s], "data", k) \in Nat
                             /\ FramesIn(link[s], "ack", k) \in Nat
           /\ Len(readCh[s]) \in Nat /\ session[s] \in Nat
           /\ rcvd[s] \in Nat /\ sent[s] \in Nat
           /\ link[s] \in Seq(Frame) /\ readCh[s] \in Seq(Frame)
<1>1. link[s] \in Seq(Frame) /\ readCh[s] \in Seq(Frame) /\ session[s] \in 0..MaxSessions
  BY EndTypes
<1>2. \A k \in Nat : FramesIn(link[s], "data", k) \in Nat /\ FramesIn(link[s], "ack", k) \in Nat
  BY <1>1, PositionsFinite
<1>3. Len(readCh[s]) \in Nat
  BY <1>1, LenProperties
<1>4. session[s] \in Nat /\ sent[s] \in Nat /\ rcvd[s] \in Nat
  BY EndTypes, BoundAssumption
<1>5. sendWindow[s] \in Nat /\ ackCh[s] \in Nat /\ SendWindowSize \in Nat
  BY EndTypes, WindowAssumption
<1> QED
  BY <1>1, <1>2, <1>3, <1>4, <1>5

\* The units that an end has itself, and those its peer has or is to get, are
\* among the units of its window.
LEMMA UnitsParts ==
    ASSUME TypeOK, NEW s \in Side
    PROVE  /\ WindowUnits(s) \in Nat
           /\ sendWindow[s] + ackCh[s] <= WindowUnits(s)
           /\ ackCh[s] + FramesIn(link[Peer(s)], "ack", session[s]) <= WindowUnits(s)
           /\ FramesIn(link[s], "data", session[s]) <= WindowUnits(s)
           /\ session[Peer(s)] = session[s] =>
                 /\ FramesIn(link[s], "data", session[s]) + Len(readCh[Peer(s)]) <= WindowUnits(s)
                 /\ wpc[s] = "send" => FramesIn(link[s], "data", session[s])
                                       + Len(readCh[Peer(s)]) + 1 <= WindowUnits(s)
<1> DEFINE p == Peer(s)
           d == FramesIn(link[s], "data", session[s])
           a == FramesIn(link[p], "ack", session[s])
           r == Len(readCh[p])
           w == One(wpc[s] = "send")
           h == One(session[p] = session[s] /\ rpc[p] = "ack")
<1>1. p \in Side
  BY PeerType
<1>2. d \in Nat /\ a \in Nat /\ r \in Nat /\ sendWindow[s] \in Nat /\ ackCh[s] \in Nat
  BY <1>1, UnitTypes
<1>3. w \in Nat /\ h \in Nat
  BY DEF One
<1>4. WindowUnits(s) = sendWindow[s] + w + d + h
                       + (IF session[p] = session[s] THEN r ELSE 0) + a + ackCh[s]
  BY DEF WindowUnits
<1> HIDE DEF d, a, r, w, h
<1>5. /\ WindowUnits(s) \in Nat
      /\ sendWindow[s] + ackCh[s] <= WindowUnits(s)
      /\ ackCh[s] + a <= WindowUnits(s)
      /\ d <= WindowUnits(s)
      /\ session[p] = session[s] => d + r + w <= WindowUnits(s) /\ d + r <= WindowUnits(s)
  BY <1>2, <1>3, <1>4
<1>6. wpc[s] = "send" => w = 1
  BY DEF w, One
<1> QED
  BY <1>5, <1>6 DEF d, a, r

\* A step that moves units of the window of s only within s keeps them all.
LEMMA WindowKept ==
    ASSUME TypeOK, NEW s \in Side, Window(s), NEW p \in Side, p = Peer(s),
           link' = link, session' = session, readCh' = readCh,
           InSession(s)' => InSession(s), open'[s] => open[s],
           \A t \in Side : aborted[t] => aborted'[t],
           rpc'[p] = "ack" <=> rpc[p] = "ack",
           sendWindow'[s] \in Nat, ackCh'[s] \in Nat,
           sendWindow'[s] + One(wpc'[s] = "send") + ackCh'[s]
              = sendWindow[s] + One(wpc[s] = "send") + ackCh[s]
    PROVE  Window(s)'
<1> DEFINE d == FramesIn(link[s], "data", session[s])
           a == FramesIn(link[p], "ack", session[s])
           r == Len(readCh[p])
<1>1. d \in Nat /\ a \in Nat /\ r \in Nat /\ sendWindow[s] \in Nat /\ ackCh[s] \in Nat
  BY UnitTypes
<1>2. /\ FramesIn(link[s], "data", session[s])' = d
      /\ FramesIn(link[p], "ack", session[s])' = a
      /\ Len(readCh[p])' = r
  OBVIOUS
<1>3. WindowUnits(s) = sendWindow[s] + One(wpc[s] = "send") + d
                       + One(session[p] = session[s] /\ rpc[p] = "ack")
                       + (IF session[p] = session[s] THEN r ELSE 0) + a + ackCh[s]
  BY DEF WindowUnits
<1>4. WindowUnits(s)' = sendWindow'[s] + One(wpc'[s] = "send") + d
                        + One(session[p] = session[s] /\ rpc'[p] = "ack")
                        + (IF session[p] = session[s] THEN r ELSE 0) + a + ackCh'[s]
  BY <1>2 DEF WindowUnits
<1> HIDE DEF d, a, r
<1>5. WindowUnits(s)' = WindowUnits(s)
  BY <1>1, <1>3, <1>4 DEF One
<1> QED
  BY <1>5 DEF Window

\* A step leaves what an end knows of its own alone.
SameEnd(t) ==
    /\ open'[t] = open[t] /\ late'[t] = late[t]
    /\ localClosed'[t] = localClosed[t] /\ fdw'[t] = fdw[t]
    /\ wpc'[t] = wpc[t] /\ rpc'[t] = rpc[t] /\ mpc'[t] = mpc[t]
    /\ sendWindow'[t] = sendWindow[t] /\ ackCh'[t] = ackCh[t]

\* A quiet step of end s that keeps the end's own part keeps everything.
LEMMA QuietEnd ==
    ASSUME TypeOK, Control, Data, Quiet, NEW s \in Side,
           \A t \in Side \ {s} : SameEnd(t),
           ServerFirst', Calls(s)', Clean(s)', Submits(s)',
           open'[s] => open[s],
           rpc'[s] = "ack" <=> rpc[s] = "ack",
           sendWindow'[s] \in Nat, ackCh'[s] \in Nat,
           sendWindow'[s] + One(wpc'[s] = "send") + ackCh'[s]
              = sendWindow[s] + One(wpc[s] = "send") + ackCh[s]
    PROVE  Control' /\ Data'
<1>1. ASSUME NEW t \in Side, t # s PROVE Own(t)' /\ Window(t)'
  <2>1. Calls(t) /\ Clean(t) /\ Submits(t) /\ Window(t) /\ SameEnd(t) /\ t \in Side
    BY <1>1 DEF Control, Data
  <2>2. /\ InSession(t)' <=> InSession(t)
        /\ UNCHANGED <<session, link, localSentFinal, remoteSentFinal, readCh>>
    BY DEF Quiet, Steady
  <2>3. Calls(t)'
    BY <2>1, <2>2 DEF Calls, SameEnd
  <2>4. Clean(t)'
    BY <2>1, <2>2 DEF Clean, SameEnd
  <2>5. Submits(t)'
    BY <2>1, <2>2 DEF Submits, SameEnd, Incoming
  <2>6. Peer(t) = s
    BY <1>1 DEF Side, Peer
  <2>7. sendWindow[t] \in Nat /\ ackCh[t] \in Nat
    BY UnitTypes
  <2>8. Window(t)'
    BY <2>1, <2>2, <2>6, <2>7, WindowKept DEF SameEnd, Quiet, Steady
  <2> QED
    BY <2>3, <2>4, <2>5, <2>8 DEF Own
<1>2. Own(s)' /\ Window(s)'
  <2>1. PICK p \in Side : p = Peer(s) /\ p # s
    BY DEF Side, Peer
  <2>2. rpc'[p] = rpc[p]
    BY <2>1 DEF SameEnd
  <2>3. Window(s)'
    BY <2>1, <2>2, WindowKept DEF Data, Quiet, Steady
  <2> QED
    BY <2>3 DEF Own
<1> QED
  BY <1>1, <1>2, QuietStep

\* The types that the steps of one end need.
FlowTypes ==
    /\ open \in [Side -> BOOLEAN] /\ late \in [Side -> Nat]
    /\ aborted \in [Side -> BOOLEAN] /\ runState \in [Side -> RunState]
    /\ sendWindow \in [Side -> Nat] /\ ackCh \in [Side -> Nat]

\* These follow from the type invariant.
LEMMA StepTypes == TypeOK => FlagTypes /\ FlowTypes
<1> SUFFICES ASSUME TypeOK PROVE FlagTypes /\ FlowTypes
  OBVIOUS
<1>1. FlagTypes
  BY Zenon DEF TypeOK, FlagTypes
<1>2. /\ open \in [Side -> BOOLEAN] /\ late \in [Side -> Nat]
      /\ aborted \in [Side -> BOOLEAN] /\ runState \in [Side -> RunState]
  BY Zenon DEF TypeOK
<1>3. sendWindow \in [Side -> 0..SendWindowSize] /\ ackCh \in [Side -> 0..MaxSendWindowSize]
  BY Zenon DEF TypeOK
<1>4. sendWindow \in [Side -> Nat] /\ ackCh \in [Side -> Nat]
  BY <1>3, WindowAssumption
<1> QED
  BY <1>1, <1>2, <1>4 DEF FlowTypes

\* The callers of a Conn that write or read use an open one.
LEMMA WriteReadUse ==
    ASSUME Disciplined, IInv, NoPanic, Control, Data, NEW s \in Side,
           Fill(s) \/ Write(s) \/ ReadFrom(s) \/ Hijack(s) \/ Flush(s) \/ Read(s)
    PROVE  panic' = "none" /\ Control' /\ Data'
<1>1. TypeOK /\ FlagTypes /\ FlowTypes
  BY StepTypes DEF IInv
<1>2. /\ Calls(s) /\ Clean(s) /\ Submits(s) /\ ServerFirst
      /\ late[s] = 0 /\ ~ReadAfterClose
  BY DEF Control, Calls, Disciplined
<1>3. /\ open[s] /\ InSession(s) /\ ~localClosed[s] /\ ~localSentFinal[s]
  <2>1. open[s]
    BY <1>2 DEF Fill, Write, ReadFrom, Hijack, Flush, Read, MayWrite, MayLockWrite
  <2>2. localSentFinal[s] => localClosed[s]
    BY DEF IInv, SilentAfterFinal
  <2> QED
    BY <1>2, <2>1, <2>2 DEF Calls
<1>4. /\ UNCHANGED <<session, link, pooled, localSentFinal, remoteSentFinal>>
      /\ UNCHANGED <<readCh, sent, rcvd, total, aborted, mpc, localClosed>>
      /\ UNCHANGED <<open, late, sendWindow, ackCh, panic>>
  BY DEF Fill, Write, ReadFrom, Hijack, Flush, Read
<1>5. \A t \in Side : InSession(t)' <=> InSession(t)
  <2>1. runState' = runState \/ (s = "server" /\ runState' = [runState EXCEPT ![s] = Starting(s)])
    BY DEF Fill, Write, ReadFrom, Hijack, Flush, Read
  <2>2. CASE runState' = runState
    BY <1>4, <2>2 DEF InSession
  <2>3. CASE s = "server" /\ runState' = [runState EXCEPT ![s] = Starting(s)]
    <3>1. runState' = runState
      BY <1>1, <1>3, <2>3 DEF InSession, Starting, FlowTypes
    <3> QED
      BY <2>2, <3>1
  <2> QED
    BY <2>1, <2>2, <2>3
<1>6. /\ wpc' = wpc \/ \E w \in {"idle", "flow", "source"} : wpc' = [wpc EXCEPT ![s] = w]
      /\ rpc' = rpc \/ rpc' = [rpc EXCEPT ![s] = "select"]
      /\ wpc' = wpc \/ wpc[s] = "idle"
      /\ rpc' = rpc \/ rpc[s] = "idle"
      /\ \E c \in {"nil", "blank", "data"} : fdw' = [fdw EXCEPT ![s] = c]
  <2>1. fdw' \in {fdw} \/ \E c \in {"nil", "blank", "data"} : fdw' = [fdw EXCEPT ![s] = c]
    BY <1>1 DEF Fill, Write, ReadFrom, Hijack, Flush, Read, FlagTypes
  <2>2. fdw = [fdw EXCEPT ![s] = fdw[s]] /\ fdw[s] \in {"nil", "blank", "data"}
    BY <1>1 DEF FlagTypes
  <2>3. \E c \in {"nil", "blank", "data"} : fdw' = [fdw EXCEPT ![s] = c]
    BY <2>1, <2>2
  <2>4. /\ wpc' = wpc \/ \E w \in {"idle", "flow", "source"} : wpc' = [wpc EXCEPT ![s] = w]
        /\ rpc' = rpc \/ rpc' = [rpc EXCEPT ![s] = "select"]
    BY DEF Fill, Write, ReadFrom, Hijack, Flush, Read
  <2>5. /\ wpc' = wpc \/ wpc[s] = "idle"
        /\ rpc' = rpc \/ rpc[s] = "idle"
    BY DEF Fill, Write, ReadFrom, Hijack, Flush, Read, MayWrite, MayLockWrite, WmuFree, RmuFree
  <2> QED
    BY <2>3, <2>4, <2>5
<1>7. /\ \A t \in Side : rpc'[t] \in {rpc[t], "select"}
      /\ \A t \in Side \ {s} : wpc'[t] = wpc[t] /\ rpc'[t] = rpc[t] /\ fdw'[t] = fdw[t]
      /\ rpc'[s] = "ack" <=> rpc[s] = "ack"
      /\ wpc'[s] = "send" <=> wpc[s] = "send"
  BY <1>1, <1>6 DEF FlagTypes
<1>8. Quiet
  BY <1>4, <1>5, <1>7 DEF Quiet, Steady
<1>9. \A t \in Side \ {s} : SameEnd(t)
  BY <1>4, <1>7 DEF SameEnd
<1>10. ServerFirst'
  BY <1>2, <1>4 DEF ServerFirst
<1>11. Calls(s)' /\ Clean(s)' /\ Submits(s)'
  BY <1>2, <1>3, <1>4, <1>5 DEF Calls, Clean, Submits, Incoming
<1>12. sendWindow'[s] \in Nat /\ ackCh'[s] \in Nat
  BY <1>1, <1>4 DEF FlowTypes
<1>13. sendWindow'[s] + One(wpc'[s] = "send") + ackCh'[s]
          = sendWindow[s] + One(wpc[s] = "send") + ackCh[s]
  BY <1>1, <1>4, <1>7 DEF FlowTypes, One
<1> QED
  BY <1>1, <1>4, <1>7, <1>8, <1>9, <1>10, <1>11, <1>12, <1>13, QuietEnd DEF NoPanic

\* The goroutine that writes moves units of the window between ackCh, the
\* window and the frame to be sent; an ack always fits.
LEMMA WriterUse ==
    ASSUME Disciplined, IInv, NoPanic, Control, Data, NEW s \in Side,
           SourceRead(s) \/ WriteAcked(s) \/ WriteFails(s) \/ WriteDefault(s)
    PROVE  panic' = "none" /\ Control' /\ Data'
<1>1. TypeOK /\ FlagTypes /\ FlowTypes
  BY StepTypes DEF IInv
<1>2. Calls(s) /\ Clean(s) /\ Submits(s) /\ Window(s) /\ ServerFirst
  BY DEF Control, Data
<1>3. wpc[s] \in {"source", "flow", "wait"} /\ InSession(s) /\ ~localSentFinal[s]
  <2>1. wpc[s] \in {"source", "flow", "wait"}
    BY DEF SourceRead, WriteAcked, WriteFails, WriteDefault
  <2> QED
    BY <1>2, <2>1 DEF Calls, Clean
<1>4. /\ UNCHANGED <<session, link, pooled, localSentFinal, remoteSentFinal>>
      /\ UNCHANGED <<readCh, sent, rcvd, total, aborted, mpc, localClosed, rpc>>
      /\ UNCHANGED <<open, late>>
  BY DEF SourceRead, WriteAcked, WriteFails, WriteDefault
<1>5. \A t \in Side : InSession(t)' <=> InSession(t)
  <2>1. runState' = runState \/ runState' = [runState EXCEPT ![s] = Starting(s)]
    BY DEF SourceRead, WriteAcked, WriteFails, WriteDefault
  <2>2. runState'["server"] = runState["server"]
    BY <1>1, <1>3, <2>1 DEF InSession, Starting, FlowTypes, Side
  <2> QED
    BY <1>4, <2>2 DEF InSession, Side
<1>6. /\ \A t \in Side \ {s} : /\ wpc'[t] = wpc[t] /\ fdw'[t] = fdw[t]
                              /\ sendWindow'[t] = sendWindow[t] /\ ackCh'[t] = ackCh[t]
      /\ fdw'[s] \in {fdw[s], "nil"}
      /\ panic' = "none"
      /\ sendWindow'[s] \in Nat /\ ackCh'[s] \in Nat
      /\ sendWindow'[s] + One(wpc'[s] = "send") + ackCh'[s]
            = sendWindow[s] + One(wpc[s] = "send") + ackCh[s]
  <2>1. CASE SourceRead(s) \/ WriteFails(s)
    BY <1>1, <1>3, <2>1 DEF SourceRead, WriteFails, FlagTypes, FlowTypes, NoPanic, One
  <2>2. CASE WriteDefault(s)
    <3>1. UNCHANGED <<ackCh, fdw, panic>>
      BY <2>2 DEF WriteDefault
    <3>2. \/ sendWindow' = sendWindow /\ wpc' = [wpc EXCEPT ![s] = "idle"]
          \/ sendWindow' = sendWindow /\ wpc' = [wpc EXCEPT ![s] = "wait"]
          \/ /\ sendWindow' = [sendWindow EXCEPT ![s] = sendWindow[s] - 1]
             /\ wpc' = [wpc EXCEPT ![s] = "send"] /\ sendWindow[s] > 0
      BY <2>2 DEF WriteDefault, HasWindow
    <3> QED
      BY <1>1, <1>3, <3>1, <3>2 DEF FlagTypes, FlowTypes, NoPanic, One
  <2>3. CASE WriteAcked(s)
    <3>1. sendWindow[s] + 1 <= SendWindowSize
      <4>1. sendWindow[s] \in Nat /\ ackCh[s] \in Nat /\ ackCh[s] > 0 /\ SendWindowSize \in Nat
        BY <1>1, <2>3, UnitTypes DEF WriteAcked
      <4>2. WindowUnits(s) <= SendWindowSize
        BY <1>2, <1>3 DEF Window
      <4>3. sendWindow[s] + ackCh[s] <= WindowUnits(s) /\ WindowUnits(s) \in Nat
        BY <1>1, UnitsParts
      <4> QED
        BY <4>1, <4>2, <4>3
    <3>2. /\ sendWindow' = [sendWindow EXCEPT ![s] = sendWindow[s] + 1]
          /\ ackCh' = [ackCh EXCEPT ![s] = ackCh[s] - 1]
          /\ UNCHANGED <<panic, fdw>>
          /\ wpc' = [wpc EXCEPT ![s] = "flow"] /\ ackCh[s] > 0
      <4>1. sendWindow[s] \in Nat /\ SendWindowSize \in Nat
        BY <1>1, UnitTypes
      <4>2. ~(sendWindow[s] + 1 > SendWindowSize)
        BY <3>1, <4>1
      <4>3. ConsumeAck(s, 1)
        BY <2>3 DEF WriteAcked
      <4>4. /\ sendWindow' = [sendWindow EXCEPT ![s] = sendWindow[s] + 1]
            /\ ackCh' = [ackCh EXCEPT ![s] = ackCh[s] - 1]
            /\ UNCHANGED panic
        BY <4>2, <4>3, Zenon DEF ConsumeAck
      <4> QED
        BY <2>3, <4>4 DEF WriteAcked
    <3> QED
      BY <1>1, <1>3, <3>2 DEF FlagTypes, FlowTypes, NoPanic, One
  <2> QED
    BY <2>1, <2>2, <2>3
<1>7. Quiet
  <2>1. wpc'[s] = "send" => ~aborted[s]
    <3>1. WriteDefault(s) => ~aborted[s]
      BY DEF WriteDefault
    <3>2. SourceRead(s) \/ WriteAcked(s) \/ WriteFails(s) => wpc'[s] # "send"
      BY <1>1 DEF SourceRead, WriteAcked, WriteFails, FlagTypes
    <3> QED
      BY <3>1, <3>2
  <2> QED
    BY <1>4, <1>5, <1>6, <2>1 DEF Quiet, Steady
<1>8. \A t \in Side \ {s} : SameEnd(t)
  BY <1>4, <1>6 DEF SameEnd
<1>9. ServerFirst'
  BY <1>2, <1>4 DEF ServerFirst
<1>10. Calls(s)' /\ Clean(s)' /\ Submits(s)'
  BY <1>2, <1>3, <1>4, <1>5, <1>6 DEF Calls, Clean, Submits, Incoming
<1> QED
  BY <1>1, <1>4, <1>6, <1>7, <1>8, <1>9, <1>10, QuietEnd

\* Other steps that are quiet: the end of a read, a lock, a wait for the final
\* frame, a Muxer that is closed, and one that finds a frame for a session
\* that goes on.
LEMMA WaitUse ==
    ASSUME Disciplined, IInv, NoPanic, Control, Data, NEW s \in Side,
           \/ SinkWrite(s) \/ ReadEnds(s) \/ CloseLock(s) \/ Abort(s)
           \/ CloseFinish(s) /\ ~remoteSentFinal[s]
    PROVE  panic' = "none" /\ Control' /\ Data'
<1>1. TypeOK /\ FlagTypes /\ FlowTypes
  BY StepTypes DEF IInv
<1>2. Calls(s) /\ Clean(s) /\ Submits(s) /\ Window(s) /\ ServerFirst
  BY DEF Control, Data
<1>3. /\ UNCHANGED <<session, link, pooled, localSentFinal, remoteSentFinal>>
      /\ UNCHANGED <<readCh, sent, rcvd, total, mpc, localClosed, wpc, fdw>>
      /\ UNCHANGED <<open, late, sendWindow, ackCh, panic>>
  BY DEF SinkWrite, ReadEnds, CloseLock, Abort, CloseFinish
<1>4. /\ \A t \in Side \ {s} : rpc'[t] = rpc[t]
      /\ rpc'[s] \in {rpc[s], "idle"}
      /\ rpc'[s] = "ack" <=> rpc[s] = "ack"
  BY <1>1 DEF SinkWrite, ReadEnds, CloseLock, Abort, CloseFinish, FlagTypes
<1>5. \A t \in Side : InSession(t)' <=> InSession(t)
  <2>1. CASE CloseFinish(s) /\ ~remoteSentFinal[s]
    <3>1. localClosed[s]
      BY <2>1 DEF CloseFinish, IInv, ConnInv
    <3>2. InSession(s)
      BY <1>2, <3>1 DEF Clean
    <3>3. runState' = [runState EXCEPT ![s] = "WaitFin"]
      BY <2>1 DEF CloseFinish
    <3> QED
      BY <1>1, <1>3, <3>2, <3>3 DEF InSession, FlowTypes, Side
  <2>2. CASE runState' = runState
    BY <1>3, <2>2 DEF InSession
  <2> QED
    BY <2>1, <2>2 DEF SinkWrite, ReadEnds, CloseLock, Abort
<1>6. \A t \in Side : aborted[t] => aborted'[t]
  <2>1. CASE Abort(s)
    BY <1>1, <2>1 DEF Abort, FlowTypes
  <2>2. CASE aborted' = aborted
    BY <2>2
  <2> QED
    BY <2>1, <2>2 DEF SinkWrite, ReadEnds, CloseLock, CloseFinish
<1>7. Quiet
  BY <1>3, <1>4, <1>5, <1>6 DEF Quiet, Steady
<1>8. \A t \in Side \ {s} : SameEnd(t)
  BY <1>3, <1>4 DEF SameEnd
<1>9. ServerFirst'
  BY <1>2, <1>3 DEF ServerFirst
<1>10. Calls(s)' /\ Clean(s)' /\ Submits(s)'
  BY <1>2, <1>3, <1>4, <1>5 DEF Calls, Clean, Submits, Incoming
<1>11. sendWindow[s] \in Nat /\ ackCh[s] \in Nat
  BY <1>1 DEF FlowTypes
<1> QED
  BY <1>1, <1>3, <1>4, <1>7, <1>8, <1>9, <1>10, <1>11, QuietEnd DEF NoPanic

\* A Conn is closed once, after it was flushed, and with more than one session
\* by the client only when the server has closed it.
LEMMA CloseBeginUse ==
    ASSUME Disciplined, IInv, NoPanic, Control, Data, NEW s \in Side, CloseBegin(s)
    PROVE  panic' = "none" /\ Control' /\ Data'
<1>1. TypeOK /\ FlagTypes /\ FlowTypes
  BY StepTypes DEF IInv
<1>2. Calls(s) /\ Clean(s) /\ Submits(s) /\ Window(s) /\ ServerFirst
  BY DEF Control, Data
<1>3. /\ UNCHANGED <<session, link, pooled, localSentFinal, remoteSentFinal, runState>>
      /\ UNCHANGED <<readCh, sent, rcvd, total, mpc, wpc, rpc, fdw, aborted>>
      /\ UNCHANGED <<sendWindow, ackCh, panic>>
  BY DEF CloseBegin
<1>4. /\ open[s] /\ UNCHANGED late /\ open' = [open EXCEPT ![s] = FALSE]
      /\ fdw[s] # "data" /\ (s \in EarlyClose \/ remoteSentFinal[s])
  BY <1>2 DEF CloseBegin, Holder, Calls, Disciplined
<1>5. localClosed' = [localClosed EXCEPT ![s] = TRUE] /\ InSession(s)
  BY <1>2, <1>4 DEF CloseBegin, Calls
<1>6. \A t \in Side : InSession(t)' <=> InSession(t)
  BY <1>3 DEF InSession
<1>7. Quiet
  BY <1>3, <1>6 DEF Quiet, Steady
<1>8. \A t \in Side \ {s} : SameEnd(t)
  BY <1>1, <1>3, <1>4, <1>5 DEF SameEnd, FlowTypes, FlagTypes
<1>9. ~open'[s] /\ localClosed'[s]
  BY <1>1, <1>4, <1>5 DEF FlowTypes, FlagTypes
<1>10. Calls(s)' /\ Clean(s)' /\ Submits(s)'
  BY <1>2, <1>3, <1>4, <1>5, <1>6, <1>9 DEF Calls, Clean, Submits, Incoming
<1>11. ServerFirst'
  <2> SUFFICES ASSUME MaxSessions > 1, localClosed'["client"]
               PROVE  remoteSentFinal["client"]
    BY <1>2, <1>3 DEF ServerFirst
  <2>1. CASE s = "client"
    BY <1>4, <2>1 DEF Disciplined
  <2>2. CASE s # "client"
    BY <1>1, <1>2, <1>5, <2>2 DEF ServerFirst, FlagTypes, Side
  <2> QED
    BY <2>1, <2>2
<1>12. sendWindow[s] \in Nat /\ ackCh[s] \in Nat
  BY <1>1 DEF FlowTypes
<1> QED
  BY <1>1, <1>3, <1>4, <1>7, <1>8, <1>10, <1>11, <1>12, QuietEnd DEF NoPanic

----------------------------------------------------------------------------
(* Reading a data frame.                                                   *)

\* readFrame takes the next frame of the pipe, and owes an ack for it.
LEMMA ReadDataUse ==
    ASSUME Disciplined, IInv, NoPanic, Control, Data, NEW s \in Side, ReadData(s)
    PROVE  panic' = "none" /\ Control' /\ Data'
<1>1. TypeOK /\ FlagTypes /\ FlowTypes
  BY StepTypes DEF IInv
<1> DEFINE p == Peer(s)
<1>2. p \in Side /\ p # s /\ Peer(p) = s /\ \A t \in Side : t = s \/ t = p
  BY DEF Side, Peer
<1> HIDE DEF p
<1>3. /\ UNCHANGED <<session, link, pooled, localSentFinal, remoteSentFinal, runState>>
      /\ UNCHANGED <<sent, total, mpc, localClosed, wpc, fdw, aborted>>
      /\ UNCHANGED <<open, late, sendWindow, ackCh, panic>>
  BY DEF ReadData
<1>4. /\ rpc[s] = "select" /\ readCh[s] # <<>>
      /\ readCh[s] \in Seq(Frame) /\ rcvd[s] \in Nat /\ Len(readCh[s]) \in Nat
  BY <1>1, UnitTypes DEF ReadData
<1>5. /\ rpc'[s] = "ack" /\ rpc'[p] = rpc[p]
      /\ readCh'[s] = Tail(readCh[s]) /\ readCh'[p] = readCh[p]
      /\ rcvd'[s] = rcvd[s] + 1 /\ rcvd'[p] = rcvd[p]
  BY <1>1, <1>2, Zenon DEF ReadData, TypeOK
<1>6. \A t \in Side : InSession(t)' <=> InSession(t)
  BY <1>3 DEF InSession
<1>7. Steady
  BY <1>3, <1>6 DEF Steady
<1>8. Own(s)'
  <2>1. Calls(s) /\ Clean(s) /\ Submits(s)
    BY DEF Control
  <2>2. Calls(s)' /\ Clean(s)'
    BY <1>3, <1>4, <1>6, <2>1 DEF Calls, Clean
  <2>3. Submits(s)'
    BY <1>3, <1>6, <2>1 DEF Submits, Incoming
  <2> QED
    BY <2>2, <2>3 DEF Own
<1>9. Own(p)'
  <2>1. Calls(p) /\ Clean(p) /\ Submits(p)
    BY <1>2 DEF Control
  <2>2. Calls(p)' /\ Clean(p)'
    BY <1>2, <1>3, <1>5, <1>6, <2>1 DEF Calls, Clean
  <2>3. Submits(p)'
    BY <1>2, <1>3, <1>6, <2>1 DEF Submits, Incoming
  <2> QED
    BY <2>2, <2>3 DEF Own
<1>10. Unheard' /\ ServerFirst'
  <2>1. ServerFirst'
    BY <1>3 DEF Control, ServerFirst
  <2>2. Unheard'
    <3>1. CASE s = "client"
      BY <1>3, <1>4, <3>1 DEF Control, Unheard
    <3>2. CASE s = "server"
      <4>1. p = "client"
        BY <3>2 DEF p, Peer
      <4> QED
        BY <1>3, <1>5, <4>1 DEF Control, Unheard
    <3> QED
      BY <3>1, <3>2 DEF Side
  <2> QED
    BY <2>1, <2>2
<1>11. Control'
  BY <1>2, <1>7, <1>8, <1>9, <1>10, SteadyStep
<1>12. /\ Len(readCh'[s]) = Len(readCh[s]) - 1
       /\ DOMAIN readCh'[s] = 1..(Len(readCh[s]) - 1) /\ DOMAIN readCh[s] = 1..Len(readCh[s])
       /\ \A i \in 1..(Len(readCh[s]) - 1) : readCh'[s][i] = readCh[s][i + 1]
  BY <1>4, <1>5, TailFacts
<1>13. Queue(s)' /\ Queue(p)'
  <2>1. Queue(s) /\ Queue(p)
    BY <1>2 DEF Data
  <2>2. Queue(p)'
    BY <1>3, <1>5, <2>1 DEF Queue
  <2>3. ASSUME NEW i \in DOMAIN readCh'[s]
        PROVE  readCh'[s][i].session = session[s] /\ readCh'[s][i].n = rcvd'[s] + i
    <3>1. i + 1 \in DOMAIN readCh[s] /\ readCh'[s][i] = readCh[s][i + 1] /\ i \in Nat
      BY <1>4, <1>12
    <3>2. readCh[s][i + 1].session = session[s] /\ readCh[s][i + 1].n = rcvd[s] + (i + 1)
      BY <2>1, <3>1 DEF Queue
    <3>3. rcvd[s] \in Nat /\ i \in Nat /\ rcvd'[s] = rcvd[s] + 1
      BY <1>4, <1>5, <3>1
    <3>4. rcvd[s] + (i + 1) = rcvd'[s] + i
      BY <3>3
    <3> QED
      BY <3>1, <3>2, <3>4
  <2>4. rcvd'[s] + Len(readCh'[s]) = rcvd[s] + Len(readCh[s])
    BY <1>4, <1>5, <1>12
  <2>5. Queue(s)'
    BY <1>3, <2>1, <2>3, <2>4 DEF Queue
  <2> QED
    BY <2>2, <2>5
<1>14. \A t \in Side : Stream(t)'
  <2> SUFFICES ASSUME NEW t \in Side PROVE Stream(t)'
    OBVIOUS
  <2>1. rcvd'[Peer(t)] + Len(readCh'[Peer(t)]) = rcvd[Peer(t)] + Len(readCh[Peer(t)])
    <3>1. rcvd'[s] + Len(readCh'[s]) = rcvd[s] + Len(readCh[s])
      BY <1>4, <1>5, <1>12
    <3>2. CASE Peer(t) = s
      BY <3>1, <3>2
    <3>3. CASE Peer(t) = p
      BY <1>5, <3>3
    <3> QED
      BY <1>2, <3>2, <3>3, PeerType
  <2>2. /\ \A k \in Nat : Base(t, k)' = Base(t, k)
        /\ Base(t, session[t])' = Base(t, session[t])
        /\ Base(t, session[Peer(t)])' = Base(t, session[Peer(t)])
    BY <1>3, <2>1 DEF Base
  <2>3. NotLeft(t)' <=> NotLeft(t)
    BY <1>3, <1>6, PeerType DEF NotLeft
  <2>4. Sound(t)'
    BY <1>3, <1>6, <2>2, PeerType DEF Data, Stream, Sound
  <2> QED
    BY <1>3, <2>2, <2>3, <2>4 DEF Data, Stream
<1>15. Room(s)' /\ Room(p)'
  <2>1. Room(s)'
    BY <1>2, <1>3, <1>5, <1>6 DEF Data, Room, p
  <2>2. FramesIn(link[p], "data", session[s]) \in Nat /\ SendWindowSize \in Nat
    BY <1>1, <1>2, UnitTypes
  <2>3. Room(p)'
    BY <1>2, <1>3, <1>4, <1>6, <1>12, <2>2 DEF Data, Room
  <2> QED
    BY <2>1, <2>3
<1>16. WindowUnits(s)' = WindowUnits(s)
  <2>1. Peer(s) = p
    BY DEF p
  <2> QED
    BY <1>3, <1>5, <2>1 DEF WindowUnits
<1>17. WindowUnits(p)' = WindowUnits(p)
  <2> DEFINE d == FramesIn(link[p], "data", session[p])
             a == FramesIn(link[s], "ack", session[p])
             r == Len(readCh[s])
             w == One(wpc[p] = "send")
  <2>1. d \in Nat /\ a \in Nat /\ r \in Nat /\ sendWindow[p] \in Nat /\ ackCh[p] \in Nat /\ w \in Nat
    BY <1>1, <1>2, UnitTypes DEF One
  <2>2. WindowUnits(p) = sendWindow[p] + w + d + One(session[s] = session[p] /\ rpc[s] = "ack")
                         + (IF session[s] = session[p] THEN r ELSE 0) + a + ackCh[p]
    BY <1>2 DEF WindowUnits
  <2>3. WindowUnits(p)' = sendWindow[p] + w + d + One(session[s] = session[p] /\ rpc'[s] = "ack")
                          + (IF session[s] = session[p] THEN r - 1 ELSE 0) + a + ackCh[p]
    BY <1>2, <1>3, <1>12 DEF WindowUnits
  <2> HIDE DEF d, a, r, w
  <2>4. One(session[s] = session[p] /\ rpc[s] = "ack") = 0
    BY <1>4 DEF One
  <2>5. One(session[s] = session[p] /\ rpc'[s] = "ack") = IF session[s] = session[p] THEN 1 ELSE 0
    BY <1>5 DEF One
  <2> QED
    BY <2>1, <2>2, <2>3, <2>4, <2>5
<1>18. Window(s)' /\ Window(p)'
  BY <1>2, <1>3, <1>6, <1>16, <1>17 DEF Data, Window
<1> QED
  BY <1>2, <1>3, <1>11, <1>13, <1>14, <1>15, <1>18 DEF NoPanic, Data

----------------------------------------------------------------------------
(* Sending a frame.                                                        *)

\* An end that may still send is in a session which its peer has not left, and
\* has sent no final frame in it.
LEMMA SenderFacts ==
    ASSUME IInv, Control, NEW s \in Side, NEW p \in Side, p = Peer(s),
           InSession(s), ~localSentFinal[s]
    PROVE  /\ session[p] = session[s] => InSession(p) /\ ~remoteSentFinal[p]
           /\ s = "server" => session[p] = session[s]
           /\ session[p] <= session[s]
           /\ NotLeft(s)
           /\ \A g \in Contents(link[s]) : /\ g.session \in Nat /\ g.n \in Nat
                                           /\ g.session <= session[s]
                                           /\ g.type \in Final => g.session < session[s]
<1>1. /\ session["client"] \in Nat /\ session["server"] \in Nat
      /\ link[s] \in Seq(Frame) /\ session[s] \in Nat
  BY UnitTypes DEF IInv, Side
<1>2. FinalSent("client") /\ FinalSent("server") /\ Traffic(s) /\ Sessions /\ ServerFollows
  BY DEF Control, Side
<1>3. \A g \in Contents(link[s]) : g.session \in Nat /\ g.n \in Nat
  <2>1. \A g \in Contents(link[s]) : g \in Frame
    BY <1>1, ContentsType
  <2> QED
    BY <2>1, BoundAssumption DEF Frame
<1>4. CASE s = "client"
  <2>1. p = "server" /\ ~pooled
    BY <1>4 DEF Peer, InSession
  <2>2. session[p] = session[s] => InSession(p) /\ ~remoteSentFinal[p]
    BY <1>2, <1>4, <2>1 DEF Sessions, FinalSent, Peer
  <2>3. session[p] <= session[s]
    BY <1>2, <1>4, <2>1 DEF Sessions
  <2> QED
    BY <1>1, <1>2, <1>3, <1>4, <2>1, <2>2, <2>3 DEF NotLeft, Traffic, IsFinalOf
<1>5. CASE s = "server"
  <2>1. p = "client" /\ ~ClientGone
    BY <1>2, <1>5 DEF Peer, ServerFollows
  <2>2. session[p] = session[s] /\ InSession(p)
    BY <1>5, <2>1 DEF ClientGone, InSession
  <2>3. ~remoteSentFinal[p]
    BY <1>2, <1>5, <2>1, <2>2 DEF FinalSent, Peer
  <2> QED
    BY <1>1, <1>2, <1>3, <1>5, <2>1, <2>2, <2>3 DEF NotLeft, Traffic, IsFinalOf
<1> QED
  BY <1>4, <1>5 DEF Side

\* What a send leaves alone.
SendFrame(s, p, f) ==
    /\ UNCHANGED <<session, pooled, remoteSentFinal, localClosed>>
    /\ UNCHANGED <<readCh, rcvd, total, aborted, mpc, runState>>
    /\ link'[s] = Append(link[s], f) /\ link'[p] = link[p]
    /\ localSentFinal'[s] = (f.type \in Final)
    /\ localSentFinal'[p] = localSentFinal[p]
    /\ rpc'[s] = rpc[s] \/ f.type = "ack"
    /\ rpc'[p] = rpc[p]
    /\ sent'[s] = IF f.type = "data" THEN sent[s] + 1 ELSE sent[s]
    /\ sent'[p] = sent[p]

\* Sending a frame keeps what relates the sessions and final frames.
LEMMA SendControl ==
    ASSUME IInv, Control, NEW s \in Side, NEW p \in Side, p = Peer(s),
           InSession(s), ~localSentFinal[s],
           NEW f \in Frame, f.session = session[s], SendFrame(s, p, f),
           f.type = "data" => wpc[s] = "send",
           f.type = "ack" => rpc[s] = "ack",
           f.type \in Final => localClosed[s],
           f.type = "finalAck" => remoteSentFinal[s],
           \A t \in Side : wpc'[t] = "send" => wpc[t] = "send",
           \A t \in Side : Calls(t)' /\ Clean(t)'
    PROVE  Control'
<1>1. /\ Contents(link'[s]) = Contents(link[s]) \cup {f}
      /\ Contents(link'[p]) = Contents(link[p])
      /\ link[s] \in Seq(Frame)
  BY AppendContents, UnitTypes DEF SendFrame, IInv
<1>2. /\ UNCHANGED <<session, pooled, remoteSentFinal, mpc, aborted, localClosed>>
      /\ \A t \in Side : InSession(t)' <=> InSession(t)
      /\ \A t \in Side : localSentFinal[t] => localSentFinal'[t]
      /\ f.type \in Final => localSentFinal'[s]
      /\ p # s /\ Peer(p) = s /\ \A t \in Side : t = s \/ t = p
  <2>1. p # s /\ Peer(p) = s /\ \A t \in Side : t = s \/ t = p
    BY DEF Peer, Side
  <2>2. \A t \in Side : InSession(t)' <=> InSession(t)
    BY DEF SendFrame, InSession
  <2> QED
    BY <2>1, <2>2 DEF SendFrame
<1>3. /\ session[p] = session[s] => InSession(p) /\ ~remoteSentFinal[p]
      /\ s = "server" => session[p] = session[s]
  BY SenderFacts
<1>4. /\ Sessions /\ Unheard /\ FinalArrives /\ ServerFollows /\ ServerFirst
      /\ Traffic(s) /\ Traffic(p) /\ FinalSent(s) /\ FinalSent(p) /\ Submits(s) /\ Submits(p)
  BY DEF Control
<1>5. Sessions'
  BY <1>2, <1>4 DEF Sessions, Side
<1>6. Unheard'
  <2> SUFFICES ASSUME session["client"] # session["server"] PROVE Unheard'
    BY <1>2 DEF Unheard
  <2>1. s = "client" /\ p = "server"
    BY <1>2, <1>3 DEF Side, Peer
  <2>2. f.type \in {"data", "final"}
    BY <1>4, <2>1 DEF Unheard, Frame
  <2> QED
    BY <1>1, <1>2, <1>4, <2>1, <2>2, ZenonT(40) DEF Unheard, SendFrame
<1>7. FinalArrives'
  <2>1. CASE s = "client"
    BY <1>1, <1>2, <1>4, <2>1, ZenonT(40) DEF FinalArrives, SendFrame, IsFinalOf, Side
  <2>2. CASE s = "server"
    <3>1. p = "client"
      BY <2>2 DEF Peer
    <3>2. link'["client"] = link["client"] /\ localSentFinal'["client"] = localSentFinal["client"]
      BY <3>1 DEF SendFrame
    <3> QED
      BY <1>2, <1>4, <3>2 DEF FinalArrives, Side
  <2> QED
    BY <2>1, <2>2 DEF Side
<1>8. ServerFollows'
  <2>1. FinalFor("client") => FinalFor("client")'
    BY <1>1, <1>2 DEF FinalFor, Side
  <2>2. ClientGone' <=> ClientGone
    BY <1>2 DEF ClientGone
  <2>3. ASSUME ClientGone, MaxSessions > 1, Silenced PROVE Silenced'
    <3>1. s # "client"
      <4> SUFFICES ASSUME s = "client" PROVE FALSE
        OBVIOUS
      <4>1. session["client"] # session["server"]
        BY <2>3 DEF ClientGone, InSession
      <4>2. ~remoteSentFinal["client"] /\ rpc["client"] # "ack" /\ wpc["client"] # "send"
        BY <1>4, <2>3, <4>1 DEF Unheard, Silenced
      <4>3. ~localClosed["client"]
        BY <1>4, <2>3, <4>2 DEF ServerFirst
      <4> QED
        BY <4>2, <4>3 DEF Frame, Final
    <3>2. p = "client"
      BY <1>2, <3>1 DEF Side
    <3> QED
      BY <1>1, <1>2, <2>3, <3>2 DEF Silenced, SendFrame
  <2> QED
    BY <1>2, <1>4, <2>1, <2>2, <2>3 DEF ServerFollows, Side
<1>9. ServerFirst'
  BY <1>2, <1>4 DEF ServerFirst
<1>10. Traffic(s)'
  <2> SUFFICES ASSUME NEW g \in Contents(link'[s])
               PROVE  /\ g.session \in {session[s], session[p]}
                      /\ g.session = session[p] => InSession(p) /\ ~remoteSentFinal[p]
                      /\ IsFinalOf(g, session[s]) /\ InSession(s) => localSentFinal'[s]
                      /\ g.type = "finalAck" /\ g.session = session[p] => localSentFinal'[p]
    BY <1>2 DEF Traffic
  <2>1. CASE g = f
    BY <1>2, <1>3, <1>4, <2>1 DEF FinalSent, IsFinalOf
  <2>2. CASE g \in Contents(link[s])
    BY <1>2, <1>4, <2>2 DEF Traffic
  <2> QED
    BY <1>1, <2>1, <2>2
<1>11. Traffic(p)'
  BY <1>1, <1>2, <1>4 DEF Traffic
<1>12. FinalSent(s)' /\ FinalSent(p)'
  BY <1>2, <1>4 DEF FinalSent
<1>13. Submits(s)'
  BY <1>2, <1>4 DEF Submits, Incoming, SendFrame
<1>14. Submits(p)'
  <2>1. mpc[p] = "submit" => link[s] # <<>>
    BY <1>2 DEF IInv, ConnInv
  <2>2. ASSUME link[s] # <<>> PROVE Head(Append(link[s], f)) = Head(link[s])
    BY <1>1, <2>2, AppendFacts, TailFacts
  <2> QED
    BY <1>2, <1>4, <2>1, <2>2 DEF Submits, Incoming, SendFrame
<1> QED
  BY <1>2, <1>5, <1>6, <1>7, <1>8, <1>9, <1>10, <1>11, <1>12, <1>13, <1>14 DEF Control

\* Sending a frame keeps the pipes, if its number is the next one.
LEMMA SendData ==
    ASSUME IInv, Control, Data, NEW s \in Side, NEW p \in Side, p = Peer(s),
           InSession(s), ~localSentFinal[s],
           NEW f \in Frame, f.session = session[s], SendFrame(s, p, f),
           f.type = "data" => wpc[s] = "send" /\ f.n = sent[s] + 1,
           f.type \in Final => f.n = sent[s],
           \A t \in Side : Window(t)'
    PROVE  Data'
<1>1. /\ UNCHANGED <<session, remoteSentFinal, readCh, rcvd, total>>
      /\ \A t \in Side : InSession(t)' <=> InSession(t)
      /\ p # s /\ Peer(p) = s /\ \A t \in Side : t = s \/ t = p
      /\ link'[s] = Append(link[s], f) /\ link'[p] = link[p] /\ sent'[p] = sent[p]
  <2>1. p # s /\ Peer(p) = s /\ \A t \in Side : t = s \/ t = p
    BY DEF Peer, Side
  <2>2. \A t \in Side : InSession(t)' <=> InSession(t)
    BY DEF SendFrame, InSession
  <2> QED
    BY <2>1, <2>2 DEF SendFrame
<1>2. /\ session[p] = session[s] => InSession(p) /\ ~remoteSentFinal[p]
      /\ NotLeft(s)
      /\ \A g \in Contents(link[s]) : /\ g.session \in Nat /\ g.n \in Nat
                                      /\ g.session <= session[s]
                                      /\ g.type \in Final => g.session < session[s]
  BY SenderFacts
<1>3. /\ \A t \in Side : \A k \in Nat : Base(t, k)' = Base(t, k)
      /\ \A t \in Side : Base(t, session[t])' = Base(t, session[t])
      /\ \A t \in Side : NotLeft(t)' <=> NotLeft(t)
  BY <1>1, PeerType DEF Base, NotLeft
<1>4. /\ link[s] \in Seq(Frame) /\ session[s] \in Nat /\ sent[s] \in Nat
      /\ \A k \in Nat : Base(s, k) \in Nat
  <2>1. /\ link[s] \in Seq(Frame) /\ session[s] \in Nat /\ sent[s] \in Nat
        /\ rcvd[p] \in Nat /\ Len(readCh[p]) \in Nat
    BY UnitTypes DEF IInv
  <2> QED
    BY <2>1 DEF Base
<1>5. Stream(s) /\ Stream(p)
  BY DEF Data
<1>6. Covered(link[s], session[s], Base(s, session[s]), sent[s])
  BY <1>2, <1>5 DEF Stream
<1>7. Ordered(link'[s])
  <2>1. ASSUME NEW g \in Contents(link[s]) PROVE InOrder(g, f)
    <3>1. IsDataOf(f, g.session) => f.type = "data" /\ g.session = session[s]
      BY DEF IsDataOf
    <3>2. g.type = "data" /\ g.session = session[s] => g.n <= sent[s] /\ g.n \in Nat
      BY <1>4, <1>6, ContentsType DEF Covered, IsDataOf, Frame
    <3>3. g.type = "data" /\ IsDataOf(f, g.session) => g.n < f.n
      <4> SUFFICES ASSUME g.type = "data", IsDataOf(f, g.session) PROVE g.n < f.n
        OBVIOUS
      <4>1. g.n <= sent[s] /\ g.n \in Nat /\ sent[s] \in Nat
        BY <1>4, <3>1, <3>2
      <4>2. f.n = sent[s] + 1
        BY <3>1
      <4> QED
        BY <4>1, <4>2
    <3>4. g.session <= f.session /\ (g.type \in Final => g.session < f.session)
      BY <1>2
    <3> QED
      BY <3>3, <3>4 DEF InOrder
  <2> QED
    BY <1>1, <1>4, <1>5, <2>1, AppendOrdered DEF Stream
<1>8. ASSUME NEW k \in Nat
      PROVE  /\ Numbered(link'[s], k, Base(s, k)')
             /\ k = session[s] => Covered(link'[s], k, Base(s, k)', sent'[s])
  <2> DEFINE b == Base(s, k)
  <2>1. b \in Nat /\ Base(s, k)' = b /\ Numbered(link[s], k, b)
    BY <1>3, <1>4, <1>5 DEF Stream
  <2>2. IsDataOf(f, k) => /\ Covered(link[s], k, b, sent[s]) /\ f.n = sent[s] + 1
                          /\ \A g \in Contents(link[s]) : ~IsFinalOf(g, k)
    <3> SUFFICES ASSUME IsDataOf(f, k)
                 PROVE  /\ Covered(link[s], k, b, sent[s]) /\ f.n = sent[s] + 1
                        /\ \A g \in Contents(link[s]) : ~IsFinalOf(g, k)
      OBVIOUS
    <3>1. f.type = "data" /\ k = session[s]
      BY DEF IsDataOf
    <3>2. \A g \in Contents(link[s]) : ~IsFinalOf(g, k)
      <4> SUFFICES ASSUME NEW g \in Contents(link[s]), g.type \in Final, g.session = k
                   PROVE  FALSE
        BY DEF IsFinalOf
      <4>1. g.session \in Nat /\ g.session < session[s]
        BY <1>2
      <4> QED
        BY <3>1, <4>1
    <3> QED
      BY <1>6, <3>1, <3>2
  <2>3. IsFinalOf(f, k) => Covered(link[s], k, b, sent[s]) /\ f.n = sent[s]
    BY <1>6 DEF IsFinalOf
  <2> HIDE DEF b
  <2>4. /\ Numbered(Append(link[s], f), k, b)
        /\ IsDataOf(f, k) => Covered(Append(link[s], f), k, b, sent[s] + 1)
        /\ ~IsDataOf(f, k) /\ Covered(link[s], k, b, sent[s])
              => Covered(Append(link[s], f), k, b, sent[s])
    BY <1>4, <2>1, <2>2, <2>3, AppendNumber
  <2>5. k = session[s] => Covered(Append(link[s], f), k, b, sent'[s])
    BY <1>6, <2>4 DEF b, IsDataOf, SendFrame
  <2> QED
    BY <1>1, <2>1, <2>4, <2>5
<1>9. Sound(s)'
  <2> DEFINE k == session[p]
             b == Base(s, k)
  <2> SUFFICES ASSUME InSession(p)
               PROVE  \E t \in Nat : Covered(link'[s], k, b, t)
    <3>1. session' = session /\ (InSession(p)' => InSession(p))
      BY <1>1
    <3>2. Base(s, session[p])' = b
      BY <1>1, <3>1 DEF Base
    <3> QED
      BY <3>1, <3>2 DEF Sound
  <2>1. k \in Nat /\ b \in Nat /\ Numbered(link[s], k, b) /\ sent'[s] \in Nat
    <3>1. k \in Nat
      BY UnitTypes DEF IInv
    <3>2. sent'[s] \in Nat
      <4>1. sent'[s] = sent[s] + 1 \/ sent'[s] = sent[s]
        BY DEF SendFrame
      <4>2. sent[s] \in Nat
        BY <1>4
      <4> QED
        BY <4>1, <4>2
    <3> QED
      BY <1>4, <1>5, <3>1, <3>2 DEF Stream
  <2>2. CASE k = session[s]
    BY <1>3, <1>8, <2>1, <2>2
  <2>3. CASE k # session[s]
    <3>1. PICK t \in Nat : Covered(link[s], k, b, t)
      BY <1>5 DEF Stream, Sound
    <3>2. ~IsDataOf(f, k) /\ ~IsFinalOf(f, k)
      BY <2>3 DEF IsDataOf, IsFinalOf
    <3> HIDE DEF k, b
    <3>3. Covered(Append(link[s], f), k, b, t)
      BY <1>4, <2>1, <3>1, <3>2, AppendNumber
    <3> QED
      BY <1>1, <3>3
  <2> QED
    BY <2>2, <2>3
<1>10. Stream(s)' /\ Stream(p)'
  <2>1. Sound(p)'
    BY <1>1, <1>3, <1>5, UnitTypes DEF Stream, Sound, IInv
  <2>2. Stream(s)'
    BY <1>1, <1>4, <1>7, <1>8, <1>9 DEF Stream
  <2>3. Stream(p)'
    BY <1>1, <1>3, <1>5, <2>1 DEF Stream
  <2> QED
    BY <2>2, <2>3
<1>11. Queue(s)' /\ Queue(p)'
  BY <1>1 DEF Data, Queue
<1>12. Room(p)'
  BY <1>1 DEF Data, Room
<1>13. Room(s)'
  <2> SUFFICES ASSUME InSession(p)
               PROVE  FramesIn(link'[s], "data", session[p]) + Len(readCh[p]) <= SendWindowSize
    BY <1>1 DEF Room
  <2> DEFINE d == FramesIn(link[s], "data", session[p])
  <2>1. d \in Nat /\ Len(readCh[p]) \in Nat /\ SendWindowSize \in Nat
    BY UnitTypes DEF IInv
  <2>2. FramesIn(link'[s], "data", session[p])
           = d + (IF f.type = "data" /\ f.session = session[p] THEN 1 ELSE 0)
    <3>1. \A k \in Nat : FramesIn(Append(link[s], f), "data", k)
                    = FramesIn(link[s], "data", k) + (IF f.type = "data" /\ f.session = k THEN 1 ELSE 0)
      BY <1>4, AppendCount
    <3>2. session[p] \in Nat
      BY UnitTypes DEF IInv
    <3> QED
      BY <1>1, <3>1, <3>2
  <2>3. CASE f.type = "data" /\ f.session = session[p]
    <3>1. d + Len(readCh[p]) + 1 <= WindowUnits(s) /\ WindowUnits(s) \in Nat
      BY <2>3, UnitsParts DEF IInv
    <3>2. WindowUnits(s) <= SendWindowSize
      BY DEF Data, Window
    <3> QED
      BY <2>1, <2>2, <2>3, <3>1, <3>2
  <2>4. CASE ~(f.type = "data" /\ f.session = session[p])
    <3>1. d + Len(readCh[p]) <= SendWindowSize
      BY DEF Data, Room
    <3> QED
      BY <2>1, <2>2, <2>4, <3>1
  <2> QED
    BY <2>3, <2>4
<1> QED
  BY <1>1, <1>10, <1>11, <1>12, <1>13 DEF Data

\* The window of the sender of a frame, and that of its peer.
LEMMA SendUnits ==
    ASSUME IInv, NEW s \in Side, NEW p \in Side, p = Peer(s),
           NEW f \in Frame, f.session = session[s], SendFrame(s, p, f),
           UNCHANGED <<sendWindow, ackCh>>, wpc'[p] = wpc[p],
           f.type = "data" => wpc[s] = "send" /\ wpc'[s] # "send" /\ rpc'[s] = rpc[s],
           f.type = "ack" => rpc[s] = "ack" /\ rpc'[s] # "ack" /\ wpc'[s] = wpc[s],
           f.type \in Final => wpc'[s] = wpc[s] /\ rpc'[s] = rpc[s]
    PROVE  WindowUnits(s)' = WindowUnits(s) /\ WindowUnits(p)' = WindowUnits(p)
<1>1. p # s /\ Peer(p) = s
  BY DEF Peer, Side
<1>2. /\ UNCHANGED <<session, readCh>> /\ rpc'[p] = rpc[p]
      /\ link'[s] = Append(link[s], f) /\ link'[p] = link[p]
  BY DEF SendFrame
<1> DEFINE ds == FramesIn(link[s], "data", session[s])
           ak == FramesIn(link[p], "ack", session[s])
           dp == FramesIn(link[p], "data", session[p])
           ap == FramesIn(link[s], "ack", session[p])
           rs == Len(readCh[s])
           rp == Len(readCh[p])
           ks == session[s]
           kp == session[p]
           w == One(wpc[s] = "send")
           w1 == One(wpc'[s] = "send")
           h == One(kp = ks /\ rpc[p] = "ack")
           v == One(wpc[p] = "send")
           g == One(ks = kp /\ rpc[s] = "ack")
           g1 == One(ks = kp /\ rpc'[s] = "ack")
<1>3. /\ ds \in Nat /\ ak \in Nat /\ dp \in Nat /\ ap \in Nat /\ rs \in Nat /\ rp \in Nat
      /\ sendWindow[s] \in Nat /\ ackCh[s] \in Nat /\ sendWindow[p] \in Nat /\ ackCh[p] \in Nat
      /\ ks \in Nat /\ kp \in Nat /\ link[s] \in Seq(Frame)
  BY UnitTypes DEF IInv
<1>4. f.type \in {"data", "ack", "final", "finalAck"}
  BY DEF Frame
<1>5. FramesIn(link'[s], "data", ks) = ds + (IF f.type = "data" THEN 1 ELSE 0)
  <2>1. \A k \in Nat : FramesIn(Append(link[s], f), "data", k)
           = FramesIn(link[s], "data", k) + (IF f.type = "data" /\ f.session = k THEN 1 ELSE 0)
    BY <1>3, AppendCount
  <2> QED
    BY <1>2, <1>3, <2>1
<1>6. FramesIn(link'[s], "ack", kp) = ap + (IF f.type = "ack" /\ ks = kp THEN 1 ELSE 0)
  <2>1. \A k \in Nat : FramesIn(Append(link[s], f), "ack", k)
           = FramesIn(link[s], "ack", k) + (IF f.type = "ack" /\ f.session = k THEN 1 ELSE 0)
    BY <1>3, AppendCount
  <2> QED
    BY <1>2, <1>3, <2>1
<1>7. WindowUnits(s) = sendWindow[s] + w + ds + h
                       + (IF kp = ks THEN rp ELSE 0) + ak + ackCh[s]
  BY DEF WindowUnits
<1>8. WindowUnits(s)' = sendWindow[s] + w1 + FramesIn(link'[s], "data", ks)
                        + h
                        + (IF kp = ks THEN rp ELSE 0) + ak + ackCh[s]
  BY <1>2 DEF WindowUnits
<1>9. WindowUnits(p) = sendWindow[p] + v + dp + g
                       + (IF ks = kp THEN rs ELSE 0) + ap + ackCh[p]
  BY <1>1 DEF WindowUnits
<1>10. WindowUnits(p)' = sendWindow[p] + v + dp + g1
                         + (IF ks = kp THEN rs ELSE 0) + FramesIn(link'[s], "ack", kp) + ackCh[p]
  BY <1>1, <1>2 DEF WindowUnits
<1>11. /\ w \in Nat /\ h \in Nat /\ v \in Nat /\ g \in Nat
       /\ w1 + (IF f.type = "data" THEN 1 ELSE 0) = w
       /\ g1 + (IF f.type = "ack" /\ ks = kp THEN 1 ELSE 0) = g
       /\ w1 \in Nat /\ g1 \in Nat
  BY <1>4 DEF One, Final
<1> HIDE DEF ds, ak, dp, ap, rs, rp, ks, kp, w, w1, h, v, g, g1
<1>12. WindowUnits(s)' = WindowUnits(s)
  <2> DEFINE d == FramesIn(link'[s], "data", ks)
             r == IF kp = ks THEN rp ELSE 0
  <2>1. d \in Nat /\ d + w1 = ds + w
    <3>1. ds \in Nat /\ w \in Nat /\ w1 \in Nat
      BY <1>3, <1>11
    <3>2. CASE f.type = "data"
      <4>1. d = ds + 1 /\ w1 + 1 = w
        BY <1>5, <1>11, <3>2
      <4> QED
        BY <3>1, <4>1
    <3>3. CASE f.type # "data"
      <4>1. d = ds + 0 /\ w1 + 0 = w
        BY <1>5, <1>11, <3>3
      <4> QED
        BY <3>1, <4>1
    <3> QED
      BY <3>2, <3>3
  <2>2. r \in Nat
    BY <1>3
  <2>3. WindowUnits(s) = sendWindow[s] + w + ds + h + r + ak + ackCh[s]
    BY <1>7
  <2>4. WindowUnits(s)' = sendWindow[s] + w1 + d + h + r + ak + ackCh[s]
    BY <1>8
  <2> HIDE DEF d, r
  <2>5. /\ ds \in Nat /\ w \in Nat /\ w1 \in Nat /\ h \in Nat /\ ak \in Nat
        /\ sendWindow[s] \in Nat /\ ackCh[s] \in Nat
    BY <1>3, <1>11
  <2> DEFINE x == sendWindow[s]
             y == ackCh[s]
  <2>6. x \in Nat /\ y \in Nat /\ h \in Nat /\ r \in Nat /\ ak \in Nat
    BY <2>2, <2>5
  <2>7. w \in Nat /\ ds \in Nat /\ w1 \in Nat /\ d \in Nat
    BY <2>1, <2>5
  <2> HIDE DEF x, y
  <2>8. x + w + ds + h + r + ak + y = (w + ds) + (x + h + r + ak + y)
    BY <2>6, <2>7
  <2>9. x + w1 + d + h + r + ak + y = (d + w1) + (x + h + r + ak + y)
    BY <2>6, <2>7
  <2>10. w + ds = d + w1
    BY <2>1, <2>5
  <2> QED
    BY <2>3, <2>4, <2>8, <2>9, <2>10 DEF x, y
<1>13. WindowUnits(p)' = WindowUnits(p)
  <2> DEFINE a == FramesIn(link'[s], "ack", kp)
             r == IF ks = kp THEN rs ELSE 0
  <2>1. a \in Nat /\ a + g1 = ap + g
    <3>1. ap \in Nat /\ g \in Nat /\ g1 \in Nat
      BY <1>3, <1>11
    <3>2. CASE f.type = "ack" /\ ks = kp
      <4>1. a = ap + 1 /\ g1 + 1 = g
        BY <1>6, <1>11, <3>2
      <4> QED
        BY <3>1, <4>1
    <3>3. CASE ~(f.type = "ack" /\ ks = kp)
      <4>1. a = ap + 0 /\ g1 + 0 = g
        BY <1>6, <1>11, <3>3
      <4> QED
        BY <3>1, <4>1
    <3> QED
      BY <3>2, <3>3
  <2>2. r \in Nat
    BY <1>3
  <2>3. WindowUnits(p) = sendWindow[p] + v + dp + g + r + ap + ackCh[p]
    BY <1>9
  <2>4. WindowUnits(p)' = sendWindow[p] + v + dp + g1 + r + a + ackCh[p]
    BY <1>10
  <2> HIDE DEF a, r
  <2>5. /\ dp \in Nat /\ v \in Nat /\ g \in Nat /\ g1 \in Nat /\ ap \in Nat
        /\ sendWindow[p] \in Nat /\ ackCh[p] \in Nat
    BY <1>3, <1>11
  <2> QED
    BY <2>1, <2>2, <2>3, <2>4, <2>5
<1> QED
  BY <1>12, <1>13

\* What keeps the window of both ends when a frame is sent or dropped.
LEMMA WindowsKept ==
    ASSUME IInv, Data, NEW s \in Side, NEW p \in Side, p = Peer(s),
           UNCHANGED <<session, pooled, runState, aborted, open>>,
           WindowUnits(s)' = WindowUnits(s)
              \/ (WindowUnits(s)' <= WindowUnits(s) /\ aborted[s]),
           WindowUnits(p)' = WindowUnits(p)
              \/ (WindowUnits(p)' <= WindowUnits(p) /\ aborted[s]),
           WindowUnits(s)' \in Nat, WindowUnits(p)' \in Nat
    PROVE  \A t \in Side : Window(t)'
<1>1. \A t \in Side : InSession(t)' <=> InSession(t)
  BY DEF InSession
<1>2. \A t \in Side : t = s \/ t = p
  BY DEF Side, Peer
<1>3. ASSUME NEW t \in Side,
             WindowUnits(t)' = WindowUnits(t)
                \/ (WindowUnits(t)' <= WindowUnits(t) /\ aborted[s]),
             WindowUnits(t)' \in Nat
      PROVE  Window(t)'
  <2>1. WindowUnits(t) \in Nat /\ SendWindowSize \in Nat
    BY UnitsParts, UnitTypes DEF IInv
  <2>2. Window(t)
    BY DEF Data
  <2>3. WindowUnits(t)' <= WindowUnits(t)
    BY <1>3, <2>1
  <2>4. InSession(t) => WindowUnits(t)' <= SendWindowSize
    BY <1>3, <2>1, <2>2, <2>3 DEF Window
  <2> QED
    BY <1>1, <1>3, <2>2, <2>4 DEF Window
<1> QED
  BY <1>2, <1>3

\* A frame that is dropped takes its unit of the window with it.
LEMMA DropUnits ==
    ASSUME TypeOK, NEW s \in Side, NEW p \in Side, p = Peer(s),
           UNCHANGED <<link, session, readCh, sendWindow, ackCh>>,
           wpc'[s] = "send" => wpc[s] = "send",
           rpc'[p] = "ack" => rpc[p] = "ack"
    PROVE  WindowUnits(s)' \in Nat /\ WindowUnits(s)' <= WindowUnits(s)
<1> DEFINE d == FramesIn(link[s], "data", session[s])
           a == FramesIn(link[p], "ack", session[s])
           r == IF session[p] = session[s] THEN Len(readCh[p]) ELSE 0
           h == One(session[p] = session[s] /\ rpc[p] = "ack")
           h1 == One(session[p] = session[s] /\ rpc'[p] = "ack")
           w == One(wpc[s] = "send")
           w1 == One(wpc'[s] = "send")
<1>1. d \in Nat /\ a \in Nat /\ sendWindow[s] \in Nat /\ ackCh[s] \in Nat
  BY UnitTypes
<1>2. r \in Nat
  BY UnitTypes
<1>3. h \in Nat /\ h1 \in Nat /\ h1 <= h
  BY DEF One
<1>4. w \in Nat /\ w1 \in Nat /\ w1 <= w
  BY DEF One
<1>5. WindowUnits(s) = sendWindow[s] + w + d + h + r + a + ackCh[s]
  BY DEF WindowUnits
<1>6. WindowUnits(s)' = sendWindow[s] + w1 + d + h1 + r + a + ackCh[s]
  BY DEF WindowUnits
<1> HIDE DEF d, a, r, h, h1, w, w1
<1> QED
  BY <1>1, <1>2, <1>3, <1>4, <1>5, <1>6

\* A frame that is sent keeps the invariant.
LEMMA SendUse ==
    ASSUME IInv, Control, Data, NEW s \in Side, NEW p \in Side, p = Peer(s),
           InSession(s), ~localSentFinal[s],
           NEW f \in Frame, f.session = session[s], SendFrame(s, p, f),
           UNCHANGED <<sendWindow, ackCh, open, late>>,
           wpc'[p] = wpc[p], fdw'[p] = fdw[p],
           f.type = "data" => wpc[s] = "send" /\ wpc'[s] # "send" /\ rpc'[s] = rpc[s],
           f.type = "ack" => rpc[s] = "ack" /\ rpc'[s] # "ack" /\ wpc'[s] = wpc[s],
           f.type \in Final => /\ localClosed[s]
                               /\ wpc'[s] = wpc[s] /\ rpc'[s] = rpc[s],
           f.type = "finalAck" => remoteSentFinal[s],
           f.type = "data" => f.n = sent[s] + 1,
           f.type \in Final => f.n = sent[s],
           Calls(s)', Clean(s)'
    PROVE  Control' /\ Data'
<1>1. WindowUnits(s)' = WindowUnits(s) /\ WindowUnits(p)' = WindowUnits(p)
  BY SendUnits
<1>2. WindowUnits(s) \in Nat /\ WindowUnits(p) \in Nat
  BY UnitsParts DEF IInv
<1>3. UNCHANGED <<session, pooled, runState, aborted, open>>
  BY DEF SendFrame
<1>4. \A t \in Side : Window(t)'
  BY <1>1, <1>2, <1>3, WindowsKept
<1>5. Calls(p)' /\ Clean(p)'
  <2>1. Calls(p) /\ Clean(p)
    BY DEF Control
  <2>2. InSession(p)' <=> InSession(p)
    BY <1>3 DEF InSession
  <2>3. Calls(p)'
    BY <2>1, <2>2 DEF Calls, SendFrame
  <2>4. Clean(p)'
    BY <2>1, <2>2 DEF Clean, SendFrame
  <2> QED
    BY <2>3, <2>4
<1>6. \A t \in Side : t = s \/ t = p
  BY DEF Side, Peer
<1>7. \A t \in Side : Calls(t)' /\ Clean(t)'
  BY <1>5, <1>6
<1>8. \A t \in Side : wpc'[t] = "send" => wpc[t] = "send"
  BY <1>6 DEF Frame, Final
<1>9. Control'
  BY <1>7, <1>8, SendControl
<1>10. Data'
  BY <1>4, SendData
<1> QED
  BY <1>9, <1>10

\* The Frames that an end can send.
LEMMA FrameOfFields ==
    ASSUME TypeOK, NEW s \in Side, NEW n \in Nat,
           NEW ty \in {"data", "ack", "final", "finalAck"}
    PROVE  /\ FrameOf(s, ty, n) \in Frame
           /\ FrameOf(s, ty, n).type = ty /\ FrameOf(s, ty, n).n = n
           /\ FrameOf(s, ty, n).session = session[s]
<1>1. session[s] \in 0..MaxSessions
  BY EndTypes
<1>2. FrameOf(s, ty, n) \in Frame
  BY <1>1 DEF FrameOf, Frame
<1>3. FrameOf(s, ty, n).type = ty /\ FrameOf(s, ty, n).n = n
  BY DEF FrameOf
<1>4. FrameOf(s, ty, n).session = session[s]
  BY DEF FrameOf
<1> QED
  BY <1>2, <1>3, <1>4

\* writeFrame sends the next data frame, or drops it when the Muxer is closed.
LEMMA WriteSendUse ==
    ASSUME Disciplined, IInv, NoPanic, Control, Data, NEW s \in Side, WriteSend(s)
    PROVE  panic' = "none" /\ Control' /\ Data'
<1>1. TypeOK /\ FlagTypes /\ FlowTypes
  BY StepTypes DEF IInv
<1>2. PICK p \in Side : p = Peer(s) /\ p # s /\ Peer(p) = s /\ \A t \in Side : t = s \/ t = p
  BY DEF Side, Peer
<1>3. /\ wpc[s] = "send" /\ wpc'[s] = "idle" /\ wpc'[p] = wpc[p]
      /\ UNCHANGED <<connVars, rpc, cpc, mpc, userVars, aborted, panic, session, rcvd, total>>
  BY <1>1, <1>2 DEF WriteSend, FlagTypes
<1>4. Calls(s) /\ Clean(s) /\ Submits(s) /\ InSession(s) /\ ~localSentFinal[s]
  BY <1>3 DEF Control, Calls, Clean
<1>5. InSession(s)' <=> InSession(s)
  BY <1>3 DEF InSession
<1>6. Calls(s)' /\ Clean(s)'
  BY <1>3, <1>4, <1>5 DEF Calls, Clean
<1> DEFINE f == FrameOf(s, "data", sent[s] + 1)
<1>7. /\ f \in Frame /\ f.type = "data" /\ f.n = sent[s] + 1 /\ f.session = session[s]
      /\ link[s] \in Seq(Frame) /\ sent[s] \in Nat
  <2>1. sent[s] \in Nat /\ link[s] \in Seq(Frame)
    BY <1>1, UnitTypes
  <2>2. sent[s] + 1 \in Nat
    BY <2>1
  <2> QED
    BY <1>1, <2>1, <2>2, FrameOfFields
<1> HIDE DEF f
<1>8. CASE link' = [link EXCEPT ![s] = Append(@, f)]
  <2>1. link'[s] = Append(link[s], f) /\ link'[p] = link[p]
    BY <1>1, <1>2, <1>8, Zenon DEF TypeOK
  <2>2. link' # link
    <3>1. Len(Append(link[s], f)) = Len(link[s]) + 1 /\ Len(link[s]) \in Nat
      BY <1>7, AppendProperties, LenProperties
    <3> QED
      BY <2>1, <3>1
  <2>3. sent'[s] = sent[s] + 1 /\ sent'[p] = sent[p]
    BY <1>1, <1>2, <2>2, Zenon DEF WriteSend, TypeOK
  <2>4. SendFrame(s, p, f)
    <3>1. localSentFinal'[s] = (f.type \in Final) /\ localSentFinal'[p] = localSentFinal[p]
      BY <1>1, <1>3, <1>4, <1>7 DEF Final, FlagTypes
    <3> QED
      BY <1>3, <1>7, <2>1, <2>3, <3>1 DEF SendFrame
  <2>5. UNCHANGED <<sendWindow, ackCh, open, late>> /\ fdw'[p] = fdw[p]
    BY <1>3
  <2>6. Control' /\ Data'
    BY <1>2, <1>3, <1>4, <1>6, <1>7, <2>4, <2>5, SendUse DEF Final
  <2> QED
    BY <1>3, <2>6 DEF NoPanic
<1>9. CASE aborted[s] /\ link' = link
  <2>1. sent' = sent
    BY <1>1, <1>9, Zenon DEF WriteSend, TypeOK
  <2>2. \A t \in Side : InSession(t)' <=> InSession(t)
    BY <1>3 DEF InSession
  <2>3. Quiet
    BY <1>2, <1>3, <1>9, <2>1, <2>2 DEF Quiet, Steady
  <2>4. Own(s)'
    BY <1>3, <1>4, <1>5, <1>6, <1>9 DEF Own, Submits, Incoming
  <2>5. Own(p)'
    <3>1. Calls(p) /\ Clean(p) /\ Submits(p)
      BY DEF Control
    <3>2. Calls(p)' /\ Clean(p)'
      BY <1>3, <2>2, <3>1 DEF Calls, Clean
    <3>3. Submits(p)'
      BY <1>3, <1>9, <2>2, <3>1 DEF Submits, Incoming
    <3> QED
      BY <3>2, <3>3 DEF Own
  <2>6. WindowUnits(p)' = WindowUnits(p)
    BY <1>2, <1>3, <1>9 DEF WindowUnits
  <2>7. WindowUnits(s)' \in Nat /\ WindowUnits(s)' <= WindowUnits(s)
    BY <1>1, <1>2, <1>3, <1>9, DropUnits
  <2>8. WindowUnits(p) \in Nat
    BY <1>1, UnitsParts
  <2>10. \A t \in Side : Window(t)'
    <3>1. UNCHANGED <<session, pooled, runState, aborted, open>>
      BY <1>3
    <3> QED
      BY <1>2, <1>9, <2>6, <2>7, <2>8, <3>1, WindowsKept
  <2>11. ServerFirst'
    BY <1>3 DEF Control, ServerFirst
  <2>12. Control' /\ Data'
    BY <1>2, <2>3, <2>4, <2>5, <2>10, <2>11, QuietStep
  <2> QED
    BY <1>3, <2>12 DEF NoPanic
<1> QED
  BY <1>8, <1>9 DEF WriteSend, ConnWrite, f

\* writeAckFrame sends the ack it owes, or drops it when the Muxer is closed.
LEMMA ReadAckUse ==
    ASSUME Disciplined, IInv, NoPanic, Control, Data, NEW s \in Side, ReadAck(s)
    PROVE  panic' = "none" /\ Control' /\ Data'
<1>1. TypeOK /\ FlagTypes /\ FlowTypes
  BY StepTypes DEF IInv
<1>2. PICK p \in Side : p = Peer(s) /\ p # s /\ Peer(p) = s /\ \A t \in Side : t = s \/ t = p
  BY DEF Side, Peer
<1>3. /\ rpc[s] = "ack" /\ rpc'[s] \in {"idle", "sink"} /\ rpc'[p] = rpc[p]
      /\ UNCHANGED <<connVars, wpc, cpc, mpc, userVars, aborted, panic, histVars>>
  BY <1>1, <1>2 DEF ReadAck, FlagTypes
<1>4. Calls(s) /\ Clean(s) /\ Submits(s) /\ InSession(s) /\ ~localSentFinal[s]
  BY <1>3 DEF Control, Calls, Clean
<1>5. \A t \in Side : InSession(t)' <=> InSession(t)
  BY <1>3 DEF InSession
<1>6. Calls(s)' /\ Clean(s)'
  BY <1>3, <1>4, <1>5 DEF Calls, Clean
<1> DEFINE f == FrameOf(s, "ack", 0)
<1>7. f \in Frame /\ f.type = "ack" /\ f.session = session[s]
  BY <1>1, FrameOfFields
<1> HIDE DEF f
<1>8. CASE link' = [link EXCEPT ![s] = Append(@, f)]
  <2>1. link'[s] = Append(link[s], f) /\ link'[p] = link[p]
    BY <1>1, <1>2, <1>8, Zenon DEF TypeOK
  <2>2. SendFrame(s, p, f)
    <3>1. localSentFinal'[s] = (f.type \in Final) /\ localSentFinal'[p] = localSentFinal[p]
      BY <1>1, <1>3, <1>4, <1>7 DEF Final, FlagTypes
    <3> QED
      BY <1>3, <1>7, <2>1, <3>1 DEF SendFrame
  <2>3. UNCHANGED <<sendWindow, ackCh, open, late, wpc, fdw>>
    BY <1>3
  <2>4. Control' /\ Data'
    BY <1>2, <1>3, <1>4, <1>6, <1>7, <2>2, <2>3, SendUse DEF Final
  <2> QED
    BY <1>3, <2>4 DEF NoPanic
<1>9. CASE aborted[s] /\ link' = link
  <2>1. Quiet
    BY <1>2, <1>3, <1>5, <1>9 DEF Quiet, Steady
  <2>2. Own(s)'
    BY <1>3, <1>4, <1>5, <1>6, <1>9 DEF Own, Submits, Incoming
  <2>3. Own(p)'
    <3>1. Calls(p) /\ Clean(p) /\ Submits(p)
      BY DEF Control
    <3>2. Calls(p)' /\ Clean(p)'
      BY <1>3, <1>5, <3>1 DEF Calls, Clean
    <3>3. Submits(p)'
      BY <1>3, <1>5, <1>9, <3>1 DEF Submits, Incoming
    <3> QED
      BY <3>2, <3>3 DEF Own
  <2>4. WindowUnits(s)' = WindowUnits(s)
    BY <1>2, <1>3, <1>9 DEF WindowUnits
  <2>5. WindowUnits(p)' \in Nat /\ WindowUnits(p)' <= WindowUnits(p)
    BY <1>1, <1>2, <1>3, <1>9, DropUnits
  <2>6. WindowUnits(s) \in Nat
    BY <1>1, UnitsParts
  <2>7. \A t \in Side : Window(t)'
    BY <1>2, <1>3, <1>9, <2>4, <2>5, <2>6, WindowsKept
  <2>8. ServerFirst'
    BY <1>3 DEF Control, ServerFirst
  <2>9. Control' /\ Data'
    BY <1>2, <2>1, <2>2, <2>3, <2>7, <2>8, QuietStep
  <2> QED
    BY <1>3, <2>9 DEF NoPanic
<1> QED
  BY <1>8, <1>9 DEF ReadAck, ConnWrite, f

\* Close sends the final frame, which has the number of the last data frame;
\* a Muxer that is closed may drop it.
LEMMA CloseFinalUse ==
    ASSUME Disciplined, IInv, NoPanic, Control, Data, NEW s \in Side, CloseFinal(s)
    PROVE  panic' = "none" /\ Control' /\ Data'
<1>1. TypeOK /\ FlagTypes /\ FlowTypes
  BY StepTypes DEF IInv
<1>2. PICK p \in Side : p = Peer(s) /\ p # s /\ Peer(p) = s /\ \A t \in Side : t = s \/ t = p
  BY DEF Side, Peer
<1>3. /\ cpc[s] = "final" /\ localClosed[s] /\ ~localSentFinal[s]
      /\ wpc[s] = "idle" /\ rpc[s] = "idle"
  BY DEF CloseFinal, IInv, ConnInv
<1>4. Calls(s) /\ Clean(s) /\ Submits(s) /\ InSession(s) /\ fdw[s] # "data"
  BY <1>3 DEF Control, Calls, Clean
<1>5. /\ UNCHANGED <<runState, localClosed, remoteSentFinal, readCh, wpc, rpc, mpc>>
      /\ UNCHANGED <<userVars, aborted, histVars, flowVars, panic>>
      /\ ConnWrite(s, FrameOf(s, FinalType(s), sent[s]))
  BY <1>4 DEF CloseFinal
<1>6. /\ localSentFinal'[s] = TRUE /\ localSentFinal'[p] = localSentFinal[p]
      /\ fdw'[s] = "nil" /\ fdw'[p] = fdw[p]
  BY <1>1, <1>2 DEF CloseFinal, FlagTypes
<1>7. \A t \in Side : InSession(t)' <=> InSession(t)
  BY <1>5 DEF InSession
<1>8. Calls(s)' /\ Clean(s)'
  BY <1>3, <1>4, <1>5, <1>6, <1>7 DEF Calls, Clean
<1> DEFINE f == FrameOf(s, FinalType(s), sent[s])
<1>9. /\ f \in Frame /\ f.type \in Final /\ f.session = session[s] /\ f.n = sent[s]
      /\ f.type = "finalAck" => remoteSentFinal[s]
  <2>1. /\ FinalType(s) \in {"data", "ack", "final", "finalAck"} /\ FinalType(s) \in Final
        /\ FinalType(s) = "finalAck" => remoteSentFinal[s]
    BY DEF FinalType, Final
  <2>2. sent[s] \in Nat
    BY <1>1, UnitTypes
  <2> QED
    BY <1>1, <2>1, <2>2, FrameOfFields
<1> HIDE DEF f
<1>10. CASE link' = [link EXCEPT ![s] = Append(@, f)]
  <2>1. link'[s] = Append(link[s], f) /\ link'[p] = link[p]
    BY <1>1, <1>2, <1>10, Zenon DEF TypeOK
  <2>2. f.type \notin {"data", "ack"}
    BY <1>9 DEF Final
  <2>3. SendFrame(s, p, f)
    BY <1>5, <1>6, <1>9, <2>1, <2>2 DEF SendFrame
  <2>4. Control' /\ Data'
    BY <1>2, <1>3, <1>4, <1>5, <1>6, <1>8, <1>9, <2>2, <2>3, SendUse
  <2> QED
    BY <1>5, <2>4 DEF NoPanic
<1>11. CASE aborted[s] /\ link' = link
  <2>1. /\ UNCHANGED <<session, pooled, remoteSentFinal, aborted, mpc, localClosed>>
        /\ UNCHANGED <<readCh, rcvd, rpc, link>>
        /\ \A t \in Side : localSentFinal[t] => localSentFinal'[t]
    BY <1>2, <1>5, <1>6, <1>11
  <2>2. /\ Sessions /\ Unheard /\ FinalArrives /\ ServerFollows /\ ServerFirst
        /\ \A t \in Side : Traffic(t) /\ FinalSent(t) /\ Submits(t) /\ Calls(t) /\ Clean(t)
    BY DEF Control
  <2>3. "client" \in Side /\ "server" \in Side
    BY DEF Side
  <2>4. Sessions' /\ Unheard' /\ ServerFirst'
    BY <1>7, <2>1, <2>2, <2>3 DEF Sessions, Unheard, ServerFirst
  <2>5. FinalArrives'
    <3>1. CASE s = "client"
      BY <1>11, <2>1, <3>1 DEF FinalArrives
    <3>2. CASE p = "client"
      BY <1>6, <1>7, <2>1, <2>2, <2>3, <3>2 DEF FinalArrives
    <3> QED
      BY <1>2, <2>3, <3>1, <3>2
  <2>6. ServerFollows'
    BY <1>5, <1>7, <2>1, <2>2, <2>3 DEF ServerFollows, Silenced, ClientGone, FinalFor
  <2>7. ASSUME NEW t \in Side PROVE Traffic(t)' /\ FinalSent(t)' /\ Submits(t)'
    <3>1. Traffic(t)' /\ FinalSent(t)'
      BY <1>7, <2>1, <2>2, PeerType DEF Traffic, FinalSent
    <3>2. Submits(t)'
      BY <1>7, <2>1, <2>2 DEF Submits, Incoming
    <3> QED
      BY <3>1, <3>2
  <2>8. Calls(p)' /\ Clean(p)'
    BY <1>5, <1>6, <1>7, <2>2 DEF Calls, Clean
  <2>9. Control'
    BY <1>2, <1>8, <2>4, <2>5, <2>6, <2>7, <2>8 DEF Control
  <2>10. ASSUME NEW t \in Side PROVE Window(t)'
    <3>1. WindowUnits(t)' = WindowUnits(t)
      BY <1>5, <1>11 DEF WindowUnits
    <3> QED
      BY <1>5, <1>7, <3>1 DEF Window, Data
  <2>11. ASSUME NEW t \in Side PROVE Stream(t)' /\ Queue(t)' /\ Room(t)'
    <3>1. /\ \A k \in Nat : Base(t, k)' = Base(t, k)
          /\ Base(t, session[t])' = Base(t, session[t])
          /\ Base(t, session[Peer(t)])' = Base(t, session[Peer(t)])
      BY <1>5 DEF Base
    <3>2. NotLeft(t)' <=> NotLeft(t)
      BY <1>5, <1>7, PeerType DEF NotLeft
    <3>3. Stream(t)'
      <4>1. Sound(t)'
        BY <1>5, <1>7, <1>11, <3>1, PeerType DEF Data, Stream, Sound
      <4> QED
        BY <1>5, <1>11, <3>1, <3>2, <4>1 DEF Data, Stream
    <3>4. Queue(t)'
      BY <1>5 DEF Data, Queue
    <3>5. Room(t)'
      BY <1>5, <1>7, <1>11, PeerType DEF Data, Room
    <3> QED
      BY <3>3, <3>4, <3>5
  <2> QED
    BY <1>5, <2>9, <2>10, <2>11 DEF NoPanic, Data
<1> QED
  BY <1>5, <1>10, <1>11 DEF ConnWrite, f

----------------------------------------------------------------------------
(* Recycling.                                                              *)

\* An end that recycles has its both finals, and leaves its session.
RecyclingEnd(s, p) ==
    /\ localClosed[s] /\ localSentFinal[s] /\ remoteSentFinal[s]
    /\ InSession(s) /\ ~open[s] /\ wpc[s] = "idle" /\ rpc[s] = "idle"
    /\ mpc[s] # "submit" /\ mpc'[s] # "submit" /\ mpc'[p] = mpc[p]
    /\ ~localClosed'[s] /\ ~localSentFinal'[s] /\ ~remoteSentFinal'[s]
    /\ localClosed'[p] = localClosed[p] /\ localSentFinal'[p] = localSentFinal[p]
    /\ remoteSentFinal'[p] = remoteSentFinal[p]
    /\ sendWindow'[s] = SendWindowSize /\ sendWindow'[p] = sendWindow[p]
    /\ ackCh'[s] = 0 /\ ackCh'[p] = ackCh[p]
    /\ readCh'[s] = <<>> /\ readCh'[p] = readCh[p]
    /\ fdw'[p] = fdw[p]
    /\ pooled' = (pooled \/ s = "client")
    /\ ~InSession(s)' /\ (InSession(p)' <=> InSession(p))
    /\ UNCHANGED <<wpc, rpc, open, late, aborted, link, panic, histVars>>

\* No frame for a session is on its way to an end that has received the
\* session's final frame.
LEMMA NoneAfterFinal ==
    ASSUME Control, NEW s \in Side, remoteSentFinal[s],
           NEW f \in Contents(link[Peer(s)])
    PROVE  f.session = session[Peer(s)] /\ f.session # session[s]
<1>1. Peer(s) \in Side /\ Peer(Peer(s)) = s
  BY PeerType
<1>2. Traffic(Peer(s))
  BY <1>1 DEF Control
<1> QED
  BY <1>1, <1>2 DEF Traffic

\* recycleLocked finds what it needs, and does what RecyclingEnd says.
LEMMA RecycleFacts ==
    ASSUME IInv, Control, NEW s \in Side, NEW p \in Side, p = Peer(s),
           Recycle(s) \/ (CloseFinish(s) /\ remoteSentFinal[s])
    PROVE  RecyclingEnd(s, p)
<1>1. TypeOK /\ FlagTypes /\ FlowTypes
  BY StepTypes DEF IInv
<1>2. p # s /\ Peer(p) = s
  BY DEF Side, Peer
<1>3. localClosed[s] /\ localSentFinal[s] /\ remoteSentFinal[s] /\ fdw[s] = "nil"
  BY DEF Recycle, CloseFinish, IInv, ConnInv, SilentAfterFinal
<1>4. InSession(s) /\ ~open[s] /\ wpc[s] = "idle" /\ rpc[s] = "idle"
  BY <1>3 DEF Control, Calls, Clean
<1>5. mpc[s] # "submit"
  <2> SUFFICES ASSUME mpc[s] = "submit" PROVE FALSE
    OBVIOUS
  <2>1. link[p] # <<>> /\ link[p] \in Seq(Frame) /\ Incoming(s).session = session[s]
    BY <1>1, UnitTypes DEF IInv, ConnInv, Control, Submits
  <2>2. Head(link[p]) \in Contents(link[p])
    BY <2>1, TailContents
  <2> QED
    BY <1>3, <2>1, <2>2, NoneAfterFinal DEF Incoming
<1>6. ForceRecycle(s)
  <2>1. CanRecycle(s)
    BY <1>3 DEF CanRecycle
  <2> QED
    BY <1>3, <2>1 DEF Recycle, CloseFinish, RecycleLocked
<1>7. /\ mpc'[s] # "submit" /\ mpc'[p] = mpc[p]
      /\ UNCHANGED <<wpc, rpc, open, late, aborted, link, histVars>>
  BY <1>1, <1>2, <1>5 DEF Recycle, CloseFinish, FlagTypes
<1>8. /\ ~localClosed'[s] /\ ~localSentFinal'[s] /\ ~remoteSentFinal'[s]
      /\ localClosed'[p] = localClosed[p] /\ localSentFinal'[p] = localSentFinal[p]
      /\ remoteSentFinal'[p] = remoteSentFinal[p]
      /\ fdw'[p] = fdw[p]
  BY <1>1, <1>2, <1>6 DEF ForceRecycle, FlagTypes
<1>9. /\ sendWindow'[s] = SendWindowSize /\ sendWindow'[p] = sendWindow[p]
      /\ ackCh'[s] = 0 /\ ackCh'[p] = ackCh[p]
      /\ runState'[s] = "Unused" /\ runState'[p] = runState[p]
  BY <1>1, <1>2, <1>6 DEF ForceRecycle, FlowTypes
<1>10. readCh'[s] = <<>> /\ readCh'[p] = readCh[p]
  BY <1>1, <1>2, <1>6, ZenonT(40) DEF ForceRecycle, TypeOK
<1>11. pooled' = (pooled \/ s = "client") /\ UNCHANGED panic
  BY <1>6 DEF ForceRecycle
<1>12. ~InSession(s)' /\ (InSession(p)' <=> InSession(p))
  <2>1. CASE s = "client"
    BY <1>2, <1>9, <1>11, <2>1 DEF InSession
  <2>2. CASE s = "server"
    <3>1. p = "client" /\ pooled' = pooled
      BY <1>11, <1>1, <2>2, Zenon DEF Peer, TypeOK
    <3> QED
      BY <1>9, <2>2, <3>1 DEF InSession
  <2> QED
    BY <2>1, <2>2 DEF Side
<1> QED
  BY <1>3, <1>4, <1>5, <1>7, <1>8, <1>9, <1>10, <1>11, <1>12 DEF RecyclingEnd

\* Recycling keeps what relates the sessions and final frames.
LEMMA RecycleControl ==
    ASSUME IInv, Control, NEW s \in Side, NEW p \in Side, p = Peer(s), RecyclingEnd(s, p)
    PROVE  Control'
<1>1. p # s /\ Peer(p) = s /\ \A t \in Side : t = s \/ t = p
  BY DEF Side, Peer
<1>2. /\ UNCHANGED <<session, link, aborted>>
      /\ ~InSession(s)' /\ (InSession(p)' <=> InSession(p))
      /\ localSentFinal[s] /\ remoteSentFinal[s] /\ InSession(s)
      /\ ~localClosed'[s] /\ ~localSentFinal'[s] /\ ~remoteSentFinal'[s]
      /\ localClosed'[p] = localClosed[p] /\ localSentFinal'[p] = localSentFinal[p]
      /\ remoteSentFinal'[p] = remoteSentFinal[p] /\ readCh'[p] = readCh[p]
      /\ UNCHANGED <<rcvd, rpc>>
      /\ mpc'[p] = mpc[p] /\ mpc'[s] # "submit"
      /\ pooled' = (pooled \/ s = "client")
  BY DEF RecyclingEnd
<1>3. /\ Sessions /\ Unheard /\ FinalArrives /\ ServerFollows /\ ServerFirst
      /\ Traffic(s) /\ Traffic(p) /\ FinalSent(s) /\ FinalSent(p) /\ Submits(p)
      /\ Calls(s) /\ Calls(p) /\ Clean(p)
  BY DEF Control
<1>4. Calls(s)' /\ Clean(s)'
  BY <1>2, <1>3 DEF RecyclingEnd, Calls, Clean
<1>5. Calls(p)' /\ Clean(p)'
  BY <1>2, <1>3 DEF RecyclingEnd, Calls, Clean
<1>6. Submits(s)' /\ Submits(p)'
  BY <1>1, <1>2, <1>3 DEF Submits, Incoming
<1>7. FinalSent(s)' /\ FinalSent(p)'
  BY <1>1, <1>2 DEF FinalSent
<1>8. Traffic(s)'
  BY <1>2, <1>3 DEF Traffic
<1>9. Traffic(p)'
  <2>1. \A f \in Contents(link[p]) : f.session = session[p] /\ f.session # session[s]
    BY <1>2, NoneAfterFinal
  <2> QED
    BY <1>1, <1>2, <1>3, <2>1 DEF Traffic
<1>10. CASE s = "client"
  <2>1. p = "server" /\ session["client"] = session["server"] /\ pooled' = TRUE
    BY <1>2, <1>3, <1>10 DEF Peer, Unheard
  <2>2. Sessions'
    BY <1>2, <1>3, <2>1 DEF Sessions
  <2>3. Unheard'
    BY <1>2, <2>1 DEF Unheard
  <2>4. FinalArrives'
    BY <1>2, <1>10 DEF FinalArrives
  <2>5. ServerFirst'
    BY <1>2, <1>3, <1>10, <2>1 DEF ServerFirst
  <2>6. ServerFollows'
    <3> SUFFICES ASSUME InSession("server")
                 PROVE  /\ localSentFinal["server"]
                        /\ MaxSessions > 1 => \/ FinalFor("client")
                                              \/ mpc["server"] = "recycle"
                                              \/ Silenced
      <4>1. Silenced' <=> Silenced
        BY <1>2 DEF Silenced, RecyclingEnd
      <4> QED
        BY <1>1, <1>2, <2>1, <4>1 DEF ServerFollows, FinalFor
    <3>1. localSentFinal["server"]
      BY <1>2, <1>3, <1>10, <2>1 DEF FinalSent
    <3>2. ASSUME MaxSessions > 1, ~FinalFor("client"), ~aborted["client"]
          PROVE  mpc["server"] = "recycle"
      <4>1. remoteSentFinal["server"]
        BY <1>2, <1>3, <1>10, <2>1, <3>2 DEF FinalArrives, ServerFirst, FinalFor, Peer
      <4> QED
        BY <1>3, <3>2, <4>1 DEF ServerFirst
    <3>3. ASSUME aborted["client"] PROVE Silenced
      <4>1. \A f \in Contents(link["client"]) : f.session = session["server"]
        BY <1>3, <1>10, <2>1 DEF Traffic
      <4>2. wpc["client"] # "send" /\ session["server"] \in Nat
        BY <1>1, <1>2, <1>10, <2>1, UnitTypes DEF RecyclingEnd, IInv
      <4> QED
        BY <3>3, <4>1, <4>2 DEF Silenced
    <3> QED
      BY <3>1, <3>2, <3>3
  <2> QED
    BY <1>1, <1>4, <1>5, <1>6, <1>7, <1>8, <1>9, <2>2, <2>3, <2>4, <2>5, <2>6 DEF Control
<1>11. CASE s = "server"
  <2>1. p = "client" /\ pooled' = pooled
    BY <1>2, <1>11, Zenon DEF Peer, IInv, TypeOK
  <2>2. Sessions'
    <3>1. session["client"] = session["server"] /\ ~pooled => localSentFinal["client"]
      BY <1>2, <1>3, <1>11, <2>1 DEF FinalSent, InSession
    <3> QED
      BY <1>2, <1>3, <1>11, <2>1, <3>1 DEF Sessions
  <2>3. Unheard'
    BY <1>2, <1>3, <2>1 DEF Unheard
  <2>4. FinalArrives'
    BY <1>2, <1>3, <1>11, <2>1 DEF FinalArrives
  <2>5. ServerFirst'
    BY <1>2, <1>3, <1>11, <2>1 DEF ServerFirst
  <2>6. ServerFollows'
    BY <1>2, <1>11 DEF ServerFollows
  <2> QED
    BY <1>1, <1>4, <1>5, <1>6, <1>7, <1>8, <1>9, <2>2, <2>3, <2>4, <2>5, <2>6 DEF Control
<1> QED
  BY <1>10, <1>11 DEF Side

\* Recycling keeps the pipes and windows.
LEMMA RecycleData ==
    ASSUME IInv, Control, Data, NEW s \in Side, NEW p \in Side, p = Peer(s), RecyclingEnd(s, p)
    PROVE  Data'
<1>1. p # s /\ Peer(p) = s /\ \A t \in Side : t = s \/ t = p
  BY DEF Side, Peer
<1>2. /\ UNCHANGED <<session, link, aborted, sent, rcvd, total, open, wpc, rpc>>
      /\ ~InSession(s)' /\ (InSession(p)' <=> InSession(p))
      /\ remoteSentFinal[s] /\ ~remoteSentFinal'[s] /\ ~open[s]
      /\ remoteSentFinal'[p] = remoteSentFinal[p]
      /\ readCh'[s] = <<>> /\ readCh'[p] = readCh[p]
      /\ sendWindow'[p] = sendWindow[p] /\ ackCh'[p] = ackCh[p] /\ rpc[s] = "idle"
  BY DEF RecyclingEnd
<1>3. /\ Stream(s) /\ Stream(p) /\ Queue(p) /\ Window(p) /\ Room(s)
  BY DEF Data
<1>4. \A f \in Contents(link[p]) : f.session # session[s]
  BY <1>2, NoneAfterFinal
<1>5. Stream(s)'
  <2>1. /\ \A k \in Nat : Base(s, k)' = Base(s, k)
        /\ Base(s, session[s])' = Base(s, session[s])
    BY <1>2 DEF Base
  <2>2. NotLeft(s)' <=> NotLeft(s)
    BY <1>2 DEF NotLeft
  <2>3. Sound(s)'
    BY <1>2, <1>3, <2>1, UnitTypes DEF Stream, Sound, IInv
  <2> QED
    BY <1>2, <1>3, <2>1, <2>2, <2>3 DEF Stream
<1>6. Stream(p)'
  <2>1. ASSUME NEW k \in Nat PROVE Numbered(link'[p], k, Base(p, k)')
    <3>1. CASE k = session[s]
      BY <1>2, <1>4, <3>1 DEF Numbered, IsDataOf, IsFinalOf
    <3>2. CASE k # session[s]
      <4>1. Base(p, k)' = 0 /\ Base(p, k) = 0
        BY <1>1, <1>2, <3>2 DEF Base
      <4> QED
        BY <1>2, <1>3, <4>1 DEF Stream
    <3> QED
      BY <3>1, <3>2
  <2>2. NotLeft(p)' => /\ NotLeft(p)
                       /\ Base(p, session[p])' = Base(p, session[p])
    BY <1>1, <1>2 DEF NotLeft, Base
  <2>3. Sound(p)'
    BY <1>1, <1>2 DEF Sound
  <2> QED
    BY <1>2, <1>3, <2>1, <2>2, <2>3 DEF Stream
<1>7. Queue(s)' /\ Queue(p)'
  BY <1>2, <1>3 DEF Queue
<1>8. Room(s)' /\ Room(p)'
  BY <1>1, <1>2, <1>3 DEF Room
<1>9. Window(s)'
  BY <1>2 DEF Window
<1>10. Window(p)'
  <2>1. CASE session[s] # session[p]
    <3>1. WindowUnits(p)' = WindowUnits(p)
      BY <1>1, <1>2, <2>1 DEF WindowUnits
    <3> QED
      BY <1>2, <1>3, <3>1 DEF Window
  <2>2. CASE session[s] = session[p]
    <3>1. open[p] => FALSE
      <4>1. InSession(p) => localSentFinal[p]
        BY <1>2, <2>2 DEF Control, FinalSent
      <4>2. localSentFinal[p] => localClosed[p]
        BY DEF IInv, SilentAfterFinal
      <4> QED
        BY <4>1, <4>2 DEF Control, Calls
    <3>2. WindowUnits(p)' <= WindowUnits(p) /\ WindowUnits(p)' \in Nat
      <4> DEFINE d == FramesIn(link[p], "data", session[p])
                 a == FramesIn(link[s], "ack", session[p])
                 r == Len(readCh[s])
                 w == One(wpc[p] = "send")
      <4>1. d \in Nat /\ a \in Nat /\ r \in Nat /\ sendWindow[p] \in Nat /\ ackCh[p] \in Nat
        BY UnitTypes DEF IInv
      <4>2. w \in Nat
        BY DEF One
      <4>3. WindowUnits(p) = sendWindow[p] + w + d + 0 + r + a + ackCh[p]
        BY <1>1, <1>2, <2>2 DEF WindowUnits, One
      <4>4. WindowUnits(p)' = sendWindow[p] + w + d + 0 + 0 + a + ackCh[p]
        BY <1>1, <1>2, <2>2, EmptySeq DEF WindowUnits, One
      <4> HIDE DEF d, a, r, w
      <4> QED
        BY <4>1, <4>2, <4>3, <4>4
    <3>3. InSession(p) => WindowUnits(p)' <= SendWindowSize
      <4>1. WindowUnits(p) \in Nat /\ SendWindowSize \in Nat
        BY UnitsParts, UnitTypes DEF IInv
      <4> QED
        BY <1>3, <3>2, <4>1 DEF Window
    <3> QED
      BY <1>2, <3>1, <3>3 DEF Window
  <2> QED
    BY <2>1, <2>2
<1> QED
  BY <1>1, <1>5, <1>6, <1>7, <1>8, <1>9, <1>10 DEF Data

\* Recycling, by Close or by receivedFinal.
LEMMA RecycleUse ==
    ASSUME IInv, NoPanic, Control, Data, NEW s \in Side,
           Recycle(s) \/ (CloseFinish(s) /\ remoteSentFinal[s])
    PROVE  panic' = "none" /\ Control' /\ Data'
<1>1. PICK p \in Side : p = Peer(s)
  BY PeerType
<1>2. RecyclingEnd(s, p)
  BY <1>1, RecycleFacts
<1>3. panic' = "none"
  BY <1>2 DEF RecyclingEnd, NoPanic
<1> QED
  BY <1>1, <1>2, <1>3, RecycleControl, RecycleData

----------------------------------------------------------------------------
(* ReadFrom finds a frame.                                                 *)

\* A frame that finds its Conn in use is one of its session.
LEMMA FoundInSession ==
    ASSUME IInv, Control, Data, NEW s \in Side, NEW p \in Side, p = Peer(s),
           link[p] # <<>>, mpc[s] # "recycle", s = "server" => InSession(s)
    PROVE  InSession(s) /\ Incoming(s).session = session[s]
<1>1. link[p] \in Seq(Frame) /\ Incoming(s) = Head(link[p])
  BY UnitTypes DEF IInv, Incoming
<1>2. Head(link[p]) \in Contents(link[p])
  BY <1>1, TailContents
<1>3. Peer(p) = s
  BY DEF Peer, Side
<1>4. /\ Incoming(s).session \in {session[p], session[s]}
      /\ Incoming(s).session = session[s] => InSession(s)
  BY <1>1, <1>2, <1>3 DEF Control, Traffic
<1>5. CASE s = "client"
  <2>1. p = "server" /\ session[p] = session[s]
    BY <1>5 DEF Control, Unheard, Peer
  <2> QED
    BY <1>4, <2>1
<1>6. CASE s = "server" /\ session["client"] # session["server"]
  <2>1. /\ p = "client" /\ InSession("server") /\ Sessions /\ ServerFollows
    BY <1>6 DEF Peer, Control
  <2>2. /\ session["client"] \in Nat /\ session["server"] \in Nat
        /\ session["client"] \in 0..MaxSessions /\ MaxSessions \in Nat
    <3>1. session["client"] \in 0..MaxSessions
      BY EndTypes DEF IInv, Side
    <3> QED
      BY <3>1, UnitTypes, BoundAssumption DEF IInv, Side
  <2>3. session["server"] > 0 /\ session["client"] = session["server"] + 1 /\ MaxSessions > 1
    BY <1>6, <2>1, <2>2 DEF Sessions
  <2>4. FinalFor("client") \/ Silenced
    BY <1>6, <2>1, <2>3 DEF ServerFollows, ClientGone
  <2>5. Incoming(s).session <= session["server"]
    <3> SUFFICES ASSUME FinalFor("client")
                 PROVE  Incoming(s).session <= session["server"]
      BY <1>1, <1>2, <2>1, <2>4 DEF Silenced
    <3>1. PICK f \in Contents(link[p]) : IsFinalOf(f, session["server"])
      BY <2>1 DEF FinalFor, Peer
    <3>2. Ordered(link[p])
      BY DEF Data, Stream
    <3>3. Contents(link[p]) = Contents(Tail(link[p])) \cup {Head(link[p])}
      BY <1>1, TailContents
    <3>4. CASE f = Head(link[p])
      BY <1>1, <2>2, <3>1, <3>4 DEF IsFinalOf
    <3>5. CASE f \in Contents(Tail(link[p]))
      BY <1>1, <3>1, <3>2, <3>5, TailOrdered DEF IsFinalOf, InOrder
    <3> QED
      BY <3>3, <3>4, <3>5
  <2>6. Incoming(s).session = session["server"]
    BY <1>4, <1>6, <2>1, <2>2, <2>3, <2>5
  <2> QED
    BY <1>4, <1>6, <2>6
<1>7. CASE s = "server" /\ session["client"] = session["server"]
  <2>1. p = "client"
    BY <1>7 DEF Peer
  <2> QED
    BY <1>4, <1>7, <2>1
<1> QED
  BY <1>5, <1>6, <1>7 DEF Side

\* A frame for a Conn that is in use is submitted in its session.
LEMMA MuxGoesOnUse ==
    ASSUME IInv, NoPanic, Control, Data, NEW s \in Side, MuxStart(s),
           ~(runState[s] = "Unused" /\ s = "server")
    PROVE  panic' = "none" /\ Control' /\ Data'
<1>1. TypeOK /\ FlagTypes /\ FlowTypes
  BY StepTypes DEF IInv
<1>2. PICK p \in Side : p = Peer(s) /\ p # s /\ \A t \in Side : t = s \/ t = p
  BY DEF Side, Peer
<1>3. /\ mpc[s] = "idle" /\ link[p] # <<>> /\ mpc'[s] = "submit" /\ mpc'[p] = mpc[p]
      /\ UNCHANGED <<flagVars, flowVars, readCh, fdw, wpc, rpc, open, late>>
      /\ UNCHANGED <<pooled, aborted, link, panic, histVars>>
      /\ runState' = [runState EXCEPT ![s] = Starting(s)]
  BY <1>1, <1>2 DEF MuxStart, FlagTypes
<1>4. \A t \in Side : InSession(t)' <=> InSession(t)
  <2>1. runState'["server"] = runState["server"]
    BY <1>1, <1>3 DEF Starting, FlowTypes, Side
  <2> QED
    BY <1>3, <2>1 DEF InSession, Side
<1>5. InSession(s) /\ Incoming(s).session = session[s]
  <2>1. s = "server" => InSession(s)
    BY DEF InSession
  <2> QED
    BY <1>2, <1>3, <2>1, FoundInSession
<1>6. Quiet
  BY <1>2, <1>3, <1>4 DEF Quiet, Steady
<1>7. \A t \in Side \ {s} : SameEnd(t)
  BY <1>2, <1>3 DEF SameEnd
<1>8. Calls(s) /\ Clean(s) /\ ServerFirst
  BY DEF Control
<1>9. ServerFirst'
  <2>1. remoteSentFinal["server"] /\ MaxSessions > 1 => mpc'["server"] = "recycle"
    BY <1>2, <1>3, <1>8 DEF ServerFirst, Side
  <2> QED
    BY <1>3, <1>8, <2>1 DEF ServerFirst
<1>10. Calls(s)' /\ Clean(s)' /\ Submits(s)'
  BY <1>3, <1>4, <1>5, <1>8 DEF Calls, Clean, Submits, Incoming
<1>11. sendWindow[s] \in Nat /\ ackCh[s] \in Nat
  BY <1>1 DEF FlowTypes
<1> QED
  BY <1>1, <1>3, <1>6, <1>7, <1>9, <1>10, <1>11, QuietEnd DEF NoPanic

\* A frame that finds the server's Conn unused is the first one of the
\* client's session: nobody has left anything of an earlier one.
StartFacts ==
    /\ ~pooled /\ ~InSession("server") /\ link["client"] # <<>>
    /\ session["client"] # session["server"]
    /\ session["client"] = session["server"] + 1
    /\ \A f \in Contents(link["client"]) :
          f.session = session["client"] /\ f.type \in {"data", "final"}
    /\ link["server"] = <<>> /\ readCh["client"] = <<>> /\ rcvd["client"] = 0
    /\ ~remoteSentFinal["client"] /\ rpc["client"] # "ack"
    /\ ~localClosed["server"] /\ ~localSentFinal["server"] /\ ~remoteSentFinal["server"]
    /\ wpc["server"] = "idle" /\ rpc["server"] = "idle"
    /\ sendWindow["server"] = SendWindowSize /\ ackCh["server"] = 0
    /\ readCh["server"] = <<>>

StartStep ==
    /\ UNCHANGED <<flagVars, flowVars, readCh, fdw, wpc, rpc, late, pooled>>
    /\ UNCHANGED <<aborted, link, panic>>
    /\ mpc'["server"] = "submit" /\ mpc'["client"] = mpc["client"]
    /\ open'["server"] /\ open'["client"] = open["client"]
    /\ session'["server"] = session["client"] /\ session'["client"] = session["client"]
    /\ sent'["server"] = 0 /\ sent'["client"] = sent["client"]
    /\ rcvd'["server"] = 0 /\ rcvd'["client"] = rcvd["client"]
    /\ total'["client"] = total["client"]
    /\ InSession("server")' /\ (InSession("client")' <=> InSession("client"))

\* The server's Conn is started in the client's session.
LEMMA StartOK ==
    ASSUME IInv, Control, MuxStart("server"), runState["server"] = "Unused"
    PROVE  StartFacts /\ StartStep
<1>1. TypeOK /\ FlagTypes /\ FlowTypes
  BY StepTypes DEF IInv
<1>2. "client" \in Side /\ "server" \in Side /\ Peer("server") = "client"
  BY DEF Side, Peer
<1>3. /\ session["client"] \in Nat /\ session["server"] \in Nat
      /\ link["client"] \in Seq(Frame) /\ link["client"] # <<>>
  BY <1>1, <1>2, UnitTypes DEF MuxStart
<1>4. ~InSession("server")
  BY DEF InSession
<1>5. \A f \in Contents(link["client"]) :
         f.session = session["client"] /\ f.session # session["server"]
  <2>1. Traffic("client") /\ Peer("client") = "server"
    BY <1>2 DEF Control, Peer
  <2> QED
    BY <1>4, <2>1 DEF Traffic
<1>6. Head(link["client"]) \in Contents(link["client"])
  BY <1>3, TailContents
<1>7. session["client"] # session["server"] /\ Incoming("server").session = session["client"]
  BY <1>2, <1>5, <1>6 DEF Incoming
<1>8. Sessions /\ Unheard /\ Clean("server")
  BY <1>2 DEF Control
<1>9. StartFacts
  <2>1. session["client"] = session["server"] + 1 /\ ~pooled
    BY <1>3, <1>7, <1>8 DEF Sessions
  <2>2. /\ \A f \in Contents(link["client"]) :
              f.session = session["client"] /\ f.type \in {"data", "final"}
        /\ link["server"] = <<>> /\ readCh["client"] = <<>> /\ rcvd["client"] = 0
        /\ ~remoteSentFinal["client"] /\ rpc["client"] # "ack"
    BY <1>5, <1>7, <1>8 DEF Unheard
  <2> QED
    BY <1>3, <1>4, <1>7, <1>8, <2>1, <2>2 DEF StartFacts, Clean
<1>10. StartStep
  <2>1. /\ UNCHANGED <<flagVars, flowVars, readCh, fdw, wpc, rpc, late, pooled>>
        /\ UNCHANGED <<aborted, link, panic>>
    BY DEF MuxStart
  <2>2. /\ mpc'["server"] = "submit" /\ mpc'["client"] = mpc["client"]
        /\ open'["server"] /\ open'["client"] = open["client"]
    BY <1>1, <1>2 DEF MuxStart, FlagTypes, FlowTypes
  <2>3. /\ session'["server"] = session["client"] /\ session'["client"] = session["client"]
        /\ sent'["server"] = 0 /\ sent'["client"] = sent["client"]
        /\ rcvd'["server"] = 0 /\ rcvd'["client"] = rcvd["client"]
        /\ total'["client"] = total["client"]
    <3>1. /\ session' = [session EXCEPT !["server"] = Incoming("server").session]
          /\ sent' = [sent EXCEPT !["server"] = 0]
          /\ rcvd' = [rcvd EXCEPT !["server"] = 0]
          /\ total' = [total EXCEPT !["server"] = 0]
      BY DEF MuxStart
    <3>2. DOMAIN session = Side /\ DOMAIN sent = Side /\ DOMAIN rcvd = Side /\ DOMAIN total = Side
      BY <1>1, Zenon DEF TypeOK
    <3> QED
      BY <1>2, <1>7, <3>1, <3>2
  <2>4. InSession("server")' /\ (InSession("client")' <=> InSession("client"))
    BY <1>1, <1>2, <2>1 DEF MuxStart, Starting, InSession, FlowTypes
  <2> QED
    BY <2>1, <2>2, <2>3, <2>4 DEF StartStep
<1> QED
  BY <1>9, <1>10

\* Starting keeps what relates the sessions and final frames.
LEMMA StartControl ==
    ASSUME IInv, Control, StartFacts, StartStep
    PROVE  Control'
<1>1. /\ \A t \in Side : t = "client" \/ t = "server"
      /\ "client" \in Side /\ "server" \in Side
      /\ Peer("client") = "server" /\ Peer("server") = "client"
  BY DEF Side, Peer
<1>2. /\ Calls("client") /\ Calls("server") /\ Clean("client")
      /\ Sessions /\ FinalArrives /\ ServerFirst /\ Traffic("client")
  BY <1>1 DEF Control
<1>3. session["server"] \in Nat
  BY <1>1, UnitTypes DEF IInv
<1>4. Calls("client")' /\ Clean("client")'
  BY <1>2 DEF StartStep, Calls, Clean
<1>5. Calls("server")' /\ Clean("server")'
  BY <1>2 DEF StartStep, StartFacts, Calls, Clean
<1>6. Sessions' /\ Unheard' /\ ServerFollows'
  <2>1. Sessions'
    BY <1>3 DEF StartStep, StartFacts, Sessions
  <2> QED
    BY <2>1 DEF StartStep, StartFacts, Unheard, ServerFollows, ClientGone
<1>7. FinalArrives'
  BY <1>2 DEF StartStep, StartFacts, FinalArrives
<1>8. ServerFirst'
  BY <1>2 DEF StartStep, StartFacts, ServerFirst
<1>9. Traffic("client")'
  <2>1. ASSUME NEW f \in Contents(link["client"])
        PROVE  /\ f.session = session["client"] /\ f.type \in {"data", "final"}
               /\ IsFinalOf(f, session["client"]) => localSentFinal["client"]
    BY <1>2 DEF StartFacts, Traffic, InSession
  <2> QED
    BY <1>1, <2>1 DEF StartStep, StartFacts, Traffic
<1>10. Traffic("server")'
  BY ContentsType DEF StartStep, StartFacts, Traffic
<1>11. FinalSent("client")' /\ FinalSent("server")'
  BY DEF StartStep, StartFacts, FinalSent
<1>12. Submits("client")'
  <2>1. mpc["client"] # "submit"
    BY <1>1 DEF IInv, ConnInv, StartFacts
  <2> QED
    BY <2>1 DEF StartStep, Submits
<1>13. Submits("server")'
  <2>1. link["client"] # <<>> /\ link["client"] \in Seq(Frame)
    BY <1>1, UnitTypes DEF IInv, StartFacts
  <2>2. Head(link["client"]).session = session["client"]
    BY <2>1, TailContents DEF StartFacts
  <2> QED
    BY <1>1, <2>2 DEF StartStep, Submits, Incoming
<1> QED
  BY <1>1, <1>4, <1>5, <1>6, <1>7, <1>8, <1>9, <1>10, <1>11, <1>12, <1>13 DEF Control

\* Starting keeps the pipes; the server's window is full.
LEMMA StartData ==
    ASSUME IInv, Control, Data, StartFacts, StartStep
    PROVE  Data'
<1>1. /\ \A t \in Side : t = "client" \/ t = "server"
      /\ "client" \in Side /\ "server" \in Side
      /\ Peer("client") = "server" /\ Peer("server") = "client"
  BY DEF Side, Peer
<1> DEFINE k0 == session["client"]
<1>2. /\ k0 \in Nat /\ SendWindowSize \in Nat /\ link["client"] \in Seq(Frame)
      /\ rcvd["server"] \in Nat /\ <<>> \in Seq(Frame) /\ Len(<<>>) = 0
  BY <1>1, UnitTypes, EmptySeq DEF IInv
<1>3. Stream("client") /\ Queue("client") /\ Window("client")
  BY <1>1 DEF Data
<1>4. Stream("client")'
  <2>1. ASSUME NEW k \in Nat PROVE Base("client", k)' = 0
    BY <1>1, <1>2 DEF StartStep, StartFacts, Base
  <2>2. ASSUME NEW k \in Nat PROVE Numbered(link["client"], k, 0)
    <3>1. CASE k = session["server"]
      BY <3>1 DEF StartFacts, Numbered, IsDataOf, IsFinalOf
    <3>2. CASE k # session["server"]
      <4>1. Base("client", k) = 0
        BY <1>1, <3>2 DEF Base
      <4> QED
        BY <1>3, <4>1 DEF Stream
    <3> QED
      BY <3>1, <3>2
  <2>3. Covered(link["client"], k0, 0, sent["client"])
    <3>1. NotLeft("client") /\ Base("client", k0) = 0
      BY <1>1 DEF NotLeft, Base, StartFacts
    <3> QED
      BY <1>3, <3>1 DEF Stream
  <2> QED
    <3>1. UNCHANGED link /\ session'["client"] = k0 /\ sent'["client"] = sent["client"]
      BY DEF StartStep
    <3>2. /\ Base("client", session["client"])' = 0
          /\ Base("client", session["server"])' = 0
      BY <1>1, <1>2 DEF StartStep, StartFacts, Base
    <3>3. Sound("client")'
      <4>1. session'["server"] = k0 /\ sent["client"] \in Nat
        BY <1>1, UnitTypes DEF StartStep, IInv
      <4> QED
        BY <1>1, <2>3, <3>1, <3>2, <4>1 DEF Sound
    <3> QED
      BY <1>3, <2>1, <2>2, <2>3, <3>1, <3>2, <3>3 DEF Stream
<1>5. Stream("server")'
  <2>1. Contents(link'["server"]) = {} /\ link'["server"] = <<>>
    BY ContentsType DEF StartStep, StartFacts
  <2>2. Ordered(<<>>)
    BY DEF Ordered
  <2>3. ASSUME NEW k \in Nat PROVE Numbered(<<>>, k, Base("server", k)')
    BY <2>1 DEF Numbered
  <2>4. Base("server", session["server"])' = 0
    BY <1>1, <1>2 DEF StartStep, StartFacts, Base
  <2>5. Covered(<<>>, k0, 0, 0)
    BY <2>1 DEF Covered, AllIn
  <2> QED
    <3>1. session'["server"] = k0 /\ session'["client"] = k0 /\ sent'["server"] = 0
      BY DEF StartStep
    <3>2. Sound("server")'
      BY <1>1, <1>2, <2>1, <2>4, <2>5, <3>1 DEF Sound
    <3> QED
      BY <2>1, <2>2, <2>3, <2>4, <2>5, <3>1, <3>2 DEF Stream
<1>6. Queue("client")' /\ Queue("server")'
  BY <1>3 DEF StartStep, StartFacts, Queue
<1>7. FramesIn(link["client"], "ack", k0) = 0
  BY <1>2, NoneIn DEF StartFacts
<1>8. FramesIn(<<>>, "data", k0) = 0 /\ FramesIn(<<>>, "ack", k0) = 0
  BY <1>2, NoneIn, ContentsType
<1>9. Window("server")'
  <2>1. WindowUnits("server")' = SendWindowSize + 0 + 0 + 0 + 0 + 0 + 0
    BY <1>1, <1>2, <1>7, <1>8 DEF WindowUnits, StartStep, StartFacts, One
  <2>2. WindowUnits("server")' = SendWindowSize
    BY <1>2, <2>1
  <2> QED
    BY <1>2, <2>2 DEF Window
<1>10. Window("client")'
  <2>1. WindowUnits("client")' = WindowUnits("client")
    BY <1>1, <1>2 DEF WindowUnits, StartStep, StartFacts, One
  <2> QED
    BY <1>3, <2>1 DEF Window, StartStep
<1>11. Room("client")'
  <2>1. FramesIn(link["client"], "data", k0) <= WindowUnits("client") /\ WindowUnits("client") \in Nat
    BY <1>1, UnitsParts DEF IInv
  <2>2. WindowUnits("client") <= SendWindowSize
    BY <1>3 DEF Window, StartFacts, InSession
  <2>3. FramesIn(link["client"], "data", k0) \in Nat
    BY <1>1, <1>2, UnitTypes DEF IInv
  <2>4. FramesIn(link["client"], "data", k0) + 0 <= SendWindowSize
    BY <1>2, <2>1, <2>2, <2>3
  <2> QED
    BY <1>1, <1>2, <2>4 DEF Room, StartStep, StartFacts
<1>12. Room("server")'
  BY <1>1, <1>2, <1>8 DEF Room, StartStep, StartFacts
<1> QED
  BY <1>1, <1>4, <1>5, <1>6, <1>9, <1>10, <1>11, <1>12 DEF Data

\* ReadFrom has read a frame: it starts the server's Conn or finds one in use.
LEMMA MuxStartUse ==
    ASSUME IInv, NoPanic, Control, Data, NEW s \in Side, MuxStart(s)
    PROVE  panic' = "none" /\ Control' /\ Data'
<1>1. CASE runState[s] = "Unused" /\ s = "server"
  <2>1. StartFacts /\ StartStep
    BY <1>1, StartOK
  <2>2. panic' = "none"
    BY <2>1 DEF StartStep, NoPanic
  <2> QED
    BY <2>1, <2>2, StartControl, StartData
<1>2. CASE ~(runState[s] = "Unused" /\ s = "server")
  BY <1>2, MuxGoesOnUse
<1> QED
  BY <1>1, <1>2

----------------------------------------------------------------------------
(* Submitting a frame.                                                     *)

\* Frame h, for session k of end s, is the first one on its way to s.
Arriving(s, p, h, k) ==
    /\ mpc[s] = "submit" /\ InSession(s) /\ ~remoteSentFinal[s]
    /\ link[p] \in Seq(Frame) /\ link[p] # <<>> /\ h = Head(link[p])
    /\ h \in Frame /\ h \in Contents(link[p])
    /\ h.session = session[s] /\ k = session[s] /\ k \in Nat

\* What SubmitFrame does with it when nothing is wrong.
Submitted(s, p, h) ==
    /\ UNCHANGED <<session, pooled, runState, localSentFinal, localClosed>>
    /\ UNCHANGED <<aborted, sent, rcvd, wpc, rpc, open, late, fdw, sendWindow, panic>>
    /\ link'[p] = Tail(link[p]) /\ link'[s] = link[s]
    /\ remoteSentFinal'[s] = (h.type \in Final)
    /\ remoteSentFinal'[p] = remoteSentFinal[p]
    /\ mpc'[s] = IF h.type \in Final /\ localSentFinal[s] THEN "recycle" ELSE "idle"
    /\ mpc'[p] = mpc[p]
    /\ readCh'[s] = IF h.type = "data" THEN Append(readCh[s], h) ELSE readCh[s]
    /\ readCh'[p] = readCh[p]
    /\ ackCh'[s] = IF h.type = "ack" THEN ackCh[s] + 1 ELSE ackCh[s]
    /\ ackCh'[p] = ackCh[p]
    /\ total'[s] = IF h.type \in Final THEN h.n ELSE total[s]
    /\ total'[p] = total[p]

\* The frame is there, and no final frame has come before it.
LEMMA ArrivingFacts ==
    ASSUME IInv, Control, NEW s \in Side, NEW p \in Side, p = Peer(s), mpc[s] = "submit"
    PROVE  Arriving(s, p, Incoming(s), session[s])
<1>1. link[p] # <<>> /\ link[p] \in Seq(Frame) /\ session[s] \in Nat
  BY UnitTypes DEF IInv, ConnInv
<1>2. /\ Incoming(s) = Head(link[p]) /\ Head(link[p]) \in Contents(link[p])
      /\ Head(link[p]) \in Frame
  BY <1>1, TailContents, TailFacts DEF Incoming
<1>3. InSession(s) /\ Incoming(s).session = session[s]
  BY DEF Control, Submits
<1>4. ~remoteSentFinal[s]
  BY <1>2, <1>3, NoneAfterFinal
<1> QED
  BY <1>1, <1>2, <1>3, <1>4 DEF Arriving

\* The number of the frame is the next one, or that of the last data frame.
LEMMA ArrivingNumber ==
    ASSUME IInv, Control, Data, NEW s \in Side, NEW p \in Side, p = Peer(s),
           NEW h \in Frame, NEW k \in Nat, Arriving(s, p, h, k)
    PROVE  /\ Base(p, k) = rcvd[s] + Len(readCh[s]) /\ Base(p, k) \in Nat
           /\ h.type = "data" => h.n = Base(p, k) + 1
           /\ h.type \in Final => h.n = Base(p, k)
<1>1. Peer(p) = s
  BY DEF Peer, Side
<1>2. rcvd[s] \in Nat /\ Len(readCh[s]) \in Nat /\ sent[p] \in Nat
  BY UnitTypes DEF IInv
<1>3. Base(p, k) = rcvd[s] + Len(readCh[s])
  BY <1>1 DEF Base, Arriving
<1>4. Base(p, k) \in Nat
  BY <1>2, <1>3
<1>5. Stream(p)
  BY DEF Data
<1>6. \E t \in Nat : Covered(link[p], k, Base(p, k), t)
  BY <1>1, <1>5 DEF Stream, Sound, Arriving
<1>7. Ordered(link[p]) /\ Numbered(link[p], k, Base(p, k))
  BY <1>5 DEF Stream
<1>8. /\ IsDataOf(h, k) => h.n = Base(p, k) + 1
      /\ IsFinalOf(h, k) => h.n = Base(p, k)
  BY <1>4, <1>6, <1>7, HeadNumber DEF Arriving
<1> QED
  BY <1>3, <1>4, <1>8 DEF IsDataOf, IsFinalOf, Arriving

\* A final frame that arrives was sent, and with more than one session the
\* server has sent its own before.
LEMMA ArrivingFinal ==
    ASSUME IInv, Control, NEW s \in Side, NEW p \in Side, p = Peer(s),
           NEW h \in Frame, NEW k \in Nat, Arriving(s, p, h, k), h.type \in Final
    PROVE  /\ session[p] = session[s] /\ InSession(p) => localSentFinal[p]
           /\ s = "server" /\ (MaxSessions > 1 \/ ClientGone) => localSentFinal[s]
<1>1. Peer(p) = s /\ "client" \in Side /\ "server" \in Side
  BY DEF Peer, Side
<1>2. session[p] = session[s] /\ InSession(p) => localSentFinal[p]
  BY <1>1 DEF Control, Traffic, IsFinalOf, Arriving
<1>3. ASSUME s = "server", ClientGone PROVE localSentFinal[s]
  BY <1>3 DEF Control, ServerFollows, Arriving
<1>4. ASSUME s = "server", MaxSessions > 1, ~ClientGone PROVE localSentFinal[s]
  <2>1. p = "client" /\ session[p] = session[s] /\ InSession(p)
    BY <1>4 DEF Peer, ClientGone, InSession
  <2>2. localClosed["client"]
    BY <1>1, <1>2, <2>1 DEF IInv, SilentAfterFinal
  <2>3. remoteSentFinal["client"]
    BY <1>4, <2>2 DEF Control, ServerFirst
  <2> QED
    BY <1>1, <1>4, <2>1, <2>3 DEF Control, FinalSent, Arriving
<1> QED
  BY <1>2, <1>3, <1>4

\* Submitting a frame keeps what relates the sessions and final frames.
LEMMA SubmitControl ==
    ASSUME IInv, Control, Data, NEW s \in Side, NEW p \in Side, p = Peer(s),
           NEW h \in Frame, NEW k \in Nat, Arriving(s, p, h, k), Submitted(s, p, h)
    PROVE  Control'
<1>1. /\ p # s /\ Peer(p) = s /\ \A t \in Side : t = s \/ t = p
      /\ "client" \in Side /\ "server" \in Side
  BY DEF Side, Peer
<1>2. \A t \in Side : InSession(t)' <=> InSession(t)
  BY DEF Submitted, InSession
<1>3. /\ Contents(link[p]) = Contents(link'[p]) \cup {h}
      /\ Contents(link'[s]) = Contents(link[s])
  BY TailContents DEF Arriving, Submitted
<1>4. /\ UNCHANGED <<session, pooled, localSentFinal, localClosed, aborted, rcvd, rpc>>
      /\ readCh'[p] = readCh[p] /\ mpc'[p] = mpc[p] /\ mpc[s] = "submit" /\ InSession(s)
      /\ ~remoteSentFinal[s] /\ remoteSentFinal'[p] = remoteSentFinal[p]
      /\ remoteSentFinal'[s] = (h.type \in Final)
      /\ mpc'[s] = IF h.type \in Final /\ localSentFinal[s] THEN "recycle" ELSE "idle"
      /\ link'[s] = link[s] /\ h.session = session[s] /\ link[p] # <<>>
  BY DEF Submitted, Arriving
<1>5. /\ Sessions /\ Unheard /\ FinalArrives /\ ServerFollows /\ ServerFirst
      /\ Traffic(s) /\ Traffic(p) /\ FinalSent(s) /\ FinalSent(p) /\ Submits(p)
      /\ Calls(s) /\ Calls(p) /\ Clean(p)
  BY DEF Control
<1>6. /\ h.type \in Final /\ session[p] = session[s] /\ InSession(p) => localSentFinal[p]
      /\ h.type \in Final /\ s = "server" /\ (MaxSessions > 1 \/ ClientGone) => localSentFinal[s]
  BY ArrivingFinal
<1>7. Calls(s)' /\ Clean(s)'
  BY <1>2, <1>4, <1>5 DEF Submitted, Calls, Clean
<1>8. Calls(p)' /\ Clean(p)'
  BY <1>2, <1>4, <1>5 DEF Submitted, Calls, Clean
<1>9. Sessions'
  BY <1>1, <1>2, <1>4, <1>5 DEF Sessions
<1>10. Unheard'
  <2> SUFFICES ASSUME session["client"] # session["server"] PROVE Unheard'
    BY <1>4 DEF Unheard
  <2>1. s = "server" /\ p = "client"
    BY <1>1, <1>4, <1>5 DEF Unheard, Side, Peer
  <2> QED
    BY <1>3, <1>4, <1>5, <2>1 DEF Unheard
<1>11. FinalArrives'
  <2>1. CASE s = "client"
    <3>1. p = "server"
      BY <2>1 DEF Peer
    <3> QED
      BY <1>1, <1>2, <1>3, <1>4, <1>5, <2>1, <3>1 DEF FinalArrives
  <2>2. CASE s = "server"
    <3>1. p = "client"
      BY <2>2 DEF Peer
    <3>2. CASE h.type \in Final /\ session["client"] = session["server"]
      BY <1>4, <2>2, <3>2 DEF FinalArrives
    <3>3. CASE ~(h.type \in Final /\ session["client"] = session["server"])
      <4>1. ~IsFinalOf(h, session["client"])
        BY <1>4, <2>2, <3>3 DEF IsFinalOf
      <4> QED
        BY <1>1, <1>2, <1>3, <1>4, <1>5, <2>2, <3>1, <4>1 DEF FinalArrives
    <3> QED
      BY <3>2, <3>3
  <2> QED
    BY <2>1, <2>2 DEF Side
<1>12. ServerFollows'
  <2> SUFFICES ASSUME ClientGone, InSession("server")
               PROVE  /\ localSentFinal["server"]
                      /\ MaxSessions > 1 => \/ FinalFor("client")'
                                            \/ mpc'["server"] = "recycle"
                                            \/ Silenced'
    BY <1>1, <1>2, <1>4 DEF ServerFollows, ClientGone
  <2>1. localSentFinal["server"]
    BY <1>5 DEF ServerFollows
  <2>2. ASSUME Silenced PROVE Silenced'
    <3>1. Contents(link'["client"]) \subseteq Contents(link["client"])
      BY <1>1, <1>3
    <3> QED
      BY <1>4, <2>2, <3>1 DEF Silenced, Submitted
  <2>3. ASSUME MaxSessions > 1, ~Silenced PROVE FinalFor("client")' \/ mpc'["server"] = "recycle"
    <3>1. FinalFor("client") \/ mpc["server"] = "recycle"
      BY <1>5, <2>3 DEF ServerFollows
    <3>2. CASE s = "client"
      BY <1>3, <1>4, <3>1, <3>2 DEF FinalFor, Peer
    <3>3. CASE s = "server" /\ h.type \in Final
      BY <1>4, <2>1, <3>3
    <3>4. CASE s = "server" /\ h.type \notin Final
      <4>1. p = "client" /\ Peer("client") = "server"
        BY <3>4 DEF Peer
      <4> QED
        BY <1>3, <1>4, <3>1, <3>4, <4>1 DEF FinalFor, IsFinalOf
    <3> QED
      BY <3>2, <3>3, <3>4 DEF Side
  <2> QED
    BY <2>1, <2>2, <2>3
<1>13. ServerFirst'
  <2> SUFFICES ASSUME MaxSessions > 1
               PROVE  /\ localClosed["client"] => remoteSentFinal'["client"]
                      /\ remoteSentFinal'["server"] => mpc'["server"] = "recycle"
    BY <1>4 DEF ServerFirst
  <2>1. localClosed["client"] => remoteSentFinal'["client"]
    BY <1>1, <1>4, <1>5 DEF ServerFirst
  <2>2. remoteSentFinal'["server"] => mpc'["server"] = "recycle"
    BY <1>1, <1>4, <1>5, <1>6 DEF ServerFirst
  <2> QED
    BY <2>1, <2>2
<1>14. Traffic(s)'
  BY <1>2, <1>3, <1>4, <1>5 DEF Traffic
<1>15. Traffic(p)'
  <2> SUFFICES ASSUME NEW f \in Contents(link'[p])
               PROVE  /\ f.session \in {session[p], session[s]}
                      /\ f.session = session[s] => InSession(s) /\ ~remoteSentFinal'[s]
                      /\ IsFinalOf(f, session[p]) /\ InSession(p) => localSentFinal[p]
                      /\ f.type = "finalAck" /\ f.session = session[s] => localSentFinal[s]
    BY <1>1, <1>2, <1>4 DEF Traffic
  <2>1. f \in Contents(link[p])
    BY <1>3
  <2>2. ASSUME f.session = session[s], h.type \in Final PROVE FALSE
    <3>1. InOrder(h, f)
      <4>1. Ordered(link[p])
        BY DEF Data, Stream
      <4> QED
        BY <4>1, TailOrdered DEF Arriving, Submitted
    <3>2. h.session < f.session
      BY <2>2, <3>1 DEF InOrder
    <3>3. session[s] \in Nat
      BY UnitTypes DEF IInv
    <3> QED
      BY <1>4, <2>2, <3>2, <3>3
  <2> QED
    BY <1>1, <1>4, <1>5, <2>1, <2>2 DEF Traffic
<1>16. FinalSent(s)' /\ FinalSent(p)'
  <2>1. FinalSent(s)'
    BY <1>1, <1>2, <1>4, <1>6 DEF FinalSent
  <2>2. FinalSent(p)'
    BY <1>1, <1>2, <1>4, <1>5 DEF FinalSent
  <2> QED
    BY <2>1, <2>2
<1>17. Submits(s)' /\ Submits(p)'
  <2>1. Submits(s)'
    BY <1>4 DEF Submits
  <2>2. Submits(p)'
    BY <1>1, <1>2, <1>4, <1>5 DEF Submits, Incoming
  <2> QED
    BY <2>1, <2>2
<1> QED
  BY <1>1, <1>7, <1>8, <1>9, <1>10, <1>11, <1>12, <1>13, <1>14, <1>15, <1>16, <1>17 DEF Control

\* Submitting a frame keeps the pipes.
LEMMA SubmitPipes ==
    ASSUME IInv, Control, Data, NEW s \in Side, NEW p \in Side, p = Peer(s),
           NEW h \in Frame, NEW k \in Nat, Arriving(s, p, h, k), Submitted(s, p, h)
    PROVE  \A t \in Side : Stream(t)' /\ Queue(t)'
<1>1. p # s /\ Peer(p) = s /\ \A t \in Side : t = s \/ t = p
  BY DEF Side, Peer
<1>2. \A t \in Side : InSession(t)' <=> InSession(t)
  BY DEF Submitted, InSession
<1>3. /\ UNCHANGED <<session, sent, rcvd>> /\ readCh'[p] = readCh[p]
      /\ remoteSentFinal'[p] = remoteSentFinal[p] /\ total'[p] = total[p]
      /\ link'[s] = link[s] /\ link'[p] = Tail(link[p])
      /\ readCh'[s] = IF h.type = "data" THEN Append(readCh[s], h) ELSE readCh[s]
      /\ link[p] \in Seq(Frame) /\ link[p] # <<>> /\ h = Head(link[p])
      /\ h.session = session[s] /\ k = session[s]
  BY DEF Submitted, Arriving
<1>4. Stream(s) /\ Stream(p) /\ Queue(s) /\ Queue(p)
  BY DEF Data
<1>5. /\ rcvd[s] \in Nat /\ Len(readCh[s]) \in Nat /\ readCh[s] \in Seq(Frame)
      /\ sent[p] \in Nat /\ session[p] \in Nat
  BY UnitTypes DEF IInv
<1>6. /\ Base(p, k) = rcvd[s] + Len(readCh[s]) /\ Base(p, k) \in Nat
      /\ h.type = "data" => h.n = Base(p, k) + 1
      /\ h.type \in Final => h.n = Base(p, k)
  BY ArrivingNumber
<1>7. Stream(s)'
  <2>1. /\ \A j \in Nat : Base(s, j)' = Base(s, j)
        /\ Base(s, session[s])' = Base(s, session[s])
    BY <1>3 DEF Base
  <2>2. NotLeft(s)' <=> NotLeft(s)
    BY <1>2, <1>3 DEF NotLeft
  <2>3. Base(s, session[p])' = Base(s, session[p])
    BY <1>3 DEF Base
  <2>4. Sound(s)'
    BY <1>1, <1>2, <1>3, <1>4, <2>3 DEF Stream, Sound
  <2> QED
    BY <1>3, <1>4, <2>1, <2>2, <2>4 DEF Stream
<1>8. /\ DOMAIN readCh[s] = 1..Len(readCh[s])
      /\ h.type = "data" => /\ Len(readCh'[s]) = Len(readCh[s]) + 1
                            /\ DOMAIN readCh'[s] = 1..(Len(readCh[s]) + 1)
                            /\ \A i \in 1..Len(readCh[s]) : readCh'[s][i] = readCh[s][i]
                            /\ readCh'[s][Len(readCh[s]) + 1] = h
  <2>1. Len(Append(readCh[s], h)) = Len(readCh[s]) + 1
    BY <1>5, AppendProperties
  <2> QED
    BY <1>3, <1>5, <2>1, AppendFacts
<1>9. ASSUME NEW j \in Nat
      PROVE  /\ Base(p, j) \in Nat /\ Base(p, j)' \in Nat
             /\ \/ IsDataOf(h, j) /\ h.n = Base(p, j) + 1 /\ Base(p, j)' = Base(p, j) + 1
                \/ ~IsDataOf(h, j) /\ Base(p, j)' = Base(p, j)
  <2>1. CASE j # k
    BY <1>1, <1>3, <2>1 DEF Base, IsDataOf
  <2>2. CASE j = k /\ h.type # "data"
    <3>1. Base(p, k)' = Base(p, k) /\ ~IsDataOf(h, k)
      BY <1>1, <1>3, <2>2 DEF Base, IsDataOf
    <3> QED
      BY <1>6, <2>2, <3>1
  <2>3. CASE j = k /\ h.type = "data"
    <3>1. Base(p, k)' = rcvd[s] + (Len(readCh[s]) + 1) /\ IsDataOf(h, k)
      BY <1>1, <1>3, <1>8, <2>3 DEF Base, IsDataOf
    <3>2. Base(p, k)' = Base(p, k) + 1
      BY <1>5, <1>6, <3>1
    <3> QED
      BY <1>6, <2>3, <3>1, <3>2
  <2> QED
    BY <2>1, <2>2, <2>3
<1>10. Stream(p)'
  <2>1. Ordered(link[p]) /\ \A j \in Nat : Numbered(link[p], j, Base(p, j))
    BY <1>4 DEF Stream
  <2>2. ASSUME NEW j \in Nat
        PROVE  /\ Numbered(link'[p], j, Base(p, j)')
               /\ \A t \in Nat : Covered(link[p], j, Base(p, j), t)
                                   => Covered(link'[p], j, Base(p, j)', t)
    <3> DEFINE b == Base(p, j)
               c == Base(p, j)'
    <3>1. /\ b \in Nat /\ c \in Nat /\ Numbered(link[p], j, b)
          /\ \/ IsDataOf(h, j) /\ h.n = b + 1 /\ c = b + 1
             \/ ~IsDataOf(h, j) /\ c = b
      BY <1>9, <2>1
    <3> HIDE DEF b, c
    <3>2. /\ Numbered(Tail(link[p]), j, c)
          /\ \A t \in Nat : Covered(link[p], j, b, t) => Covered(Tail(link[p]), j, c, t)
      BY <1>3, <2>1, <3>1, TailNumber
    <3>3. /\ Numbered(link'[p], j, c)
          /\ \A t \in Nat : Covered(link[p], j, b, t) => Covered(link'[p], j, c, t)
      BY <1>3, <3>2
    <3> QED
      BY <3>3 DEF b, c
  <2>3. Ordered(link'[p])
    BY <1>3, <2>1, TailOrdered
  <2>4. NotLeft(p)' <=> NotLeft(p)
    BY <1>1, <1>2, <1>3 DEF NotLeft
  <2>5. NotLeft(p) => Covered(link'[p], session[p], Base(p, session[p])', sent[p])
    <3>1. NotLeft(p) => Covered(link[p], session[p], Base(p, session[p]), sent[p])
      BY <1>4 DEF Stream
    <3>2. \A j \in Nat : Covered(link[p], j, Base(p, j), sent[p])
                            => Covered(link'[p], j, Base(p, j)', sent[p])
      BY <1>5, <2>2
    <3>3. Covered(link[p], session[p], Base(p, session[p]), sent[p])
             => Covered(link'[p], session[p], Base(p, session[p])', sent[p])
      BY <1>3, <1>5, <3>2
    <3> QED
      BY <3>1, <3>3
  <2>6. Sound(p)'
    <3> SUFFICES ASSUME InSession(s)
                 PROVE  \E t \in Nat : Covered(link'[p], k, Base(p, k)', t)
      BY <1>1, <1>2, <1>3 DEF Sound
    <3>1. PICK t \in Nat : Covered(link[p], k, Base(p, k), t)
      BY <1>1, <1>3, <1>4 DEF Stream, Sound
    <3> QED
      BY <2>2, <3>1
  <2> QED
    BY <1>3, <2>2, <2>3, <2>4, <2>5, <2>6 DEF Stream
<1>11. Queue(p)'
  BY <1>3, <1>4 DEF Queue
<1>12. Queue(s)'
  <2>1. CASE h.type = "data"
    <3>1. ~remoteSentFinal'[s]
      BY <2>1 DEF Submitted, Final
    <3>2. ASSUME NEW i \in DOMAIN readCh'[s]
          PROVE  readCh'[s][i].session = session[s] /\ readCh'[s][i].n = rcvd[s] + i
      <4>1. CASE i = Len(readCh[s]) + 1
        <5>1. readCh'[s][i] = h /\ h.n = (rcvd[s] + Len(readCh[s])) + 1
          BY <1>6, <1>8, <2>1, <4>1
        <5>2. h.n = rcvd[s] + i
          BY <1>5, <4>1, <5>1, SMTT(40)
        <5> QED
          BY <1>3, <5>1, <5>2
      <4>2. CASE i # Len(readCh[s]) + 1
        <5>1. i \in DOMAIN readCh[s] /\ readCh'[s][i] = readCh[s][i]
          BY <1>5, <1>8, <2>1, <3>2, <4>2, SMTT(40)
        <5> QED
          BY <1>4, <5>1 DEF Queue
      <4> QED
        BY <4>1, <4>2
    <3> QED
      BY <1>3, <3>1, <3>2 DEF Queue
  <2>2. CASE h.type # "data"
    <3>1. readCh'[s] = readCh[s]
      BY <1>3, <2>2
    <3>2. remoteSentFinal'[s] => rcvd[s] + Len(readCh[s]) = total'[s]
      BY <1>6 DEF Submitted
    <3> QED
      BY <1>3, <1>4, <3>1, <3>2, ZenonT(40) DEF Queue
  <2> QED
    BY <2>1, <2>2
<1> QED
  BY <1>1, <1>7, <1>10, <1>11, <1>12

\* A frame that is submitted moves its unit of the window, if it has one, from
\* the link to readCh or ackCh, which have room for it.
LEMMA SubmitUnits ==
    ASSUME IInv, Control, Data, NEW s \in Side, NEW p \in Side, p = Peer(s),
           NEW h \in Frame, NEW k \in Nat, Arriving(s, p, h, k)
    PROVE  /\ h.type = "ack" => ackCh[s] < MaxSendWindowSize
           /\ h.type = "data" => Len(readCh[s]) < MaxSendWindowSize
           /\ Submitted(s, p, h) => \A t \in Side : Window(t)' /\ Room(t)'
<1>1. p # s /\ Peer(p) = s /\ \A t \in Side : t = s \/ t = p
  BY DEF Side, Peer
<1> DEFINE ak == FramesIn(link[p], "ack", session[s])
           ak1 == FramesIn(Tail(link[p]), "ack", session[s])
           dp == FramesIn(link[p], "data", session[p])
           dp1 == FramesIn(Tail(link[p]), "data", session[p])
           dk == FramesIn(link[p], "data", session[s])
           dk1 == FramesIn(Tail(link[p]), "data", session[s])
           rs == Len(readCh[s])
<1>2. /\ link[p] \in Seq(Frame) /\ link[p] # <<>> /\ h = Head(link[p])
      /\ h.session = session[s] /\ InSession(s) /\ Tail(link[p]) \in Seq(Frame)
  BY TailFacts DEF Arriving
<1>3. /\ session[s] \in Nat /\ session[p] \in Nat /\ readCh[s] \in Seq(Frame)
      /\ SendWindowSize \in Nat /\ MaxSendWindowSize \in Nat /\ SendWindowSize <= MaxSendWindowSize
  BY UnitTypes, WindowAssumption DEF IInv
<1>4. rs \in Nat /\ ackCh[s] \in Nat
  BY UnitTypes DEF IInv
<1>5. /\ ak \in Nat /\ ak1 \in Nat /\ dp \in Nat /\ dp1 \in Nat /\ dk \in Nat /\ dk1 \in Nat
  BY <1>2, <1>3, PositionsFinite
<1>6. ak = ak1 + (IF h.type = "ack" THEN 1 ELSE 0)
  BY <1>2, <1>3, TailCount
<1>7. dk = dk1 + (IF h.type = "data" THEN 1 ELSE 0)
  BY <1>2, <1>3, TailCount
<1>8. dp = dp1 + (IF h.type = "data" /\ session[s] = session[p] THEN 1 ELSE 0)
  BY <1>2, <1>3, TailCount
<1>9. /\ WindowUnits(s) \in Nat /\ ackCh[s] + ak <= WindowUnits(s)
      /\ WindowUnits(s) <= SendWindowSize
      /\ dk + rs <= SendWindowSize
  <2>1. WindowUnits(s) \in Nat /\ ackCh[s] + ak <= WindowUnits(s)
    BY UnitsParts DEF IInv
  <2> QED
    BY <1>1, <1>2, <2>1 DEF Data, Window, Room
<1> HIDE DEF ak, ak1, dp, dp1, dk, dk1, rs
<1>10. h.type = "ack" => ackCh[s] < MaxSendWindowSize
  <2> SUFFICES ASSUME h.type = "ack" PROVE ackCh[s] < MaxSendWindowSize
    OBVIOUS
  <2>1. ak = ak1 + 1
    BY <1>6
  <2> QED
    BY <1>3, <1>4, <1>5, <1>9, <2>1
<1>11. h.type = "data" => rs < MaxSendWindowSize
  <2> SUFFICES ASSUME h.type = "data" PROVE rs < MaxSendWindowSize
    OBVIOUS
  <2>1. dk = dk1 + 1
    BY <1>7
  <2> QED
    BY <1>3, <1>4, <1>5, <1>9, <2>1
<1>12. ASSUME Submitted(s, p, h)
       PROVE  \A t \in Side : Window(t)' /\ Room(t)'
  <2>1. /\ UNCHANGED <<session, pooled, runState, aborted, open, wpc, rpc, sendWindow>>
        /\ link'[s] = link[s] /\ link'[p] = Tail(link[p]) /\ readCh'[p] = readCh[p]
        /\ ackCh'[s] = IF h.type = "ack" THEN ackCh[s] + 1 ELSE ackCh[s]
        /\ ackCh'[p] = ackCh[p]
        /\ readCh'[s] = IF h.type = "data" THEN Append(readCh[s], h) ELSE readCh[s]
    BY <1>12 DEF Submitted
  <2> DEFINE r1 == Len(readCh'[s])
  <2>2. r1 = rs + (IF h.type = "data" THEN 1 ELSE 0)
    <3>1. Len(Append(readCh[s], h)) = Len(readCh[s]) + 1 /\ Len(readCh[s]) \in Nat
      BY <1>3, AppendProperties, LenProperties
    <3>2. CASE h.type = "data"
      BY <2>1, <3>1, <3>2 DEF rs
    <3>3. CASE h.type # "data"
      BY <2>1, <3>1, <3>3 DEF rs
    <3> QED
      BY <3>2, <3>3
  <2>3. FramesIn(link'[p], "ack", session[s]) = ak1
        /\ FramesIn(link'[p], "data", session[p]) = dp1
        /\ FramesIn(link'[p], "data", session[s]) = dk1
    BY <2>1 DEF ak1, dp1, dk1
  <2>4. WindowUnits(s)' = WindowUnits(s)
    <3> DEFINE d == FramesIn(link[s], "data", session[s])
               h0 == One(session[p] = session[s] /\ rpc[p] = "ack")
               r == IF session[p] = session[s] THEN Len(readCh[p]) ELSE 0
               w == One(wpc[s] = "send")
               x == sendWindow[s]
               y == ackCh[s]
               y1 == ackCh'[s]
    <3>1. WindowUnits(s) = x + w + d + h0 + r + ak + y
      BY DEF WindowUnits, ak
    <3>2. WindowUnits(s)' = x + w + d + h0 + r + ak1 + y1
      BY <2>1, <2>3 DEF WindowUnits
    <3>3. x \in Nat /\ d \in Nat /\ y \in Nat
      BY <1>3, UnitTypes DEF IInv
    <3>4. r \in Nat /\ w \in Nat /\ h0 \in Nat
      BY UnitTypes DEF IInv, One
    <3>5. y1 = y + (IF h.type = "ack" THEN 1 ELSE 0)
      BY <2>1, <3>3
    <3> HIDE DEF d, h0, r, w, x, y, y1
    <3>6. ak1 + y1 = ak + y /\ y1 \in Nat
      <4>1. CASE h.type = "ack"
        BY <1>5, <1>6, <3>3, <3>5, <4>1
      <4>2. CASE h.type # "ack"
        BY <1>5, <1>6, <3>3, <3>5, <4>2
      <4> QED
        BY <4>1, <4>2
    <3> QED
      BY <1>5, <3>1, <3>2, <3>3, <3>4, <3>6
  <2>5. WindowUnits(p)' = WindowUnits(p)
    <3> DEFINE a == FramesIn(link[s], "ack", session[p])
               h0 == One(session[s] = session[p] /\ rpc[s] = "ack")
               r == IF session[s] = session[p] THEN rs ELSE 0
               q1 == IF session[s] = session[p] THEN r1 ELSE 0
               w == One(wpc[p] = "send")
               x == sendWindow[p]
               y == ackCh[p]
    <3>1. WindowUnits(p) = x + w + dp + h0 + r + a + y
      BY <1>1 DEF WindowUnits, dp, rs
    <3>2. WindowUnits(p)' = x + w + dp1 + h0 + q1 + a + y
      BY <1>1, <2>1, <2>3 DEF WindowUnits
    <3>3. x \in Nat /\ a \in Nat /\ y \in Nat
      BY <1>3, UnitTypes DEF IInv
    <3>4. w \in Nat /\ h0 \in Nat
      BY DEF One
    <3> HIDE DEF a, h0, w, x, y, r1
    <3>5. dp1 + q1 = dp + r /\ q1 \in Nat /\ r \in Nat
      <4>1. CASE h.type = "data" /\ session[s] = session[p]
        <5>1. dp = dp1 + 1 /\ r1 = rs + 1 /\ q1 = r1 /\ r = rs
          BY <1>8, <2>2, <4>1
        <5> HIDE DEF q1, r
        <5> QED
          BY <1>4, <1>5, <5>1
      <4>2. CASE ~(h.type = "data" /\ session[s] = session[p])
        <5>1. dp = dp1 + 0
          BY <1>8, <4>2
        <5>2. q1 = r /\ r \in Nat
          BY <1>4, <2>2, <4>2
        <5> HIDE DEF q1, r
        <5> QED
          BY <1>5, <5>1, <5>2
      <4> QED
        BY <4>1, <4>2
    <3> HIDE DEF q1, r
    <3> QED
      BY <1>5, <3>1, <3>2, <3>3, <3>4, <3>5
  <2>6. \A t \in Side : Window(t)'
    <3>1. WindowUnits(p) \in Nat
      BY UnitsParts DEF IInv
    <3> QED
      BY <1>9, <2>1, <2>4, <2>5, <3>1, WindowsKept
  <2>7. \A t \in Side : InSession(t)' <=> InSession(t)
    BY <2>1 DEF InSession
  <2>8. Room(s)'
    BY <2>1, <2>7 DEF Data, Room
  <2>9. Room(p)'
    <3> HIDE DEF r1
    <3>1. dk1 + r1 <= SendWindowSize
      <4>1. CASE h.type = "data"
        BY <1>3, <1>4, <1>5, <1>7, <1>9, <2>2, <4>1
      <4>2. CASE h.type # "data"
        BY <1>3, <1>4, <1>5, <1>7, <1>9, <2>2, <4>2
      <4> QED
        BY <4>1, <4>2
    <3> QED
      BY <1>1, <2>1, <2>3, <3>1 DEF Room, r1
  <2> QED
    BY <1>1, <2>6, <2>8, <2>9
<1> QED
  BY <1>10, <1>11, <1>12 DEF rs

\* SubmitFrame takes the frame: none of its panics is reached.
LEMMA SubmitUse ==
    ASSUME IInv, NoPanic, Control, Data, NEW s \in Side,
           SubmitAck(s) \/ SubmitData(s) \/ SubmitFinal(s)
    PROVE  panic' = "none" /\ Control' /\ Data'
<1>1. TypeOK /\ FlagTypes /\ FlowTypes
  BY StepTypes DEF IInv
<1>2. PICK p \in Side : p = Peer(s) /\ p # s
  BY DEF Side, Peer
<1> DEFINE h == Incoming(s)
           k == session[s]
<1>3. Arriving(s, p, h, k)
  BY <1>2, ArrivingFacts, Zenon DEF SubmitAck, SubmitData, SubmitFinal
<1>4. h \in Frame /\ k \in Nat /\ ~remoteSentFinal[s]
  BY <1>3 DEF Arriving
<1> HIDE DEF h, k
<1>5. /\ h.type = "ack" => ackCh[s] < MaxSendWindowSize
      /\ h.type = "data" => Len(readCh[s]) < MaxSendWindowSize
      /\ Submitted(s, p, h) => \A t \in Side : Window(t)' /\ Room(t)'
  BY <1>2, <1>3, <1>4, SubmitUnits
<1>6. /\ UNCHANGED <<session, pooled, runState, localSentFinal, localClosed>>
      /\ UNCHANGED <<aborted, sent, rcvd, wpc, rpc, open, late, fdw, sendWindow>>
      /\ link' = [link EXCEPT ![p] = Tail(@)]
  BY <1>2, Zenon DEF SubmitAck, SubmitData, SubmitFinal, Consume
<1>7. link'[p] = Tail(link[p]) /\ link'[s] = link[s]
  BY <1>1, <1>2, <1>6, Zenon DEF TypeOK
<1>8. Submitted(s, p, h)
  <2>1. CASE SubmitAck(s)
    <3>1. h.type = "ack" /\ h.type \notin Final
      BY <2>1, Zenon DEF SubmitAck, h, Final
    <3>2. /\ ackCh' = [ackCh EXCEPT ![s] = @ + 1] /\ mpc' = [mpc EXCEPT ![s] = "idle"]
          /\ UNCHANGED <<panic, remoteSentFinal, readCh, total>>
      BY <1>5, <2>1, <3>1, Zenon DEF SubmitAck
    <3>3. /\ ackCh'[s] = ackCh[s] + 1 /\ ackCh'[p] = ackCh[p]
          /\ mpc'[s] = "idle" /\ mpc'[p] = mpc[p]
      BY <1>1, <1>2, <3>2 DEF FlagTypes, FlowTypes
    <3>4. remoteSentFinal'[s] = (h.type \in Final)
      BY <1>1, <1>4, <3>1, <3>2 DEF FlagTypes
    <3> QED
      BY <1>6, <1>7, <3>1, <3>2, <3>3, <3>4 DEF Submitted
  <2>2. CASE SubmitData(s)
    <3>1. h.type = "data" /\ h.type \notin Final
      BY <2>2, Zenon DEF SubmitData, h, Final
    <3>2. ~(Len(readCh[s]) >= MaxSendWindowSize)
      <4>1. Len(readCh[s]) \in Nat /\ MaxSendWindowSize \in Nat
        BY <1>1, UnitTypes, WindowAssumption
      <4> QED
        BY <1>5, <3>1, <4>1
    <3>3. /\ readCh' = [readCh EXCEPT ![s] = Append(@, h)] /\ mpc' = [mpc EXCEPT ![s] = "idle"]
          /\ UNCHANGED <<panic, remoteSentFinal, ackCh, total>>
      BY <1>4, <2>2, <3>1, <3>2, Zenon DEF SubmitData, h
    <3>4. readCh'[s] = Append(readCh[s], h) /\ readCh'[p] = readCh[p]
      BY <1>1, <1>2, <3>3, Zenon DEF TypeOK
    <3>5. mpc'[s] = "idle" /\ mpc'[p] = mpc[p] /\ remoteSentFinal'[s] = (h.type \in Final)
      BY <1>1, <1>2, <1>4, <3>1, <3>3 DEF FlagTypes
    <3> QED
      BY <1>6, <1>7, <3>1, <3>3, <3>4, <3>5 DEF Submitted
  <2>3. CASE SubmitFinal(s)
    <3>1. h.type \in Final /\ h.type # "data" /\ h.type # "ack"
      BY <2>3, Zenon DEF SubmitFinal, h, Final
    <3>2. /\ remoteSentFinal' = [remoteSentFinal EXCEPT ![s] = TRUE]
          /\ total' = [total EXCEPT ![s] = h.n]
          /\ mpc' = [mpc EXCEPT ![s] = IF localSentFinal[s] THEN "recycle" ELSE "idle"]
          /\ UNCHANGED <<panic, readCh, ackCh>>
      BY <1>4, <2>3 DEF SubmitFinal, Recycles, h
    <3>3. remoteSentFinal'[s] = TRUE /\ remoteSentFinal'[p] = remoteSentFinal[p]
      BY <1>1, <1>2, <3>2 DEF FlagTypes
    <3>4. /\ mpc'[s] = (IF localSentFinal[s] THEN "recycle" ELSE "idle")
          /\ mpc'[p] = mpc[p]
      BY <1>1, <1>2, <3>2 DEF FlagTypes
    <3>5. total'[s] = h.n /\ total'[p] = total[p]
      BY <1>1, <1>2, <3>2, Zenon DEF TypeOK
    <3> QED
      BY <1>6, <1>7, <3>1, <3>2, <3>3, <3>4, <3>5 DEF Submitted
  <2> QED
    BY <2>1, <2>2, <2>3
<1>9. Control'
  BY <1>2, <1>3, <1>4, <1>8, SubmitControl
<1>10. \A t \in Side : Stream(t)' /\ Queue(t)'
  BY <1>2, <1>3, <1>4, <1>8, SubmitPipes
<1>11. panic' = "none"
  BY <1>8 DEF Submitted, NoPanic
<1> QED
  BY <1>5, <1>8, <1>9, <1>10, <1>11 DEF Data

----------------------------------------------------------------------------
(* Opening the next session.                                               *)

\* The Conn that NewConn takes is as new, and the server has left, or is about
\* to leave, the session before.
LEMMA NewConnUse ==
    ASSUME IInv, NoPanic, Control, Data, NewConn
    PROVE  panic' = "none" /\ Control' /\ Data'
<1>1. TypeOK /\ FlagTypes /\ FlowTypes
  BY StepTypes DEF IInv
<1>2. /\ \A t \in Side : t = "client" \/ t = "server"
      /\ "client" \in Side /\ "server" \in Side
      /\ Peer("client") = "server" /\ Peer("server") = "client"
  BY DEF Side, Peer
<1> DEFINE k0 == session["client"]
<1>3. /\ pooled /\ pooled' = FALSE
      /\ UNCHANGED <<connVars, pcVars, late, aborted, link, panic>>
  BY DEF NewConn
<1>4. /\ open'["client"] /\ open'["server"] = open["server"]
      /\ session'["client"] = k0 + 1 /\ session'["server"] = session["server"]
      /\ sent'["client"] = 0 /\ sent'["server"] = sent["server"]
      /\ rcvd'["client"] = 0 /\ rcvd'["server"] = rcvd["server"]
      /\ total'["server"] = total["server"]
  <2>1. /\ DOMAIN session = Side /\ DOMAIN sent = Side /\ DOMAIN rcvd = Side
        /\ DOMAIN total = Side /\ DOMAIN open = Side
    BY <1>1, Zenon DEF TypeOK
  <2> QED
    BY <1>2, <2>1 DEF NewConn
<1>5. /\ ~InSession("client") /\ InSession("client")'
      /\ InSession("server")' <=> InSession("server")
  BY <1>3 DEF InSession
<1>6. /\ Calls("client") /\ Calls("server") /\ Clean("client") /\ Clean("server")
      /\ Sessions /\ FinalArrives /\ ServerFollows /\ ServerFirst
      /\ Traffic("client") /\ Traffic("server") /\ FinalSent("server")
      /\ Submits("client") /\ Submits("server")
  BY <1>2 DEF Control
<1>7. /\ k0 = session["server"] /\ k0 \in Nat /\ SendWindowSize \in Nat
      /\ link["server"] \in Seq(Frame) /\ link["client"] \in Seq(Frame)
  BY <1>1, <1>2, <1>3, <1>6, UnitTypes DEF Sessions
<1>8. /\ ~localClosed["client"] /\ ~localSentFinal["client"] /\ ~remoteSentFinal["client"]
      /\ wpc["client"] = "idle" /\ rpc["client"] = "idle"
      /\ sendWindow["client"] = SendWindowSize /\ ackCh["client"] = 0 /\ readCh["client"] = <<>>
  BY <1>5, <1>6 DEF Clean
<1>9. link["server"] = <<>>
  <2>1. Contents(link["server"]) = {}
    BY <1>2, <1>5, <1>6, <1>7 DEF Traffic
  <2> QED
    BY <1>7, <2>1, ContentsType
<1>10. \A f \in Contents(link["client"]) :
          /\ f.session = session["server"] /\ f.session # k0 + 1
          /\ InSession("server") /\ ~remoteSentFinal["server"]
          /\ f.type = "finalAck" => localSentFinal["server"]
  BY <1>2, <1>6, <1>7 DEF Traffic
<1>11. Calls("client")' /\ Clean("client")' /\ Calls("server")' /\ Clean("server")'
  <2>1. Calls("client")' /\ Clean("client")'
    BY <1>3, <1>4, <1>5, <1>6, <1>8 DEF Calls, Clean
  <2>2. Calls("server")' /\ Clean("server")'
    BY <1>3, <1>4, <1>5, <1>6 DEF Calls, Clean
  <2> QED
    BY <2>1, <2>2
<1>12. Sessions'
  BY <1>3, <1>4, <1>5, <1>6, <1>7 DEF Sessions
<1>13. Unheard'
  BY <1>3, <1>4, <1>8, <1>9, <1>10 DEF Unheard
<1>14. FinalArrives' /\ ServerFirst'
  BY <1>3, <1>6, <1>8 DEF FinalArrives, ServerFirst
<1>15. ServerFollows'
  <2>1. FinalFor("client")' <=> FinalFor("client")
    BY <1>2, <1>3, <1>4 DEF FinalFor
  <2> QED
    BY <1>3, <1>4, <1>5, <1>6, <2>1 DEF ServerFollows, Silenced, ClientGone
<1>16. Traffic("client")' /\ Traffic("server")'
  <2>1. Traffic("client")'
    BY <1>2, <1>3, <1>4, <1>5, <1>10 DEF Traffic, IsFinalOf
  <2>2. Traffic("server")'
    BY <1>3, <1>9, ContentsType DEF Traffic
  <2> QED
    BY <2>1, <2>2
<1>17. FinalSent("client")' /\ FinalSent("server")'
  BY <1>2, <1>3, <1>4, <1>7, <1>8 DEF FinalSent
<1>18. Submits("client")' /\ Submits("server")'
  <2>1. mpc["client"] # "submit"
    BY <1>5, <1>6 DEF Submits
  <2> QED
    BY <1>2, <1>3, <1>4, <1>5, <1>6, <2>1 DEF Submits, Incoming
<1>19. Control'
  BY <1>2, <1>11, <1>12, <1>13, <1>14, <1>15, <1>16, <1>17, <1>18 DEF Control
<1>20. Stream("client")'
  <2>1. Stream("client")
    BY <1>2 DEF Data
  <2>2. ASSUME NEW k \in Nat PROVE Base("client", k)' = Base("client", k)
    BY <1>2, <1>3, <1>4 DEF Base
  <2>3. Base("client", session["client"])' = 0
    BY <1>2, <1>3, <1>4, <1>7 DEF Base
  <2>4. Covered(link["client"], k0 + 1, 0, 0)
    BY <1>10 DEF Covered, AllIn, IsDataOf
  <2>5. Sound("client")'
    <3> SUFFICES ASSUME InSession("server")
                 PROVE  \E t \in Nat : Covered(link["client"], k0, Base("client", k0), t)
      BY <1>2, <1>3, <1>4, <1>5, <1>7, <2>2 DEF Sound
    <3> QED
      BY <1>2, <1>7, <2>1 DEF Stream, Sound
  <2> QED
    BY <1>3, <1>4, <2>1, <2>2, <2>3, <2>4, <2>5 DEF Stream
<1>21. Stream("server")'
  <2>1. Contents(link'["server"]) = {} /\ link'["server"] = <<>>
    BY <1>3, <1>9, ContentsType
  <2>2. ~NotLeft("server")'
    BY <1>2, <1>4, <1>7 DEF NotLeft
  <2>3. Sound("server")'
    <3>1. Base("server", session["client"])' = 0
      <4>1. rcvd'["client"] = 0 /\ readCh'["client"] = <<>>
        BY <1>3, <1>4, <1>8
      <4> QED
        BY <1>2, <4>1, EmptySeq DEF Base
    <3>2. Covered(<<>>, session'["client"], 0, 0)
      BY <2>1 DEF Covered, AllIn
    <3> QED
      BY <1>2, <2>1, <3>1, <3>2 DEF Sound
  <2> QED
    BY <2>1, <2>2, <2>3 DEF Stream, Ordered, Numbered
<1>22. Queue("client")' /\ Queue("server")'
  BY <1>2, <1>3, <1>4, <1>8 DEF Data, Queue
<1>23. FramesIn(link["client"], "data", k0 + 1) = 0 /\ FramesIn(<<>>, "ack", k0 + 1) = 0
  <2>1. k0 + 1 \in Nat /\ <<>> \in Seq(Frame) /\ Contents(<<>>) = {}
    BY <1>7, EmptySeq, ContentsType
  <2>2. FramesIn(link["client"], "data", k0 + 1) = 0
    BY <1>7, <1>10, <2>1, NoneIn
  <2>3. FramesIn(<<>>, "ack", k0 + 1) = 0
    BY <2>1, NoneIn
  <2> QED
    BY <2>2, <2>3
<1>24. Window("client")'
  <2>1. session'["server"] # session'["client"]
    BY <1>4, <1>7
  <2>2. WindowUnits("client")' = SendWindowSize + 0 + 0 + 0 + 0 + 0 + 0
    BY <1>2, <1>3, <1>4, <1>8, <1>9, <1>23, <2>1 DEF WindowUnits, One
  <2>3. WindowUnits("client")' = SendWindowSize
    BY <1>7, <2>2
  <2> QED
    BY <1>7, <2>3 DEF Window
<1>25. Window("server")'
  <2>1. ~open["server"]
    <3>1. InSession("server") => localSentFinal["server"]
      BY <1>3, <1>6 DEF ServerFollows, ClientGone
    <3>2. localSentFinal["server"] => localClosed["server"]
      BY <1>2 DEF IInv, SilentAfterFinal
    <3> QED
      BY <1>6, <3>1, <3>2 DEF Calls
  <2>2. WindowUnits("server")' = WindowUnits("server")
    <3>1. session'["client"] # session'["server"]
      BY <1>4, <1>7
    <3>2. Len(<<>>) = 0
      BY EmptySeq
    <3> QED
      BY <1>2, <1>3, <1>4, <1>7, <1>8, <3>1, <3>2 DEF WindowUnits, One
  <2> QED
    BY <1>2, <1>4, <1>5, <2>1, <2>2 DEF Data, Window
<1>26. Room("client")' /\ Room("server")'
  <2>1. Room("client")'
    BY <1>2, <1>3, <1>4, <1>5 DEF Data, Room
  <2>2. FramesIn(<<>>, "data", k0 + 1) = 0
    <3>1. k0 + 1 \in Nat /\ <<>> \in Seq(Frame) /\ Contents(<<>>) = {}
      BY <1>7, EmptySeq, ContentsType
    <3> QED
      BY <3>1, NoneIn
  <2>3. Len(<<>>) = 0
    BY EmptySeq
  <2>4. Room("server")'
    BY <1>2, <1>3, <1>4, <1>7, <1>8, <1>9, <2>2, <2>3 DEF Room
  <2> QED
    BY <2>1, <2>4
<1> QED
  BY <1>2, <1>3, <1>19, <1>20, <1>21, <1>22, <1>24, <1>25, <1>26 DEF Data, NoPanic

----------------------------------------------------------------------------
(* The invariant holds.                                                    *)

\* In the initial state both ends are as new and no frame is on its way.
LEMMA InitUse == Init => UInv
<1> SUFFICES ASSUME Init PROVE UInv
  OBVIOUS
<1>1. IInv /\ NoPanic
  BY InitIInv DEF Init, NoPanic
<1>2. /\ SendWindowSize \in Nat /\ <<>> \in Seq(Frame) /\ Len(<<>>) = 0
      /\ Contents(<<>>) = {} /\ 0 \in Nat
  BY WindowAssumption, EmptySeq, ContentsType
<1>3. \A t \in Side : ~InSession(t)
  BY DEF Init, InSession, Side
<1>4. Control
  <2>1. "client" \in Side /\ "server" \in Side
    BY DEF Side
  <2>2. ASSUME NEW t \in Side PROVE Calls(t) /\ Clean(t)
    BY <1>3 DEF Init, Calls, Clean
  <2>3. Sessions /\ Unheard /\ FinalArrives /\ ServerFirst
    BY <1>3, <2>1 DEF Init, Sessions, Unheard, FinalArrives, ServerFirst
  <2>4. ServerFollows
    BY <1>3, <2>1 DEF ServerFollows
  <2>5. ASSUME NEW t \in Side PROVE Traffic(t) /\ FinalSent(t) /\ Submits(t)
    <3>1. link[t] = <<>> /\ ~remoteSentFinal[t] /\ mpc[t] # "submit"
      BY DEF Init
    <3> QED
      BY <1>2, <3>1 DEF Traffic, FinalSent, Submits
  <2> QED
    BY <2>2, <2>3, <2>4, <2>5 DEF Control
<1>5. ASSUME NEW t \in Side PROVE Stream(t) /\ Queue(t) /\ Window(t) /\ Room(t)
  <2>1. Peer(t) \in Side
    BY PeerType
  <2>2. /\ link[t] = <<>> /\ sent[t] = 0 /\ session[t] = 0 /\ session[Peer(t)] = 0
        /\ rcvd[Peer(t)] = 0 /\ readCh[Peer(t)] = <<>> /\ readCh[t] = <<>>
        /\ ~remoteSentFinal[t] /\ ~open[t]
    BY <2>1 DEF Init
  <2>3. Ordered(<<>>) /\ \A k \in Nat : Numbered(<<>>, k, Base(t, k))
    BY <1>2 DEF Ordered, Numbered
  <2>4. ~NotLeft(t)
    BY <1>3, <2>1, <2>2 DEF NotLeft
  <2>5. Stream(t)
    BY <1>3, <2>1, <2>2, <2>3, <2>4 DEF Stream, Sound
  <2>6. Queue(t)
    BY <2>2 DEF Queue
  <2>7. Window(t) /\ Room(t)
    BY <1>3, <2>1, <2>2 DEF Window, Room
  <2> QED
    BY <2>5, <2>6, <2>7
<1> QED
  BY <1>1, <1>4, <1>5 DEF UInv, Data

\* A step that changes nothing keeps the invariant.
LEMMA StutterUse ==
    ASSUME Control, Data, UNCHANGED vars
    PROVE  Control' /\ Data'
<1>1. /\ UNCHANGED <<connVars, pcVars, userVars, aborted, link, panic, histVars>>
  BY DEF vars
<1>2. \A t \in Side : InSession(t)' <=> InSession(t)
  BY <1>1 DEF InSession
<1>3. Quiet
  BY <1>1, <1>2 DEF Quiet, Steady
<1>4. ServerFirst'
  BY <1>1 DEF Control, ServerFirst
<1>5. ASSUME NEW t \in Side PROVE Own(t)'
  <2>1. Calls(t) /\ Clean(t) /\ Submits(t)
    BY DEF Control
  <2>2. Calls(t)' /\ Clean(t)' /\ Submits(t)'
    BY <1>1, <1>2, <2>1 DEF Calls, Clean, Submits, Incoming
  <2> QED
    BY <2>2 DEF Own
<1>6. ASSUME NEW t \in Side PROVE Window(t)'
  <2>1. WindowUnits(t)' = WindowUnits(t)
    BY <1>1 DEF WindowUnits
  <2> QED
    BY <1>1, <1>2, <2>1 DEF Data, Window
<1> QED
  BY <1>3, <1>4, <1>5, <1>6, QuietStep

\* Every step of a disciplined program keeps the invariant.
LEMMA NextUse ==
    ASSUME Disciplined, UInv, [Next]_vars
    PROVE  UInv'
<1>1. IInv /\ NoPanic /\ Control /\ Data
  BY DEF UInv
<1>2. IInv'
  BY <1>1, NextIInv
<1>3. ASSUME UNCHANGED vars PROVE panic' = "none" /\ Control' /\ Data'
  BY <1>1, <1>3, StutterUse DEF vars, NoPanic
<1>4. ASSUME Next PROVE panic' = "none" /\ Control' /\ Data'
  <2>1. CASE NewConn
    BY <1>1, <2>1, NewConnUse
  <2>2. ASSUME NEW s \in Side, User(s) PROVE panic' = "none" /\ Control' /\ Data'
    BY <1>1, <2>2, WriteReadUse, CloseBeginUse DEF User
  <2>3. ASSUME NEW s \in Side, Writer(s) PROVE panic' = "none" /\ Control' /\ Data'
    BY <1>1, <2>3, WriterUse, WriteSendUse DEF Writer
  <2>4. ASSUME NEW s \in Side, Reader(s) PROVE panic' = "none" /\ Control' /\ Data'
    BY <1>1, <2>4, ReadDataUse, ReadAckUse, WaitUse DEF Reader
  <2>5. ASSUME NEW s \in Side, Closer(s) PROVE panic' = "none" /\ Control' /\ Data'
    BY <1>1, <2>5, WaitUse, CloseFinalUse, RecycleUse DEF Closer
  <2>6. ASSUME NEW s \in Side, Copier(s) PROVE panic' = "none" /\ Control' /\ Data'
    BY <1>1, <2>6, WriterUse, WaitUse DEF Copier
  <2>7. ASSUME NEW s \in Side, MuxStart(s) PROVE panic' = "none" /\ Control' /\ Data'
    BY <1>1, <2>7, MuxStartUse
  <2>8. ASSUME NEW s \in Side, Submit(s) PROVE panic' = "none" /\ Control' /\ Data'
    BY <1>1, <2>8, SubmitUse, RecycleUse DEF Submit
  <2>9. ASSUME NEW s \in Side, Abort(s) PROVE panic' = "none" /\ Control' /\ Data'
    BY <1>1, <2>9, WaitUse
  <2>10. CASE Finished
    BY <1>3, <2>10 DEF Finished
  <2> QED
    BY <1>4, <2>1, <2>2, <2>3, <2>4, <2>5, <2>6, <2>7, <2>8, <2>9, <2>10 DEF Next
<1> QED
  BY <1>2, <1>3, <1>4 DEF UInv, NoPanic

\* The invariant of a Conn that is used as its documentation asks.
THEOREM UseInvariance ==
    ASSUME Disciplined
    PROVE  Spec => []UInv
<1>1. Init => UInv
  BY InitUse
<1>2. UInv /\ [Next]_vars => UInv'
  BY NextUse
<1> QED
  BY <1>1, <1>2, PTL DEF Spec

\* None of the panics of SubmitFrame, receivedFinal, consumeAck and
\* recycleLocked can be reached: frames are submitted faster than they are
\* read, but never more than the channels hold.
THEOREM NeverPanics ==
    ASSUME Disciplined
    PROVE  Spec => []NoPanic
<1>1. UInv => NoPanic
  BY DEF UInv
<1> QED
  BY <1>1, UseInvariance, PTL

\* Flow control neither loses nor invents a unit of the send window.
THEOREM WindowIsConserved ==
    ASSUME Disciplined
    PROVE  Spec => []WindowConserved
<1>1. UInv => WindowConserved
  BY DEF UInv, Data, Window, WindowConserved
<1> QED
  BY <1>1, UseInvariance, PTL

\* What an end reads is what its peer has written, in order and without a gap,
\* and the end of it is not seen too early.
THEOREM PipeIsIntact ==
    ASSUME Disciplined
    PROVE  Spec => []PipeIntact
<1>1. UInv => PipeIntact
  BY DEF UInv, Data, Queue, PipeIntact
<1> QED
  BY <1>1, UseInvariance, PTL

\* No frame of one session is submitted in another, and no session of the
\* server is without a Serve that closes it.
THEOREM SessionsIsolated ==
    ASSUME Disciplined
    PROVE  Spec => []SessionIsolation
<1>1. UInv => SessionIsolation
  BY DEF UInv, Control, Submits, Calls, SessionIsolation, Side
<1> QED
  BY <1>1, UseInvariance, PTL

\* A final frame ack finds its receiver closed and waiting for it.
THEOREM FinalAckIsAnswer ==
    ASSUME Disciplined
    PROVE  Spec => []FinalAckAnswers
<1>1. UInv => FinalAckAnswers
  <2> SUFFICES ASSUME UInv, NEW s \in Side, mpc[s] = "submit", Incoming(s).type = "finalAck"
               PROVE  localSentFinal[s] /\ ~remoteSentFinal[s]
    BY DEF FinalAckAnswers
  <2>1. PICK p \in Side : p = Peer(s) /\ Peer(p) = s
    BY PeerType
  <2>2. Arriving(s, p, Incoming(s), session[s])
    BY <2>1, ArrivingFacts DEF UInv
  <2> QED
    BY <2>1, <2>2 DEF Arriving, UInv, Control, Traffic
<1> QED
  BY <1>1, UseInvariance, PTL

\* When an end recycles, every frame on its way to it belongs to a later
\* session: nothing that is left over can reach the next user of the ID.
THEOREM RecyclesQuietly ==
    ASSUME Disciplined
    PROVE  Spec => RecycledQuietly
<1>1. ASSUME UInv, NEW s \in Side, remoteSentFinal[s]
      PROVE  /\ mpc[s] # "submit"
             /\ \A i \in DOMAIN link[Peer(s)] : link[Peer(s)][i].session > session[s]
  <2>1. IInv /\ Control
    BY <1>1 DEF UInv
  <2>2. PICK p \in Side : p = Peer(s) /\ Peer(p) = s /\ p # s
    BY DEF Side, Peer
  <2>3. mpc[s] # "submit"
    BY <1>1, <2>1, <2>2, ArrivingFacts DEF Arriving
  <2>4. /\ session["client"] \in Nat /\ session["server"] \in Nat
        /\ link[p] \in Seq(Frame)
    BY <2>1, UnitTypes DEF IInv, Side
  <2>5. ASSUME NEW i \in DOMAIN link[p] PROVE link[p][i].session > session[s]
    <3>1. link[p][i] \in Contents(link[p])
      BY DEF Contents
    <3>2. link[p][i].session = session[p] /\ session[p] # session[s]
      BY <1>1, <2>1, <2>2, <3>1, NoneAfterFinal
    <3>3. CASE s = "client"
      <4>1. link[p] = <<>>
        BY <2>1, <2>2, <3>2, <3>3 DEF Control, Unheard, Peer
      <4> QED
        BY <3>1, <4>1, ContentsType
    <3>4. CASE s = "server"
      BY <2>1, <2>2, <2>4, <3>2, <3>4 DEF Control, Sessions, Peer
    <3> QED
      BY <3>3, <3>4 DEF Side
  <2> QED
    BY <2>2, <2>3, <2>5
<1>2. UInv /\ [Next]_vars => [RecycleIsQuiet]_vars
  <2> SUFFICES ASSUME UInv, Next PROVE RecycleIsQuiet
    OBVIOUS
  <2> SUFFICES ASSUME NEW s \in Side, localClosed[s], ~localClosed'[s]
               PROVE  /\ mpc[s] # "submit"
                      /\ \A i \in DOMAIN link[Peer(s)] : link[Peer(s)][i].session > session[s]
    BY DEF RecycleIsQuiet
  <2>1. remoteSentFinal[s]
    BY FlagsReset DEF UInv
  <2> QED
    BY <1>1, <2>1
<1> QED
  BY <1>2, UseInvariance, PTL DEF Spec, RecycledQuietly

----------------------------------------------------------------------------
(* A session is a pipe.                                                    *)

USE DEF flagVars, flowVars, connVars, pcVars, userVars, histVars

\* An end that was never opened has sent and received nothing.
Fresh ==
    \A s \in Side :
        session[s] = 0 => ~InSession(s) /\ sent[s] = 0 /\ rcvd[s] = 0

\* The invariant that the refinement needs.
PInv == UInv /\ Fresh

\* The refinement mapping, for one end.
Ended(s) == localSentFinal[s] \/ Left(s)
Over(s) == (remoteSentFinal[s] /\ readCh[s] = <<>>) \/ Left(s)

----------------------------------------------------------------------------
(* Steps of ConnPipe, from what a step does to the mapping of each end.    *)

\* A step that changes nothing of the mapping stutters.
LEMMA PipeStutters ==
    ASSUME UNCHANGED <<sent, rcvd>>,
           \A t \in Side : (Ended(t)' <=> Ended(t)) /\ (Over(t)' <=> Over(t))
    PROVE  UNCHANGED Pipe!vars
BY DEF Pipe!vars, Ended, Over

\* A frame more is sent.
LEMMA PipeWrites ==
    ASSUME NEW s \in Side, ~Ended(s), sent' = [sent EXCEPT ![s] = @ + 1],
           UNCHANGED rcvd,
           \A t \in Side : (Ended(t)' <=> Ended(t)) /\ (Over(t)' <=> Over(t))
    PROVE  Pipe!Write(s)
BY DEF Pipe!Write, Ended, Over

\* A pipe is ended.
LEMMA PipeFinishes ==
    ASSUME NEW s \in Side, ~Ended(s), Ended(s)', UNCHANGED <<sent, rcvd>>,
           \A t \in Side \ {s} : Ended(t)' <=> Ended(t),
           \A t \in Side : Over(t)' <=> Over(t)
    PROVE  Pipe!Finish(s)
BY DEF Pipe!Finish, Ended, Over

\* A frame is read, maybe the last one.
LEMMA PipeReads ==
    ASSUME NEW s \in Side, NEW p \in Side, p = Peer(s), ~Over(s), rcvd[s] < sent[p],
           rcvd \in [Side -> Nat], rcvd' = [rcvd EXCEPT ![s] = @ + 1],
           UNCHANGED sent,
           Over(s)' => Ended(p) /\ rcvd[s] + 1 = sent[p],
           \A t \in Side : Ended(t)' <=> Ended(t),
           \A t \in Side \ {s} : Over(t)' <=> Over(t)
    PROVE  Pipe!Read(s)
BY DEF Pipe!Read, Pipe!Complete, Ended, Over

\* The end of a pipe is seen.
LEMMA PipeEofs ==
    ASSUME NEW s \in Side, NEW p \in Side, p = Peer(s), ~Over(s), Over(s)',
           Ended(p), rcvd[s] = sent[p], UNCHANGED <<sent, rcvd>>,
           \A t \in Side : Ended(t)' <=> Ended(t),
           \A t \in Side \ {s} : Over(t)' <=> Over(t)
    PROVE  Pipe!Eof(s)
BY DEF Pipe!Eof, Pipe!Complete, Ended, Over

\* An end leaves.
LEMMA PipeLeaves ==
    ASSUME NEW s \in Side, \A t \in Side : Ended(t) /\ Ended(t)', Over(s)',
           UNCHANGED <<sent, rcvd>>,
           \A t \in Side \ {s} : Over(t)' <=> Over(t)
    PROVE  Pipe!Leave(s)
BY DEF Pipe!Leave, Ended, Over

----------------------------------------------------------------------------
(* What holds in every state.                                              *)

\* The types the steps need.
LEMMA PipeTypes ==
    ASSUME UInv, MaxSessions = 1
    PROVE  /\ \A t \in Side : /\ session[t] \in {0, 1} /\ sent[t] \in Nat
                              /\ rcvd[t] \in Nat /\ Len(readCh[t]) \in Nat
                              /\ readCh[t] \in Seq(Frame)
           /\ localSentFinal \in [Side -> BOOLEAN]
           /\ remoteSentFinal \in [Side -> BOOLEAN]
           /\ readCh \in [Side -> Seq(Frame)] /\ runState \in [Side -> RunState]
           /\ sent \in [Side -> Nat] /\ rcvd \in [Side -> Nat]
           /\ session \in [Side -> 0..1]
<1>1. TypeOK
  BY DEF UInv, IInv
<1>2. /\ localSentFinal \in [Side -> BOOLEAN]
      /\ remoteSentFinal \in [Side -> BOOLEAN]
      /\ readCh \in [Side -> Seq(Frame)] /\ runState \in [Side -> RunState]
      /\ sent \in [Side -> Nat] /\ rcvd \in [Side -> Nat]
      /\ session \in [Side -> 0..MaxSessions]
  BY <1>1, Zenon DEF TypeOK
<1>3. session \in [Side -> 0..1]
  BY <1>2
<1>4. ASSUME NEW t \in Side
      PROVE  session[t] \in {0, 1} /\ Len(readCh[t]) \in Nat
  BY <1>2, <1>3, LenProperties
<1> QED
  BY <1>2, <1>3, <1>4

\* An end with data to read, or one that knows of the end of its peer's pipe,
\* is in the one session, and so is, or was, its peer.
LEMMA OneSession ==
    ASSUME PInv, MaxSessions = 1, NEW s \in Side, NEW p \in Side, p = Peer(s),
           remoteSentFinal[s] \/ readCh[s] # <<>>
    PROVE  InSession(s) /\ session[s] = 1 /\ session[p] = 1
<1>1. InSession(s)
  BY DEF PInv, UInv, Control, Clean
<1>2. session[s] = 1
  BY <1>1, PipeTypes DEF PInv, Fresh
<1>3. CASE s = "client"
  <2>1. p = "server" /\ Unheard
    BY <1>3 DEF Peer, PInv, UInv, Control
  <2>2. session["client"] = session["server"]
    BY <1>3, <2>1 DEF Unheard
  <2> QED
    BY <1>1, <1>2, <1>3, <2>1, <2>2
<1>4. CASE s = "server"
  <2>1. p = "client" /\ Sessions
    BY <1>4 DEF Peer, PInv, UInv, Control
  <2>2. session[p] \in {0, 1}
    BY PipeTypes DEF PInv
  <2> QED
    BY <1>1, <1>2, <1>4, <2>1, <2>2 DEF Sessions
<1> QED
  BY <1>3, <1>4 DEF Side

\* An end has received no more than its peer has sent; when it has received
\* the final frame, it has received all, and the peer's pipe has ended.
LEMMA AllReceived ==
    ASSUME PInv, MaxSessions = 1, NEW s \in Side, NEW p \in Side, p = Peer(s),
           remoteSentFinal[s] \/ readCh[s] # <<>>
    PROVE  /\ rcvd[s] + Len(readCh[s]) <= sent[p]
           /\ remoteSentFinal[s] => /\ rcvd[s] + Len(readCh[s]) = sent[p]
                                    /\ Ended(p)
<1>1. InSession(s) /\ session[s] = 1 /\ session[p] = 1 /\ Peer(p) = s
  BY OneSession, PeerType
<1>2. Stream(p) /\ Control
  BY DEF PInv, UInv, Data
<1>3. NotLeft(p) /\ Base(p, session[p]) = rcvd[s] + Len(readCh[s])
  BY <1>1 DEF NotLeft, Base
<1>4. Covered(link[p], 1, rcvd[s] + Len(readCh[s]), sent[p])
  BY <1>1, <1>2, <1>3 DEF Stream
<1>5. /\ rcvd[s] + Len(readCh[s]) \in Nat /\ sent[p] \in Nat
  BY PipeTypes DEF PInv
<1>6. rcvd[s] + Len(readCh[s]) <= sent[p]
  BY <1>4 DEF Covered
<1>7. ASSUME remoteSentFinal[s] PROVE rcvd[s] + Len(readCh[s]) = sent[p]
  <2> SUFFICES ASSUME rcvd[s] + Len(readCh[s]) < sent[p] PROVE FALSE
    BY <1>5, <1>6
  <2>1. \E f \in Contents(link[p]) : IsDataOf(f, 1)
    BY <1>4, <1>5 DEF Covered, AllIn
  <2>2. PICK f \in Contents(link[p]) : f.session = 1
    BY <2>1 DEF IsDataOf
  <2> QED
    BY <1>1, <1>2, <1>7, <2>2, NoneAfterFinal
<1>8. ASSUME remoteSentFinal[s] PROVE Ended(p)
  <2>1. InSession(p) => localSentFinal[p]
    BY <1>1, <1>2, <1>8 DEF Control, FinalSent
  <2> QED
    BY <1>1, <2>1 DEF Ended, Left
<1> QED
  BY <1>6, <1>7, <1>8

\* Whoever has received the final frame has received all.
FinalMeansAll ==
    \A s \in Side :
        remoteSentFinal[s] => /\ rcvd[s] + Len(readCh[s]) = sent[Peer(s)]
                              /\ Ended(Peer(s))

\* This holds before and after every step.
LEMMA FinalIsAll ==
    ASSUME MaxSessions = 1
    PROVE  (PInv => FinalMeansAll) /\ (PInv' => FinalMeansAll')
<1>1. PInv => FinalMeansAll
  BY AllReceived, PeerType DEF FinalMeansAll
<1>2. PInv' => FinalMeansAll'
  BY <1>1, PTL
<1> QED
  BY <1>1, <1>2

----------------------------------------------------------------------------
(* Steps that leave the sessions alone.                                    *)

\* Neither end opens or leaves a session.
Stays ==
    /\ UNCHANGED session
    /\ \A t \in Side : InSession(t)' <=> InSession(t)

\* A step that stays keeps Fresh, if the end that sends or receives is in a
\* session.
LEMMA StaysFresh ==
    ASSUME Fresh, Stays,
           \A t \in Side : InSession(t) \/ (sent'[t] = sent[t] /\ rcvd'[t] = rcvd[t])
    PROVE  Fresh'
BY DEF Fresh, Stays

\* Nor does it change who has left.
LEMMA StaysLeft ==
    ASSUME Stays
    PROVE  \A t \in Side : Left(t)' <=> Left(t)
BY DEF Stays, Left

\* What a step of the Conn must show: it is a step of the pipes or a stutter.
PipeStep == Fresh' /\ (Pipe!Next \/ UNCHANGED Pipe!vars)

\* A step that changes no counter, no final flag and no queue stutters.
LEMMA StillStep ==
    ASSUME Fresh, Stays, UNCHANGED <<sent, rcvd, localSentFinal, remoteSentFinal, readCh>>
    PROVE  PipeStep
<1>1. Fresh'
  BY StaysFresh
<1>2. \A t \in Side : (Ended(t)' <=> Ended(t)) /\ (Over(t)' <=> Over(t))
  BY StaysLeft DEF Ended, Over
<1> QED
  BY <1>1, <1>2, PipeStutters DEF PipeStep

\* Who sends with an unused Conn is not at the server, or the Conn is not
\* unused there.
LEMMA StartingStays ==
    ASSUME PInv, MaxSessions = 1, NEW s \in Side, InSession(s), UNCHANGED <<session, pooled>>,
           runState' \in {runState, [runState EXCEPT ![s] = Starting(s)],
                          [runState EXCEPT ![s] = "WaitFin"]}
    PROVE  Stays
<1>1. runState \in [Side -> RunState]
  BY PipeTypes DEF PInv
<1>2. runState'["server"] = "Unused" <=> runState["server"] = "Unused"
  BY <1>1 DEF Starting, InSession, Side
<1> QED
  BY <1>2 DEF Stays, InSession, Side

----------------------------------------------------------------------------
(* The actions.                                                            *)

\* The calls, waits and failures of the goroutines that use a Conn, acks, and
\* a Muxer that is closed are invisible.
LEMMA InvisiblePipe ==
    ASSUME Disciplined, PInv, MaxSessions = 1, NEW s \in Side,
           \/ User(s) \/ Copier(s) \/ Abort(s) \/ SubmitAck(s) \/ CloseLock(s)
           \/ WriteAcked(s) \/ WriteFails(s) \/ WriteDefault(s)
           \/ ReadAck(s) \/ ReadEnds(s)
    PROVE  PipeStep
<1>1. Calls(s) /\ Clean(s) /\ Fresh
  BY DEF PInv, UInv, Control
<1>2. UNCHANGED <<session, pooled, sent, rcvd, localSentFinal, remoteSentFinal, readCh>>
  <2>1. CASE User(s)
    BY <2>1 DEF User, Fill, Write, ReadFrom, Hijack, Flush, Read, CloseBegin
  <2>2. CASE Copier(s) \/ Abort(s) \/ SubmitAck(s) \/ CloseLock(s)
    BY <2>2 DEF Copier, SourceRead, SinkWrite, Abort, SubmitAck, CloseLock
  <2>3. CASE \/ WriteAcked(s) \/ WriteFails(s) \/ WriteDefault(s)
             \/ ReadAck(s) \/ ReadEnds(s)
    BY <2>3 DEF WriteAcked, WriteFails, WriteDefault, ReadAck, ReadEnds
  <2> QED
    BY <2>1, <2>2, <2>3
<1>3. Stays
  <2>1. CASE Hijack(s)
    <3>1. InSession(s) /\ runState' = [runState EXCEPT ![s] = Starting(s)]
      BY <1>1, <2>1 DEF Hijack, MayLockWrite, Calls
    <3> QED
      BY <1>2, <3>1, StartingStays
  <2>2. CASE WriteDefault(s)
    <3>1. InSession(s) /\ runState' \in {runState, [runState EXCEPT ![s] = Starting(s)]}
      BY <1>1, <2>2 DEF WriteDefault, Clean
    <3> QED
      BY <1>2, <3>1, StartingStays
  <2>3. CASE ~Hijack(s) /\ ~WriteDefault(s)
    <3>1. runState' = runState
      <4>1. CASE User(s)
        BY <2>3, <4>1 DEF User, Fill, Write, ReadFrom, Flush, Read, CloseBegin
      <4>2. CASE Copier(s) \/ Abort(s) \/ SubmitAck(s) \/ CloseLock(s)
        BY <4>2 DEF Copier, SourceRead, SinkWrite, Abort, SubmitAck, CloseLock
      <4>3. CASE WriteAcked(s) \/ WriteFails(s) \/ ReadAck(s) \/ ReadEnds(s)
        BY <4>3 DEF WriteAcked, WriteFails, ReadAck, ReadEnds
      <4> QED
        BY <2>3, <4>1, <4>2, <4>3
    <3> QED
      BY <1>2, <3>1 DEF Stays, InSession
  <2> QED
    BY <2>1, <2>2, <2>3
<1> QED
  BY <1>1, <1>2, <1>3, StillStep

\* writeFrame writes to the pipe, unless the Muxer drops the frame.
LEMMA WriteSendPipe ==
    ASSUME PInv, MaxSessions = 1, NEW s \in Side, WriteSend(s)
    PROVE  PipeStep
<1>1. Calls(s) /\ Clean(s) /\ Fresh
  BY DEF PInv, UInv, Control
<1>2. wpc[s] = "send" /\ InSession(s) /\ ~localSentFinal[s]
  BY <1>1 DEF WriteSend, Calls, Clean
<1>3. /\ UNCHANGED <<session, runState, pooled, rcvd, localSentFinal>>
      /\ UNCHANGED <<remoteSentFinal, readCh>>
  BY DEF WriteSend
<1>4. Stays
  BY <1>3 DEF Stays, InSession
<1>5. sent \in [Side -> Nat]
  BY PipeTypes DEF PInv
<1>6. sent' = sent \/ sent' = [sent EXCEPT ![s] = @ + 1]
  BY <1>5 DEF WriteSend
<1>7. CASE sent' = sent
  BY <1>1, <1>3, <1>4, <1>7, StillStep
<1>8. CASE sent' = [sent EXCEPT ![s] = @ + 1]
  <2>1. Fresh'
    BY <1>1, <1>2, <1>3, <1>4, <1>5, <1>8, StaysFresh
  <2>2. \A t \in Side : (Ended(t)' <=> Ended(t)) /\ (Over(t)' <=> Over(t))
    BY <1>3, <1>4, StaysLeft DEF Ended, Over
  <2>3. ~Ended(s)
    BY <1>2 DEF Ended, Left
  <2>4. Pipe!Write(s)
    BY <1>3, <1>8, <2>2, <2>3, PipeWrites
  <2> QED
    BY <2>1, <2>4 DEF PipeStep, Pipe!Next
<1> QED
  BY <1>6, <1>7, <1>8

\* writeFinalLocked ends the pipe, even if the Muxer drops the final frame.
LEMMA CloseFinalPipe ==
    ASSUME PInv, MaxSessions = 1, NEW s \in Side, CloseFinal(s)
    PROVE  PipeStep
<1>1. Clean(s) /\ Fresh /\ ConnInv
  BY DEF PInv, UInv, Control, IInv
<1>2. localSentFinal \in [Side -> BOOLEAN]
  BY PipeTypes DEF PInv
<1>3. InSession(s) /\ ~localSentFinal[s]
  BY <1>1 DEF CloseFinal, Clean, ConnInv
<1>4. /\ UNCHANGED <<session, runState, pooled, sent, rcvd, remoteSentFinal, readCh>>
      /\ localSentFinal' = [localSentFinal EXCEPT ![s] = TRUE]
  BY DEF CloseFinal
<1>5. Stays
  BY <1>4 DEF Stays, InSession
<1>6. Fresh'
  BY <1>1, <1>4, <1>5, StaysFresh
<1>7. \A t \in Side : Over(t)' <=> Over(t)
  BY <1>4, <1>5, StaysLeft DEF Over
<1>8. Ended(s)' /\ \A t \in Side \ {s} : Ended(t)' <=> Ended(t)
  BY <1>2, <1>4, <1>5, StaysLeft DEF Ended
<1>9. ~Ended(s)
  BY <1>3 DEF Ended, Left
<1>10. Pipe!Finish(s)
  BY <1>4, <1>7, <1>8, <1>9, PipeFinishes
<1> QED
  BY <1>6, <1>10 DEF PipeStep, Pipe!Next

\* readFrame reads from the pipe; when it takes the last frame of a closed
\* readCh the pipe is over.
LEMMA ReadDataPipe ==
    ASSUME PInv, MaxSessions = 1, NEW s \in Side, ReadData(s)
    PROVE  PipeStep
<1>1. PICK p \in Side : p = Peer(s)
  BY PeerType
<1>2. readCh[s] # <<>> /\ Fresh
  BY DEF ReadData, PInv
<1>3. InSession(s) /\ session[s] = 1 /\ session[p] = 1
  BY <1>1, <1>2, OneSession
<1>4. /\ UNCHANGED <<session, runState, pooled, sent, remoteSentFinal, localSentFinal>>
      /\ readCh' = [readCh EXCEPT ![s] = Tail(@)]
      /\ rcvd' = [rcvd EXCEPT ![s] = @ + 1]
  BY DEF ReadData
<1>5. Stays
  BY <1>4 DEF Stays, InSession
<1>6. /\ rcvd \in [Side -> Nat] /\ readCh \in [Side -> Seq(Frame)]
      /\ sent[p] \in Nat /\ rcvd[s] \in Nat
  BY PipeTypes DEF PInv
<1>7. Fresh'
  BY <1>2, <1>3, <1>4, <1>5, <1>6, StaysFresh
<1>8. Len(readCh[s]) \in Nat \ {0} /\ Len(Tail(readCh[s])) = Len(readCh[s]) - 1
  BY <1>2, <1>6, TailFacts
<1>9. /\ rcvd[s] + Len(readCh[s]) <= sent[p]
      /\ remoteSentFinal[s] => rcvd[s] + Len(readCh[s]) = sent[p] /\ Ended(p)
  BY <1>1, <1>2, AllReceived
<1>10. ~Over(s) /\ rcvd[s] < sent[p]
  BY <1>2, <1>3, <1>6, <1>8, <1>9 DEF Over, Left
<1>11. \A t \in Side : Ended(t)' <=> Ended(t)
  BY <1>4, <1>5, StaysLeft DEF Ended
<1>12. \A t \in Side \ {s} : Over(t)' <=> Over(t)
  BY <1>4, <1>5, <1>6, StaysLeft DEF Over
<1>13. ASSUME Over(s)' PROVE Ended(p) /\ rcvd[s] + 1 = sent[p]
  <2>1. ~Left(s)'
    BY <1>3, <1>5, StaysLeft DEF Left
  <2>2. remoteSentFinal[s] /\ Tail(readCh[s]) = <<>>
    BY <1>4, <1>6, <1>13, <2>1 DEF Over
  <2>3. Len(Tail(readCh[s])) = 0
    BY <2>2, EmptySeq
  <2>4. Len(readCh[s]) = 1
    BY <1>8, <2>3
  <2> QED
    BY <1>9, <2>2, <2>4
<1>14. Pipe!Read(s)
  BY <1>1, <1>4, <1>6, <1>10, <1>11, <1>12, <1>13, PipeReads
<1> QED
  BY <1>7, <1>14 DEF PipeStep, Pipe!Next

\* receivedFinal, with nothing left to read, is the end of the pipe.
LEMMA SubmitFinalPipe ==
    ASSUME PInv, UInv', MaxSessions = 1, NEW s \in Side, SubmitFinal(s)
    PROVE  PipeStep
<1>1. PICK p \in Side : p = Peer(s)
  BY PeerType
<1>2. Fresh
  BY DEF PInv
<1>3. UNCHANGED <<session, runState, pooled, sent, rcvd, localSentFinal, readCh>>
  BY DEF SubmitFinal
<1>4. Stays
  BY <1>3 DEF Stays, InSession
<1>5. Fresh'
  BY <1>2, <1>3, <1>4, StaysFresh
<1>6. \A t \in Side : (Left(t)' <=> Left(t)) /\ (Ended(t)' <=> Ended(t))
  BY <1>3, <1>4, StaysLeft DEF Ended
<1>7. remoteSentFinal \in [Side -> BOOLEAN]
  BY PipeTypes DEF PInv
<1>8. remoteSentFinal' = remoteSentFinal \/ remoteSentFinal' = [remoteSentFinal EXCEPT ![s] = TRUE]
  BY DEF SubmitFinal
<1>9. \A t \in Side \ {s} : Over(t)' <=> Over(t)
  BY <1>3, <1>6, <1>7, <1>8 DEF Over
<1>10. Over(s) => Over(s)'
  BY <1>3, <1>6, <1>7, <1>8 DEF Over
<1>11. CASE Over(s) \/ ~Over(s)'
  BY <1>3, <1>5, <1>6, <1>9, <1>10, <1>11, PipeStutters DEF PipeStep
<1>12. CASE ~Over(s) /\ Over(s)'
  <2>1. remoteSentFinal'[s] /\ readCh'[s] = <<>>
    BY <1>6, <1>12 DEF Over
  <2>2. PInv'
    BY <1>5 DEF PInv
  <2>3. rcvd'[s] + Len(readCh'[s]) = sent'[p] /\ Ended(p)'
    BY <1>1, <2>1, <2>2, FinalIsAll DEF FinalMeansAll
  <2>4. Len(readCh'[s]) = 0 /\ rcvd[s] \in Nat
    BY <2>1, EmptySeq, PipeTypes DEF PInv
  <2>5. rcvd[s] = sent[p] /\ Ended(p)
    BY <1>3, <1>6, <2>3, <2>4
  <2>6. Pipe!Eof(s)
    BY <1>1, <1>3, <1>6, <1>9, <1>12, <2>5, PipeEofs
  <2> QED
    BY <1>5, <2>6 DEF PipeStep, Pipe!Next
<1> QED
  BY <1>11, <1>12

\* SubmitFrame queues a data frame; the end of the pipe is not near.
LEMMA SubmitDataPipe ==
    ASSUME PInv, MaxSessions = 1, NEW s \in Side, SubmitData(s)
    PROVE  PipeStep
<1>1. Fresh /\ readCh \in [Side -> Seq(Frame)]
  BY PipeTypes DEF PInv
<1>2. /\ UNCHANGED <<session, runState, pooled, sent, rcvd, localSentFinal>>
      /\ UNCHANGED remoteSentFinal
  BY DEF SubmitData
<1>3. Stays
  BY <1>2 DEF Stays, InSession
<1>4. Fresh'
  BY <1>1, <1>2, <1>3, StaysFresh
<1>5. \A t \in Side : Ended(t)' <=> Ended(t)
  BY <1>2, <1>3, StaysLeft DEF Ended
<1>6. \/ readCh' = readCh
      \/ ~remoteSentFinal[s] /\ readCh' = [readCh EXCEPT ![s] = Append(@, Incoming(s))]
  BY DEF SubmitData
<1>7. \A t \in Side : remoteSentFinal[t] => readCh'[t] = readCh[t]
  BY <1>1, <1>6
<1>8. \A t \in Side : Over(t)' <=> Over(t)
  BY <1>2, <1>3, <1>7, StaysLeft DEF Over
<1> QED
  BY <1>2, <1>4, <1>5, <1>8, PipeStutters DEF PipeStep

\* An end that is recycled leaves when both pipes have ended.
LEMMA RecyclePipe ==
    ASSUME PInv, MaxSessions = 1, NEW s \in Side,
           Recycle(s) \/ (CloseFinish(s) /\ remoteSentFinal[s])
    PROVE  PipeStep
<1>1. PICK p \in Side : p = Peer(s) /\ p # s /\ \A t \in Side : t \in {s, p}
  BY DEF Side, Peer
<1>2. RecyclingEnd(s, p)
  BY <1>1, RecycleFacts DEF PInv, UInv
<1>3. /\ UNCHANGED <<session, sent, rcvd>> /\ InSession(s) /\ ~InSession(s)'
      /\ localSentFinal[s] /\ remoteSentFinal[s] /\ (InSession(p)' <=> InSession(p))
      /\ localSentFinal'[p] = localSentFinal[p]
      /\ remoteSentFinal'[p] = remoteSentFinal[p] /\ readCh'[p] = readCh[p]
  BY <1>2 DEF RecyclingEnd
<1>4. session[s] = 1 /\ Ended(p) /\ Fresh
  BY <1>1, <1>3, OneSession, AllReceived DEF PInv
<1>5. Fresh'
  BY <1>1, <1>3, <1>4 DEF Fresh
<1>6. Left(s)' /\ (Left(p)' <=> Left(p))
  BY <1>3, <1>4 DEF Left
<1>7. \A t \in Side : Ended(t) /\ Ended(t)'
  BY <1>1, <1>3, <1>4, <1>6 DEF Ended
<1>8. Over(s)' /\ \A t \in Side \ {s} : Over(t)' <=> Over(t)
  BY <1>1, <1>3, <1>6 DEF Over
<1>9. Pipe!Leave(s)
  BY <1>3, <1>7, <1>8, PipeLeaves
<1> QED
  BY <1>5, <1>9 DEF PipeStep, Pipe!Next

\* Close, without the peer's final frame, has nothing more to do.
LEMMA WaitFinPipe ==
    ASSUME PInv, MaxSessions = 1, NEW s \in Side, CloseFinish(s), ~remoteSentFinal[s]
    PROVE  PipeStep
<1>1. Clean(s) /\ Fresh /\ ConnInv
  BY DEF PInv, UInv, Control, IInv
<1>2. InSession(s)
  BY <1>1 DEF CloseFinish, Clean, ConnInv
<1>3. /\ UNCHANGED <<session, pooled, sent, rcvd, localSentFinal, remoteSentFinal, readCh>>
      /\ runState' = [runState EXCEPT ![s] = "WaitFin"]
  BY DEF CloseFinish
<1>4. Stays
  BY <1>2, <1>3, StartingStays
<1> QED
  BY <1>1, <1>3, <1>4, StillStep

\* ReadFrom starts the server's end, or finds it started.
LEMMA MuxStartPipe ==
    ASSUME PInv, MaxSessions = 1, NEW s \in Side, MuxStart(s)
    PROVE  PipeStep
<1>1. Fresh /\ IInv /\ Control
  BY DEF PInv, UInv
<1>2. UNCHANGED <<pooled, localSentFinal, remoteSentFinal, readCh>>
  BY DEF MuxStart
<1>3. CASE ~(runState[s] = "Unused" /\ s = "server")
  <2>1. /\ UNCHANGED <<session, sent, rcvd>>
        /\ runState' = [runState EXCEPT ![s] = Starting(s)]
    BY <1>3 DEF MuxStart
  <2>2. runState'["server"] = "Unused" <=> runState["server"] = "Unused"
    <3>1. runState \in [Side -> RunState]
      BY PipeTypes DEF PInv
    <3> QED
      BY <1>3, <2>1, <3>1 DEF Starting, Side
  <2>3. Stays
    BY <1>2, <2>1, <2>2 DEF Stays, InSession, Side
  <2> QED
    BY <1>1, <1>2, <2>1, <2>3, StillStep
<1>4. CASE runState[s] = "Unused" /\ s = "server"
  <2>1. StartFacts /\ StartStep
    BY <1>1, <1>4, StartOK
  <2>2. session["server"] = 0 /\ session["client"] = 1
    <3>1. session["server"] \in {0, 1} /\ session["client"] \in {0, 1}
      BY PipeTypes DEF PInv, Side
    <3> QED
      BY <2>1, <3>1 DEF StartFacts
  <2>3. \A t \in Side : sent'[t] = sent[t] /\ rcvd'[t] = rcvd[t]
    BY <1>1, <2>1, <2>2 DEF StartStep, Fresh, Side
  <2>4. UNCHANGED <<sent, rcvd>>
    <3>1. /\ sent \in [Side -> Nat] /\ rcvd \in [Side -> Nat]
          /\ sent' = [sent EXCEPT !["server"] = 0]
          /\ rcvd' = [rcvd EXCEPT !["server"] = 0]
      BY <1>4, PipeTypes DEF MuxStart, PInv
    <3> QED
      BY <2>3, <3>1 DEF Side
  <2>5. Fresh'
    BY <1>1, <2>1, <2>2 DEF Fresh, StartStep, Side
  <2>6. \A t \in Side : Left(t)' <=> Left(t)
    BY <2>1, <2>2 DEF Left, StartStep, Side
  <2>7. \A t \in Side : (Ended(t)' <=> Ended(t)) /\ (Over(t)' <=> Over(t))
    BY <1>2, <2>6 DEF Ended, Over
  <2> QED
    BY <2>4, <2>5, <2>7, PipeStutters DEF PipeStep
<1> QED
  BY <1>3, <1>4

\* NewConn starts the client's end of the one session.
LEMMA NewConnPipe ==
    ASSUME PInv, MaxSessions = 1, NewConn
    PROVE  PipeStep
<1>1. /\ session \in [Side -> 0..1] /\ sent \in [Side -> Nat] /\ rcvd \in [Side -> Nat]
      /\ session["client"] \in {0, 1} /\ Fresh
  BY PipeTypes DEF PInv, Side
<1>2. /\ UNCHANGED <<localSentFinal, remoteSentFinal, readCh, runState>>
      /\ pooled /\ pooled' = FALSE
      /\ session' = [session EXCEPT !["client"] = @ + 1]
      /\ sent' = [sent EXCEPT !["client"] = 0]
      /\ rcvd' = [rcvd EXCEPT !["client"] = 0]
      /\ session["client"] < MaxSessions
  BY DEF NewConn
<1>3. session["client"] = 0 /\ session'["client"] = 1 /\ session'["server"] = session["server"]
  BY <1>1, <1>2 DEF Side
<1>4. sent["client"] = 0 /\ rcvd["client"] = 0
  BY <1>1, <1>3 DEF Fresh, Side
<1>5. UNCHANGED <<sent, rcvd>>
  BY <1>1, <1>2, <1>4
<1>6. Fresh'
  BY <1>1, <1>2, <1>3, <1>5 DEF Fresh, InSession, Side
<1>7. \A t \in Side : Left(t)' <=> Left(t)
  BY <1>2, <1>3 DEF Left, InSession, Side
<1>8. \A t \in Side : (Ended(t)' <=> Ended(t)) /\ (Over(t)' <=> Over(t))
  BY <1>2, <1>7 DEF Ended, Over
<1> QED
  BY <1>5, <1>6, <1>8, PipeStutters DEF PipeStep

----------------------------------------------------------------------------
(* The refinement.                                                         *)

\* The initial state maps to the initial state of the pipes.
LEMMA InitPipe ==
    ASSUME MaxSessions = 1, Init
    PROVE  Pipe!Init /\ Fresh
<1>1. \A s \in Side : ~localSentFinal[s] /\ ~remoteSentFinal[s] /\ ~Left(s)
  BY DEF Init, Left, Side
<1>2. Pipe!Init
  BY <1>1 DEF Pipe!Init, Init
<1>3. Fresh
  BY DEF Fresh, Init, InSession
<1> QED
  BY <1>2, <1>3

\* Every step maps to a step of the pipes or a stutter.
LEMMA NextPipe ==
    ASSUME Disciplined, MaxSessions = 1, PInv, [Next]_vars
    PROVE  PInv' /\ (Pipe!Next \/ UNCHANGED Pipe!vars)
<1>1. UInv'
  BY NextUse DEF PInv
<1>2. ASSUME UNCHANGED vars PROVE PipeStep
  BY <1>2, StillStep DEF vars, Stays, InSession, PInv
<1>3. ASSUME Next PROVE PipeStep
  <2>1. CASE NewConn
    BY <2>1, NewConnPipe
  <2>2. ASSUME NEW s \in Side, User(s) \/ Copier(s) \/ Abort(s) PROVE PipeStep
    BY <2>2, InvisiblePipe
  <2>3. ASSUME NEW s \in Side, Writer(s) PROVE PipeStep
    BY <2>3, InvisiblePipe, WriteSendPipe DEF Writer
  <2>4. ASSUME NEW s \in Side, Reader(s) PROVE PipeStep
    BY <2>4, InvisiblePipe, ReadDataPipe DEF Reader
  <2>5. ASSUME NEW s \in Side, Closer(s) PROVE PipeStep
    BY <2>5, InvisiblePipe, CloseFinalPipe, RecyclePipe, WaitFinPipe DEF Closer
  <2>6. ASSUME NEW s \in Side, MuxStart(s) PROVE PipeStep
    BY <2>6, MuxStartPipe
  <2>7. ASSUME NEW s \in Side, Submit(s) PROVE PipeStep
    BY <1>1, <2>7, InvisiblePipe, SubmitDataPipe, SubmitFinalPipe, RecyclePipe DEF Submit
  <2>8. CASE Finished
    BY <1>2, <2>8 DEF Finished
  <2> QED
    BY <1>3, <2>1, <2>2, <2>3, <2>4, <2>5, <2>6, <2>7, <2>8 DEF Next
<1> QED
  BY <1>1, <1>2, <1>3 DEF PipeStep, PInv

\* Behind windows, acks, locks, drops and final frames a session is a pair of
\* pipes: no frame is read that was not written, the end of a pipe is seen
\* after its last frame, nothing is written after it, and an end is recycled
\* only when both pipes have ended.
THEOREM SessionIsPipe ==
    ASSUME Disciplined, MaxSessions = 1
    PROVE  Spec => ImplementsPipe
<1>1. Init => PInv /\ Pipe!Init
  BY InitPipe, InitUse DEF PInv
<1>2. PInv /\ [Next]_vars => PInv'
  BY NextPipe
<1>3. PInv /\ [Next]_vars => [Pipe!Next]_(Pipe!vars)
  BY NextPipe
<1> QED
  BY <1>1, <1>2, <1>3, PTL DEF Spec, ImplementsPipe, Pipe!Spec
=============================================================================
