--------------------------- MODULE RapMuxerProofs ---------------------------
(***************************************************************************)
(* A Muxer ends safely, for any number of Conns, frames and buffer sizes.  *)
(*                                                                         *)
(* FinalComplete is about the network, where the frames of a Conn arrive   *)
(* in the order in which ConnWrite took them: what is inductive says where *)
(* they are before.  A frame waits where its Conn's user or closer is      *)
(* (Waiting); one in the buffer is counted as sent (Counted), and has no   *)
(* final frame of its Conn before it (FinalLast).  NoNilConn rests on what *)
(* a Conn that may be taken from connLookup can still receive (Reading).   *)
(***************************************************************************)
EXTENDS RapMuxer, FiniteSetTheorems, SequenceTheorems, TLAPS

\* What TypeOK leaves open: where pending is defined, and what the buffer holds.
Shape ==
    /\ pending \in [Caller -> SUBSET Frame]
    /\ buf \in Seq(Frame)
    /\ writer \notin {"put", "end"} => Len(buf) <= BufCap

\* The frames that wait, and at whom.
Waiting ==
    /\ \A c \in ConnID :
          /\ user[c] \in {"call", "ack", "lock"}
                => pending[c] \subseteq {FrameOf("data", c), FrameOf("ack", c)}
          /\ user[c] = "final" => pending[c] \subseteq {FrameOf("final", c)}
          /\ user[c] \notin {"call", "ack", "lock", "final"} => pending[c] = {}
    /\ pending[ReaderG] \subseteq {FrameOf("pong", 0)}
    /\ reader # "pong" => pending[ReaderG] = {}
    /\ pending[CloserG] \subseteq {FrameOf("final", c) : c \in closer}
    /\ \A c \in ConnID : FrameOf("data", c) \in pending[c] => sent[c] < MaxData

\* Once the final frame has been submitted, nothing but that frame waits.
Finals ==
    \A c \in ConnID :
        /\ sentFinal[c] => localClosed[c] /\ user[c] \notin {"call", "ack", "lock"}
        /\ user[c] = "lock" => localClosed[c] /\ c \notin closer
        /\ c \in closer => localClosed[c]
        /\ user[c] = "final" => sentFinal[c]
        /\ FrameOf("final", c) \in pending[CloserG] => sentFinal[c]
        /\ wiredFinal[c] => sentFinal[c]
        /\ \A i \in DOMAIN buf : buf[i] = FrameOf("final", c) => sentFinal[c]

\* Where the data frames of c are in the buffer.
DataAt(c) == {i \in DOMAIN buf : buf[i] = FrameOf("data", c)}

\* A data frame that ConnWrite accepted is in the buffer or has been written.
Counted == \A c \in ConnID : sent[c] = wired[c] + Cardinality(DataAt(c))

\* In the buffer, and from the network to the buffer, a final frame is the
\* last one of its Conn.
FinalLast ==
    \A c \in ConnID :
        /\ wiredFinal[c] => DataAt(c) = {}
        /\ \A i \in DOMAIN buf : \A j \in DataAt(c) :
              buf[i] = FrameOf("final", c) => j < i

\* Nothing is read any more.
ReaderOver == done /\ ReaderDone

\* The peer writes nothing to a Conn that is not in connLookup while frames
\* are read.
Reading ==
    /\ closing # "no" => done
    /\ closing \in {"conns", "done"} => ReaderOver
    /\ reader = "final" => peer[incoming] = 0
    /\ \A c \in ConnID :
          /\ c \notin connLookup => ReaderOver \/ peer[c] = 0
          /\ gotFinal[c] => peer[c] = 0
          /\ unread[c] + peer[c] <= MaxData + 1

IInv ==
    /\ TypeOK
    /\ Shape
    /\ Waiting
    /\ Finals
    /\ Counted
    /\ FinalLast
    /\ Reading
    /\ NoNilConn

----------------------------------------------------------------------------
(* Frames, goroutines and the buffer.                                      *)

\* Frames are equal when their kinds and Conns are.
LEMMA FrameFacts ==
    /\ \A c \in ConnID : \A k \in Kind :
          /\ FrameOf(k, c) \in Frame
          /\ FrameOf(k, c).kind = k /\ FrameOf(k, c).conn = c
    /\ \A c, d \in ConnID : \A k, m \in Kind : FrameOf(k, c) = FrameOf(m, d) => k = m /\ c = d
    /\ \A f \in Frame : f.kind \in Kind /\ f.conn \in ConnID /\ f = FrameOf(f.kind, f.conn)
BY DEF FrameOf, Frame

\* The goroutines that send on writeCh are the users of Conns, the reader and
\* the closer, and no two of these are the same.
LEMMA CallerFacts ==
    /\ ConnID \subseteq Caller /\ ReaderG \in Caller /\ CloserG \in Caller
    /\ ReaderG \notin ConnID /\ CloserG \notin ConnID /\ ReaderG # CloserG
    /\ 0 \in ConnID
    /\ \A g \in Caller : g \in ConnID \/ g = ReaderG \/ g = CloserG
BY MuxerAssumption DEF Caller, ConnID, ReaderG, CloserG

\* pending after a goroutine begins to wait with f, or with nothing.
LEMMA PendingChanges ==
    ASSUME TypeOK, Shape, NEW g \in Caller, NEW F, F = {} \/ \E f \in Frame : F = {f},
           pending' = [pending EXCEPT ![g] = F]
    PROVE  /\ pending' \in [Caller -> SUBSET Frame]
           /\ \A h \in Caller : pending'[h] = IF h = g THEN F ELSE pending[h]
           /\ \A h \in Caller : pending'[h] \subseteq Frame /\ Cardinality(pending'[h]) <= 1
<1>1. F \subseteq Frame
  OBVIOUS
<1>2. Cardinality(F) <= 1
  <2>1. CASE F = {}
    BY <2>1, FS_EmptySet
  <2>2. ASSUME NEW f \in Frame, F = {f}
        PROVE  Cardinality(F) <= 1
    BY <2>2, FS_Singleton
  <2> QED
    BY <2>1, <2>2
<1>3. pending' \in [Caller -> SUBSET Frame]
  BY <1>1, Zenon DEF Shape
<1>4. \A h \in Caller : pending'[h] = IF h = g THEN F ELSE pending[h]
  BY Zenon DEF Shape
<1> QED
  BY <1>1, <1>2, <1>3, <1>4 DEF TypeOK

\* The data frames in the buffer are finitely many.
LEMMA DataFinite ==
    ASSUME Shape, NEW c
    PROVE  IsFiniteSet(DataAt(c)) /\ Cardinality(DataAt(c)) \in Nat
<1>1. DOMAIN buf = 1..Len(buf) /\ Len(buf) \in Nat
  BY DEF Shape
<1>2. IsFiniteSet(DOMAIN buf)
  BY <1>1, FS_Interval
<1>3. DataAt(c) \subseteq DOMAIN buf
  BY DEF DataAt
<1> QED
  BY <1>2, <1>3, FS_Subset, FS_CardinalityType

----------------------------------------------------------------------------
(* Frames: what a step preserves because it does not touch the state.      *)

\* A step that writes nothing.
LEMMA BufferStays ==
    ASSUME IInv, UNCHANGED <<buf, wired, wiredFinal, sent>>
    PROVE  Counted' /\ FinalLast'
<1>1. \A c \in ConnID : DataAt(c)' = DataAt(c)
  BY DEF DataAt
<1> QED
  BY <1>1 DEF IInv, Counted, FinalLast

\* A step at which no call begins or ends.
LEMMA CallsStay ==
    ASSUME IInv, UNCHANGED <<pending, user, closer, sent, sentFinal, localClosed, buf,
                             wiredFinal, reader>>
    PROVE  Waiting' /\ Finals'
<1>1. Waiting'
  BY DEF IInv, Waiting
<1>2. Finals'
  BY DEF IInv, Finals
<1> QED
  BY <1>1, <1>2

\* A step that reads nothing and takes nothing from connLookup.
LEMMA ReadingStays ==
    ASSUME IInv, UNCHANGED <<closing, done, reader, incoming, peer, connLookup, gotFinal,
                             unread, nilConn>>
    PROVE  Reading' /\ NoNilConn'
<1>1. Reading'
  BY DEF IInv, Reading, ReaderOver, ReaderDone
<1>2. NoNilConn'
  BY DEF IInv, NoNilConn
<1> QED
  BY <1>1, <1>2

\* A variable that does not change keeps its type.
TypesStay ==
    /\ done' = done => done' \in BOOLEAN
    /\ shut' = shut => shut' \in BOOLEAN
    /\ connLookup' = connLookup => connLookup' \in SUBSET ConnID
    /\ reader' = reader => reader' \in {"start", "read", "pong", "final", "end"}
    /\ writer' = writer => writer' \in {"poll", "put", "flush", "block", "last", "end"}
    /\ serving' = serving => serving' \in {"first", "close", "second", "end"}
    /\ closing' = closing => closing' \in {"no", "reader", "conns", "done"}
    /\ todo' = todo => todo' \in SUBSET ConnID
    /\ closer' = closer => closer' \in SUBSET ConnID /\ Cardinality(closer') <= 1
    /\ shutting' = shutting => shutting' \in {"no", "loop", "wait", "timeout", "reader", "done"}
    /\ pending' = pending => \A g \in Caller : /\ pending'[g] \subseteq Frame
                                              /\ Cardinality(pending'[g]) <= 1
    /\ buf' = buf => Len(buf') <= BufCap + 1
    /\ user' = user => user' \in [ConnID -> UserState]
    /\ localClosed' = localClosed => localClosed' \in [ConnID -> BOOLEAN]
    /\ sentFinal' = sentFinal => sentFinal' \in [ConnID -> BOOLEAN]
    /\ gotFinal' = gotFinal => gotFinal' \in [ConnID -> BOOLEAN]
    /\ sent' = sent => sent' \in [ConnID -> 0..MaxData]
    /\ wired' = wired => wired' \in [ConnID -> 0..MaxData]
    /\ wiredFinal' = wiredFinal => wiredFinal' \in [ConnID -> BOOLEAN]
    /\ unread' = unread => unread' \in [ConnID -> 0..MaxData]
    /\ incoming' = incoming => incoming' \in ConnID
    /\ peer' = peer => peer' \in [ConnID -> 0..MaxData + 1]
    /\ cut' = cut => cut' \in BOOLEAN
    /\ handler' = handler => handler' \in BOOLEAN
    /\ nilConn' = nilConn => nilConn' \in BOOLEAN

\* TypeOK gives every unchanged variable its type after the step.
LEMMA UnchangedTypes == TypeOK => TypesStay
BY DEF TypeOK, TypesStay

\* A step that leaves the buffer and what waits alone.
LEMMA ShapeStays ==
    ASSUME IInv, UNCHANGED <<pending, buf, writer>>
    PROVE  Shape'
BY DEF IInv, Shape

----------------------------------------------------------------------------
\* NewMuxer and the start of ServeHTTP.
LEMMA InitIInv == Init => IInv
<1> SUFFICES ASSUME Init PROVE IInv
  OBVIOUS
<1>1. /\ \A c \in ConnID : /\ user[c] = "idle" /\ sentFinal[c] = FALSE
                           /\ gotFinal[c] = FALSE /\ wiredFinal[c] = FALSE
                           /\ sent[c] = 0 /\ wired[c] = 0 /\ unread[c] = 0
                           /\ peer[c] = IF c > 0 THEN MaxData + 1 ELSE 0
      /\ \A g \in Caller : pending[g] = {}
  BY Zenon DEF Init
<1>2. buf = <<>> /\ Len(buf) = 0 /\ DOMAIN buf = {} /\ buf \in Seq(Frame)
  BY DEF Init
<1>3. Shape
  <2>1. pending \in [Caller -> SUBSET Frame]
    BY Zenon DEF Init
  <2> QED
    BY <1>2, <2>1, MuxerAssumption DEF Shape
<1>4. TypeOK
  <2>1. /\ 0 \in 0..MaxData /\ 0 \in ConnID
        /\ peer \in [ConnID -> 0..MaxData + 1]
    BY MuxerAssumption DEF Init, ConnID
  <2>2. Cardinality(closer) <= 1 /\ Len(buf) <= BufCap + 1
    BY <1>2, FS_EmptySet, MuxerAssumption DEF Init
  <2>3. \A g \in Caller : pending[g] \subseteq Frame /\ Cardinality(pending[g]) <= 1
    BY <1>1, FS_EmptySet
  <2>4. user \in [ConnID -> UserState]
    BY DEF Init, UserState
  <2> QED
    BY <2>1, <2>2, <2>3, <2>4, Zenon DEF Init, TypeOK
<1>5. Waiting /\ Finals
  BY <1>1, <1>2, CallerFacts DEF Init, Waiting, Finals
<1>6. \A c \in ConnID : DataAt(c) = {} /\ Cardinality(DataAt(c)) = 0
  BY <1>2, FS_EmptySet DEF DataAt
<1>7. Counted /\ FinalLast
  BY <1>1, <1>2, <1>6 DEF Counted, FinalLast
<1>8. Reading /\ NoNilConn
  BY <1>1, MuxerAssumption DEF Init, Reading, NoNilConn
<1> QED
  BY <1>3, <1>4, <1>5, <1>7, <1>8 DEF IInv

----------------------------------------------------------------------------
(* WriteTo.                                                                *)

\* The selects of WriteTo and the end of a flush move no frame.
LEMMA WriterTurnsIInv ==
    ASSUME IInv, Poll \/ Block \/ Flushed
    PROVE  IInv'
<1> USE DEF ioVars, peerVars, endVars, userVars, histVars
<1>0. TypesStay
  BY UnchangedTypes DEF IInv
<1>1. TypeOK /\ Shape
  BY DEF IInv
<1>2. /\ UNCHANGED <<buf, wired, wiredFinal, incoming, peer, cut, handler>>
      /\ UNCHANGED <<reader, serving, done, shut, connLookup, closing, todo, closer,
                     shutting>>
      /\ UNCHANGED <<user, localClosed, sentFinal, gotFinal, pending, sent, unread, nilConn>>
  BY DEF Poll, Block, Flushed
<1>3. writer' \in {"flush", "block", "last", "end"}
  BY DEF Poll, Block, Flushed
<1>4. TypeOK'
  <2>1. writer' \in {"poll", "put", "flush", "block", "last", "end"}
    BY <1>3
  <2> QED
    BY <1>0, <1>2, <2>1, Zenon DEF TypeOK, TypesStay
<1>5. Shape'
  <2>1. CASE Poll
    BY <1>1, <1>2, <2>1 DEF Poll, Shape
  <2>2. CASE Block
    BY <1>1, <1>2, <2>2 DEF Block, Shape
  <2>3. CASE Flushed
    <3>1. writer' \notin {"put", "end"} => Len(buf) = 0
      BY <2>3 DEF Flushed
    <3> QED
      BY <1>1, <1>2, <3>1, MuxerAssumption DEF Shape
  <2> QED
    BY <2>1, <2>2, <2>3
<1> QED
  BY <1>2, <1>4, <1>5, BufferStays, CallsStay, ReadingStays DEF IInv

\* WriteTo puts f at the end of the buffer: f is a final frame that Close has
\* submitted, or its Conn has not been closed.
LEMMA ReceiveKeeps ==
    ASSUME IInv, NEW f \in Frame, Receive(f), UNCHANGED <<wired, wiredFinal>>,
           sent' = [sent EXCEPT ![f.conn] = IF f.kind = "data" THEN @ + 1 ELSE @],
           f.kind = "data" => ~sentFinal[f.conn]
    PROVE  /\ Counted' /\ FinalLast'
           /\ buf' \in Seq(Frame) /\ Len(buf') <= BufCap + 1
           /\ writer' \in {"put", "poll"}
           /\ writer' # "put" => Len(buf') <= BufCap
           /\ \A c \in ConnID : sent'[c] = IF f = FrameOf("data", c) THEN sent[c] + 1
                                                                     ELSE sent[c]
           /\ \A i \in DOMAIN buf' : buf'[i] = f \/ (i \in DOMAIN buf /\ buf'[i] = buf[i])
<1>1. TypeOK /\ Shape /\ Finals /\ Counted /\ FinalLast
  BY DEF IInv
<1>2. /\ buf \in Seq(Frame) /\ Len(buf) \in Nat /\ Len(buf) <= BufCap
      /\ DOMAIN buf = 1..Len(buf) /\ BufCap \in Nat
  BY <1>1, MuxerAssumption DEF Shape, Receive
<1>3. /\ buf' = Append(buf, f) /\ buf' \in Seq(Frame)
      /\ Len(buf') = Len(buf) + 1 /\ DOMAIN buf' = 1..(Len(buf) + 1)
      /\ buf'[Len(buf) + 1] = f
      /\ \A i \in 1..Len(buf) : buf'[i] = buf[i]
  BY <1>2, AppendProperties DEF Receive, Buffered
<1>4. \A i \in DOMAIN buf' : \/ i = Len(buf) + 1 /\ buf'[i] = f
                             \/ i \in DOMAIN buf /\ buf'[i] = buf[i]
  BY <1>2, <1>3
<1>5. /\ f.conn \in ConnID /\ f.kind \in Kind
      /\ \A c \in ConnID : f = FrameOf("data", c) <=> f.kind = "data" /\ f.conn = c
      /\ \A c \in ConnID : f = FrameOf("final", c) <=> f.kind = "final" /\ f.conn = c
  BY FrameFacts DEF Kind
<1>6. \A c \in ConnID : sent'[c] = IF f = FrameOf("data", c) THEN sent[c] + 1 ELSE sent[c]
  BY <1>1, <1>5 DEF TypeOK
<1>7. ASSUME NEW c \in ConnID
      PROVE  /\ f = FrameOf("data", c) => DataAt(c)' = DataAt(c) \cup {Len(buf) + 1}
             /\ f # FrameOf("data", c) => DataAt(c)' = DataAt(c)
             /\ Len(buf) + 1 \notin DataAt(c)
  BY <1>2, <1>3, <1>4 DEF DataAt
<1>8. Counted'
  <2> SUFFICES ASSUME NEW c \in ConnID
               PROVE  sent'[c] = wired[c] + Cardinality(DataAt(c)')
    BY DEF Counted
  <2>1. /\ IsFiniteSet(DataAt(c)) /\ Cardinality(DataAt(c)) \in Nat
        /\ sent[c] = wired[c] + Cardinality(DataAt(c)) /\ wired[c] \in Nat
    BY <1>1, DataFinite DEF Counted, TypeOK
  <2>2. CASE f = FrameOf("data", c)
    <3>1. Cardinality(DataAt(c)') = Cardinality(DataAt(c)) + 1
      BY <1>7, <2>1, <2>2, FS_AddElement
    <3> QED
      BY <1>6, <2>1, <2>2, <3>1
  <2>3. CASE f # FrameOf("data", c)
    BY <1>6, <1>7, <2>1, <2>3
  <2> QED
    BY <2>2, <2>3
<1>9. FinalLast'
  <2> SUFFICES ASSUME NEW c \in ConnID
               PROVE  /\ wiredFinal[c] => DataAt(c)' = {}
                      /\ \A i \in DOMAIN buf' : \A j \in DataAt(c)' :
                            buf'[i] = FrameOf("final", c) => j < i
    BY DEF FinalLast
  <2>1. f = FrameOf("data", c) => ~sentFinal[c]
    BY <1>5
  <2>2. f = FrameOf("data", c) => ~wiredFinal[c]
    BY <1>1, <2>1 DEF Finals
  <2>3. wiredFinal[c] => DataAt(c)' = {}
    BY <1>1, <1>7, <2>2 DEF FinalLast
  <2>4. ASSUME NEW i \in DOMAIN buf', NEW j \in DataAt(c)', buf'[i] = FrameOf("final", c)
        PROVE  j < i
    <3>1. CASE f = FrameOf("data", c)
      <4>1. buf'[i] # f
        BY <2>4, <3>1, FrameFacts DEF Kind
      <4>2. i \in DOMAIN buf /\ buf[i] = FrameOf("final", c)
        BY <1>4, <2>4, <4>1
      <4> QED
        BY <1>1, <2>1, <3>1, <4>2 DEF Finals
    <3>2. CASE f # FrameOf("data", c)
      <4>1. j \in DataAt(c) /\ j \in 1..Len(buf)
        BY <1>2, <1>7, <3>2 DEF DataAt
      <4>2. CASE i = Len(buf) + 1
        BY <1>2, <4>1, <4>2
      <4>3. CASE i # Len(buf) + 1
        BY <1>1, <1>4, <2>4, <4>1, <4>3 DEF FinalLast
      <4> QED
        BY <4>2, <4>3
    <3> QED
      BY <3>1, <3>2
  <2> QED
    BY <2>3, <2>4
<1>10. /\ writer' \in {"put", "poll"} /\ Len(buf') <= BufCap + 1
       /\ writer' # "put" => Len(buf') <= BufCap
  BY <1>2, <1>3 DEF Receive
<1> QED
  BY <1>3, <1>4, <1>6, <1>8, <1>9, <1>10

\* WriteTo takes a frame from a goroutine that waits.
LEMMA TakeIInv ==
    ASSUME IInv, NEW g \in Caller, Take(g)
    PROVE  IInv'
<1> USE DEF peerVars, endVars, userVars
<1>0. TypesStay
  BY UnchangedTypes DEF IInv
<1>1. TypeOK /\ Shape /\ Waiting /\ Finals /\ Reading /\ NoNilConn
  BY DEF IInv
<1>2. PICK f \in pending[g] :
          /\ Receive(f)
          /\ sent' = [sent EXCEPT ![f.conn] = IF f.kind = "data" THEN @ + 1 ELSE @]
  BY DEF Take
<1>3. /\ pending' = [pending EXCEPT ![g] = {}]
      /\ reader' = IF g = ReaderG THEN "read" ELSE reader
      /\ UNCHANGED <<wired, wiredFinal, incoming, peer, cut, handler, serving>>
      /\ UNCHANGED <<done, shut, connLookup, closing, todo, closer, shutting>>
      /\ UNCHANGED <<user, localClosed, sentFinal, gotFinal, unread, nilConn>>
  BY DEF Take
<1>4. f \in Frame
  BY <1>1 DEF Shape
<1>5. ASSUME NEW c \in ConnID
      PROVE  /\ f = FrameOf("data", c) => /\ g = c /\ ~sentFinal[c]
                                          /\ sent[c] < MaxData
             /\ f = FrameOf("final", c) => sentFinal[c]
  <2>1. CASE g \in ConnID
    <3>1. \/ /\ user[g] \in {"call", "ack", "lock"}
             /\ f \in {FrameOf("data", g), FrameOf("ack", g)}
          \/ user[g] = "final" /\ f = FrameOf("final", g)
      BY <1>1, <2>1 DEF Waiting
    <3>2. /\ f = FrameOf("data", c) => g = c /\ user[c] \in {"call", "ack", "lock"}
          /\ f = FrameOf("final", c) => g = c /\ user[c] = "final"
      BY <2>1, <3>1, FrameFacts DEF Kind
    <3> QED
      BY <1>1, <3>2 DEF Finals, Waiting
  <2>2. CASE g = ReaderG
    BY <1>1, <2>2, FrameFacts, CallerFacts DEF Waiting, Kind
  <2>3. CASE g = CloserG
    <3>1. PICK d \in closer : f = FrameOf("final", d)
      BY <1>1, <2>3 DEF Waiting
    <3>2. d \in ConnID
      BY <1>1 DEF TypeOK
    <3>3. f # FrameOf("data", c)
      BY <3>1, <3>2, FrameFacts DEF Kind
    <3> QED
      BY <1>1, <2>3, <3>3 DEF Finals
  <2> QED
    BY <2>1, <2>2, <2>3, CallerFacts
<1>6. f.kind = "data" => ~sentFinal[f.conn]
  <2>1. f.conn \in ConnID /\ f = FrameOf(f.kind, f.conn)
    BY <1>4, FrameFacts
  <2> QED
    BY <1>5, <2>1
<1>7. /\ Counted' /\ FinalLast'
      /\ buf' \in Seq(Frame) /\ Len(buf') <= BufCap + 1
      /\ writer' \in {"put", "poll"}
      /\ writer' # "put" => Len(buf') <= BufCap
      /\ \A c \in ConnID : sent'[c] = IF f = FrameOf("data", c) THEN sent[c] + 1
                                                                ELSE sent[c]
      /\ \A i \in DOMAIN buf' : buf'[i] = f \/ (i \in DOMAIN buf /\ buf'[i] = buf[i])
  BY <1>2, <1>3, <1>4, <1>6, ReceiveKeeps
<1>8. /\ pending' \in [Caller -> SUBSET Frame]
      /\ \A h \in Caller : pending'[h] = IF h = g THEN {} ELSE pending[h]
      /\ \A h \in Caller : pending'[h] \subseteq Frame /\ Cardinality(pending'[h]) <= 1
  BY <1>1, <1>3, PendingChanges
<1>9. Shape'
  BY <1>7, <1>8 DEF Shape
<1>10. TypeOK'
  <2>1. sent' \in [ConnID -> 0..MaxData]
    <3>1. ASSUME NEW c \in ConnID PROVE sent'[c] \in 0..MaxData
      <4>1. sent[c] \in 0..MaxData /\ MaxData \in Nat
        BY <1>1, MuxerAssumption DEF TypeOK
      <4>2. f = FrameOf("data", c) => sent[c] < MaxData
        BY <1>5
      <4> QED
        BY <1>7, <4>1, <4>2
    <3>2. DOMAIN sent' = ConnID /\ sent' = [c \in ConnID |-> sent'[c]]
      BY <1>1, <1>2 DEF TypeOK
    <3> QED
      BY <3>1, <3>2
  <2>2. /\ writer' \in {"poll", "put", "flush", "block", "last", "end"}
        /\ reader' \in {"start", "read", "pong", "final", "end"}
    BY <1>1, <1>3, <1>7 DEF TypeOK
  <2> QED
    BY <1>0, <1>3, <1>7, <1>8, <2>1, <2>2, Zenon DEF TypeOK, TypesStay
<1>11. Waiting'
  <2>1. ASSUME NEW c \in ConnID, FrameOf("data", c) \in pending'[c]
        PROVE  sent'[c] < MaxData
    <3>1. g # c /\ FrameOf("data", c) \in pending[c]
      BY <1>8, <2>1, CallerFacts
    <3>2. f # FrameOf("data", c)
      BY <1>5, <3>1
    <3> QED
      BY <1>1, <1>7, <3>1, <3>2 DEF Waiting
  <2>2. \A h \in Caller : pending'[h] \subseteq pending[h]
    BY <1>8
  <2>3. reader' # "pong" => pending'[ReaderG] = {}
    <3>1. CASE g = ReaderG
      BY <1>8, <3>1, CallerFacts
    <3>2. CASE g # ReaderG
      BY <1>1, <1>8, <2>2, <3>2, CallerFacts DEF Take, Waiting
    <3> QED
      BY <3>1, <3>2
  <2> QED
    BY <1>1, <1>3, <2>1, <2>2, <2>3, CallerFacts DEF Waiting
<1>12. Finals'
  <2>1. \A c \in ConnID : f = FrameOf("final", c) => sentFinal[c]
    BY <1>5
  <2>2. pending'[CloserG] \subseteq pending[CloserG]
    BY <1>8, CallerFacts
  <2> QED
    BY <1>1, <1>3, <1>7, <2>1, <2>2 DEF Finals
<1>13. Reading' /\ NoNilConn'
  <2>1. g = ReaderG => reader = "pong"
    BY <1>1, <1>2 DEF Waiting
  <2> QED
    BY <1>1, <1>3, <2>1 DEF Reading, ReaderOver, ReaderDone, NoNilConn
<1> QED
  BY <1>7, <1>9, <1>10, <1>11, <1>12, <1>13 DEF IInv

\* WriteTo takes the frame of a Ping, which is no Conn's.
LEMMA PingIInv ==
    ASSUME IInv, Ping
    PROVE  IInv'
<1> USE DEF peerVars, endVars, userVars, histVars
<1>0. TypesStay
  BY UnchangedTypes DEF IInv
<1>1. TypeOK /\ Shape /\ Waiting /\ Finals
  BY DEF IInv
<1>2. /\ Receive(FrameOf("ping", 0))
      /\ UNCHANGED <<wired, wiredFinal, incoming, peer, cut, handler, reader, serving>>
      /\ UNCHANGED <<done, shut, connLookup, closing, todo, closer, shutting>>
      /\ UNCHANGED <<user, localClosed, sentFinal, gotFinal, sent, unread, nilConn, pending>>
  BY DEF Ping
<1>3. /\ FrameOf("ping", 0) \in Frame
      /\ FrameOf("ping", 0).kind = "ping" /\ FrameOf("ping", 0).conn = 0
      /\ \A c \in ConnID : FrameOf("ping", 0) # FrameOf("final", c)
  BY FrameFacts, CallerFacts DEF Kind
<1>4. sent' = [sent EXCEPT ![FrameOf("ping", 0).conn] =
                   IF FrameOf("ping", 0).kind = "data" THEN @ + 1 ELSE @]
  BY <1>1, <1>2, <1>3, CallerFacts DEF TypeOK
<1>5. /\ Counted' /\ FinalLast'
      /\ buf' \in Seq(Frame) /\ Len(buf') <= BufCap + 1
      /\ writer' \in {"put", "poll"}
      /\ writer' # "put" => Len(buf') <= BufCap
      /\ \A i \in DOMAIN buf' : buf'[i] = FrameOf("ping", 0)
                                \/ (i \in DOMAIN buf /\ buf'[i] = buf[i])
  BY <1>2, <1>3, <1>4, ReceiveKeeps
<1>6. TypeOK'
  <2>1. writer' \in {"poll", "put", "flush", "block", "last", "end"}
    BY <1>5
  <2> QED
    BY <1>0, <1>2, <1>5, <2>1, Zenon DEF TypeOK, TypesStay
<1>7. Shape'
  BY <1>1, <1>2, <1>5 DEF Shape
<1>8. Waiting'
  BY <1>1, <1>2 DEF Waiting
<1>9. Finals'
  BY <1>1, <1>2, <1>3, <1>5 DEF Finals
<1> QED
  BY <1>2, <1>5, <1>6, <1>7, <1>8, <1>9, ReadingStays DEF IInv

\* Moving every position of a set down by one does not change its size.
LEMMA ShiftedDown ==
    ASSUME NEW S \in SUBSET Nat, IsFiniteSet(S), NEW T \in SUBSET Nat,
           \A i \in Nat : i \in T <=> i + 1 \in S, 0 \notin S
    PROVE  Cardinality(T) = Cardinality(S)
<1> DEFINE f == [i \in S |-> i - 1]
<1>1. \A i \in S : i - 1 \in T /\ (i - 1) + 1 = i
  OBVIOUS
<1>2. f \in Injection(S, T)
  <2>1. f \in [S -> T]
    BY <1>1
  <2>2. \A a, b \in S : f[a] = f[b] => a = b
    OBVIOUS
  <2> QED
    BY <2>1, <2>2 DEF Injection, IsInjective
<1>3. f \in Surjection(S, T)
  <2>1. f \in [S -> T]
    BY <1>1
  <2>2. \A t \in T : \E i \in S : f[i] = t
    <3> SUFFICES ASSUME NEW t \in T PROVE \E i \in S : f[i] = t
      OBVIOUS
    <3>1. t + 1 \in S /\ f[t + 1] = t
      OBVIOUS
    <3> QED
      BY <3>1
  <2> QED
    BY <2>1, <2>2 DEF Surjection
<1>4. ExistsBijection(S, T)
  BY <1>2, <1>3 DEF ExistsBijection, Bijection
<1> QED
  BY <1>4, FS_Bijection

\* A frame of the buffer reaches the network: the first one, so that a final
\* frame has no data frame of its Conn left behind it.
LEMMA WriteIInv ==
    ASSUME IInv, Write
    PROVE  IInv'
<1> USE DEF peerVars, endVars, userVars, histVars
<1>0. TypesStay
  BY UnchangedTypes DEF IInv
<1>1. TypeOK /\ Shape /\ Waiting /\ Finals /\ Counted /\ FinalLast
  BY DEF IInv
<1> DEFINE f == buf[1]
<1>2. /\ UNCHANGED <<incoming, peer, cut, handler, reader, serving>>
      /\ UNCHANGED <<done, shut, connLookup, closing, todo, closer, shutting>>
      /\ UNCHANGED <<user, localClosed, sentFinal, gotFinal, sent, unread, nilConn, pending>>
  BY DEF Write
<1>3. /\ buf \in Seq(Frame) /\ buf # <<>> /\ Len(buf) \in Nat /\ Len(buf) > 0
      /\ DOMAIN buf = 1..Len(buf) /\ f \in Frame /\ Head(buf) = f
  BY <1>1, HeadTailProperties DEF Write, Push, Shape
<1>4. /\ buf' \in Seq(Frame) /\ Len(buf') = Len(buf) - 1 /\ DOMAIN buf' = 1..(Len(buf) - 1)
      /\ \A i \in 1..(Len(buf) - 1) : buf'[i] = buf[i + 1] /\ i + 1 \in DOMAIN buf
  BY <1>3, HeadTailProperties DEF Write, Push
<1>5. /\ wired' = [wired EXCEPT ![f.conn] = IF f.kind = "data" THEN @ + 1 ELSE @]
      /\ wiredFinal' = [wiredFinal EXCEPT ![f.conn] = @ \/ f.kind = "final"]
  BY <1>3 DEF Write, Push
<1>6. /\ f.conn \in ConnID /\ f.kind \in Kind
      /\ \A c \in ConnID : f = FrameOf("data", c) <=> f.kind = "data" /\ f.conn = c
      /\ \A c \in ConnID : f = FrameOf("final", c) <=> f.kind = "final" /\ f.conn = c
  BY <1>3, FrameFacts DEF Kind
<1>7. /\ \A c \in ConnID : wired'[c] = IF f = FrameOf("data", c) THEN wired[c] + 1 ELSE wired[c]
      /\ \A c \in ConnID : wiredFinal'[c] <=> wiredFinal[c] \/ f = FrameOf("final", c)
      /\ wiredFinal' \in [ConnID -> BOOLEAN]
  <2>1. \A c \in ConnID : wired'[c] = IF f = FrameOf("data", c) THEN wired[c] + 1 ELSE wired[c]
    BY <1>1, <1>5, <1>6 DEF TypeOK
  <2>2. \A c \in ConnID : wiredFinal'[c] <=> wiredFinal[c] \/ f = FrameOf("final", c)
    <3> HIDE DEF f
    <3>1. wiredFinal \in [ConnID -> BOOLEAN]
      BY <1>1 DEF TypeOK
    <3>2. \A c \in ConnID : wiredFinal'[c] = IF c = f.conn THEN wiredFinal[c] \/ f.kind = "final"
                                                          ELSE wiredFinal[c]
      BY <1>5, <3>1, Zenon
    <3> QED
      BY <1>6, <3>2, Zenon
  <2>3. wiredFinal' \in [ConnID -> BOOLEAN]
    BY <1>1, <1>5, Zenon DEF TypeOK
  <2> QED
    BY <2>1, <2>2, <2>3
<1>8. \A c \in ConnID : \A i \in Nat : i \in DataAt(c)' <=> i + 1 \in DataAt(c) /\ i # 0
  BY <1>3, <1>4 DEF DataAt
<1> HIDE DEF f
<1>9. ASSUME NEW c \in ConnID
      PROVE  sent[c] = wired'[c] + Cardinality(DataAt(c)') /\ wired'[c] \in Nat
  <2>1. /\ IsFiniteSet(DataAt(c)) /\ Cardinality(DataAt(c)) \in Nat
        /\ sent[c] = wired[c] + Cardinality(DataAt(c)) /\ wired[c] \in Nat
    BY <1>1, DataFinite DEF Counted, TypeOK
  <2>2. IsFiniteSet(DataAt(c) \ {1})
    BY <2>1, FS_RemoveElement
  <2>3. Cardinality(DataAt(c)') = Cardinality(DataAt(c) \ {1})
    <3>1. 0 \notin DataAt(c) /\ DataAt(c) \subseteq Nat /\ DataAt(c)' \subseteq Nat
      BY <1>3, <1>4 DEF DataAt
    <3>2. \A i \in Nat : i \in DataAt(c)' <=> i + 1 \in DataAt(c) \ {1}
      BY <1>8
    <3> QED
      BY <2>2, <3>1, <3>2, ShiftedDown
  <2>4. 1 \in DataAt(c) <=> f = FrameOf("data", c)
    BY <1>3 DEF DataAt, f
  <2>5. Cardinality(DataAt(c) \ {1}) = IF f = FrameOf("data", c)
                                       THEN Cardinality(DataAt(c)) - 1
                                       ELSE Cardinality(DataAt(c))
    BY <2>1, <2>4, FS_RemoveElement
  <2> QED
    BY <1>7, <2>1, <2>3, <2>5
<1>10. Counted'
  BY <1>2, <1>9 DEF Counted
<1>11. FinalLast'
  <2> SUFFICES ASSUME NEW c \in ConnID
               PROVE  /\ wiredFinal'[c] => DataAt(c)' = {}
                      /\ \A i \in DOMAIN buf' : \A j \in DataAt(c)' :
                            buf'[i] = FrameOf("final", c) => j < i
    BY DEF FinalLast
  <2>1. \A j \in DataAt(c)' : j \in Nat /\ j # 0 /\ j + 1 \in DataAt(c)
    BY <1>4, <1>8 DEF DataAt
  <2>2. wiredFinal'[c] => DataAt(c)' = {}
    <3>1. CASE wiredFinal[c]
      BY <1>1, <2>1, <3>1 DEF FinalLast
    <3>2. CASE f = FrameOf("final", c)
      <4>1. 1 \in DOMAIN buf /\ buf[1] = FrameOf("final", c)
        BY <1>3, <3>2 DEF f
      <4>2. \A j \in DataAt(c) : j < 1
        BY <1>1, <4>1 DEF FinalLast
      <4> QED
        BY <2>1, <4>2
    <3> QED
      BY <1>7, <3>1, <3>2
  <2>3. ASSUME NEW i \in DOMAIN buf', NEW j \in DataAt(c)', buf'[i] = FrameOf("final", c)
        PROVE  j < i
    <3>1. i + 1 \in DOMAIN buf /\ buf[i + 1] = FrameOf("final", c) /\ i \in Nat
      BY <1>3, <1>4, <2>3
    <3>2. j + 1 < i + 1
      BY <1>1, <2>1, <3>1 DEF FinalLast
    <3> QED
      BY <2>1, <3>1, <3>2
  <2> QED
    BY <2>2, <2>3
<1>12. TypeOK'
  <2>1. wired' \in [ConnID -> 0..MaxData]
    <3>1. ASSUME NEW c \in ConnID PROVE wired'[c] \in 0..MaxData
      <4>1. sent[c] \in 0..MaxData /\ MaxData \in Nat
        BY <1>1, MuxerAssumption DEF TypeOK
      <4>2. Cardinality(DataAt(c)') \in Nat
        <5>1. \A i \in DataAt(c)' : i \in 1..(Len(buf) - 1)
          BY <1>4 DEF DataAt
        <5>2. IsFiniteSet(1..(Len(buf) - 1))
          BY <1>3, FS_Interval
        <5> QED
          BY <5>1, <5>2, FS_Subset, FS_CardinalityType
      <4> QED
        BY <1>9, <4>1, <4>2
    <3>2. DOMAIN wired' = ConnID /\ wired' = [c \in ConnID |-> wired'[c]]
      BY <1>1, <1>5 DEF TypeOK
    <3> QED
      BY <3>1, <3>2
  <2>2. writer' \in {"poll", "put", "flush", "block", "last", "end"}
    BY <1>1 DEF TypeOK, Write
  <2>3. Len(buf') <= BufCap + 1
    BY <1>1, <1>3, <1>4, MuxerAssumption DEF TypeOK
  <2> QED
    BY <1>0, <1>2, <1>7, <2>1, <2>2, <2>3, Zenon DEF TypeOK, TypesStay
<1>13. Shape'
  <2>1. writer' \notin {"put", "end"} => Len(buf') <= BufCap
    BY <1>1, <1>3, <1>4, MuxerAssumption DEF Shape, Write
  <2> QED
    BY <1>1, <1>2, <1>4, <2>1 DEF Shape
<1>14. Waiting'
  BY <1>1, <1>2 DEF Waiting
<1>15. Finals'
  <2>1. \A c \in ConnID : f = FrameOf("final", c) => sentFinal[c]
    BY <1>1, <1>3 DEF Finals, f
  <2>2. \A i \in DOMAIN buf' : \E j \in DOMAIN buf : buf'[i] = buf[j]
    BY <1>3, <1>4
  <2> QED
    BY <1>1, <1>2, <1>7, <2>1, <2>2 DEF Finals
<1> QED
  BY <1>2, <1>10, <1>11, <1>12, <1>13, <1>14, <1>15, ReadingStays DEF IInv

----------------------------------------------------------------------------
(* ReadFrom.                                                               *)

\* ReadFrom starts, fails, or reads a control frame; the answer to a ping
\* waits for the writer.
LEMMA ReaderTurnsIInv ==
    ASSUME IInv, ReadStart \/ ReadFails \/ ReadControl
    PROVE  IInv'
<1> USE DEF ioVars, peerVars, endVars, userVars, histVars
<1>0. TypesStay
  BY UnchangedTypes DEF IInv
<1>1. TypeOK /\ Shape /\ Waiting /\ Finals /\ Reading /\ NoNilConn
  BY DEF IInv
<1>2. /\ UNCHANGED <<buf, wired, wiredFinal, incoming, peer, cut, handler, writer, serving>>
      /\ UNCHANGED <<done, shut, connLookup, closing, todo, closer, shutting>>
      /\ UNCHANGED <<user, localClosed, sentFinal, gotFinal, sent, unread, nilConn>>
  BY DEF ReadStart, ReadFails, ReadControl
<1>3. /\ pending' = pending \/ Offer(ReaderG, FrameOf("pong", 0))
      /\ reader' \in {"read", "pong", "end"}
  BY DEF ReadStart, ReadFails, ReadControl, Reads
<1>4. /\ pending' \in [Caller -> SUBSET Frame]
      /\ \A h \in Caller : \/ pending'[h] = pending[h]
                           \/ h = ReaderG /\ pending'[h] = {FrameOf("pong", 0)}
      /\ \A h \in Caller : pending'[h] \subseteq Frame /\ Cardinality(pending'[h]) <= 1
  <2>1. CASE pending' = pending
    BY <1>1, <2>1 DEF Shape, TypeOK
  <2>2. CASE Offer(ReaderG, FrameOf("pong", 0))
    <3>1. FrameOf("pong", 0) \in Frame /\ ReaderG \in Caller
      BY FrameFacts, CallerFacts DEF Kind
    <3>2. pending' = [pending EXCEPT ![ReaderG] = {FrameOf("pong", 0)}]
      BY <2>2 DEF Offer
    <3> QED
      BY <1>1, <3>1, <3>2, PendingChanges
  <2> QED
    BY <1>3, <2>1, <2>2
<1>5. TypeOK'
  <2>1. reader' \in {"start", "read", "pong", "final", "end"}
    BY <1>3
  <2> QED
    BY <1>0, <1>2, <1>4, <2>1, Zenon DEF TypeOK, TypesStay
<1>6. Shape'
  BY <1>1, <1>2, <1>4 DEF Shape
<1>7. \A h \in Caller : h # ReaderG => pending'[h] = pending[h]
  BY <1>4
<1>8. Waiting'
  <2>1. reader' # "pong" => pending'[ReaderG] = {}
    <3>1. reader' # "pong" => pending' = pending /\ reader # "pong"
      BY DEF ReadStart, ReadFails, ReadControl, Reads
    <3> QED
      BY <1>1, <3>1 DEF Waiting
  <2>2. pending'[ReaderG] \subseteq {FrameOf("pong", 0)}
    BY <1>1, <1>4, CallerFacts DEF Waiting
  <2> QED
    BY <1>1, <1>2, <1>7, <2>1, <2>2, CallerFacts DEF Waiting
<1>9. Finals'
  BY <1>1, <1>2, <1>7, CallerFacts DEF Finals
<1>10. Reading' /\ NoNilConn'
  <2>1. ReaderOver => ReaderOver'
    BY <1>2 DEF ReadStart, ReadFails, ReadControl, Reads, ReaderOver, ReaderDone
  <2> QED
    BY <1>1, <1>2, <1>3, <2>1 DEF Reading, NoNilConn
<1> QED
  BY <1>2, <1>5, <1>6, <1>8, <1>9, <1>10, BufferStays DEF IInv

\* ReadFrom reads a frame for a Conn and finds the Conn.
LEMMA ReadConnIInv ==
    ASSUME IInv, NEW c \in ConnID, NEW kind \in {"data", "ack", "final"},
           ReadConn(kind, c)
    PROVE  IInv'
<1> USE DEF ioVars, endVars
<1>0. TypesStay
  BY UnchangedTypes DEF IInv
<1>1. TypeOK /\ Shape /\ Waiting /\ Finals /\ Reading /\ NoNilConn
  BY DEF IInv
<1>2. /\ UNCHANGED <<buf, wired, wiredFinal, cut, handler, writer, serving>>
      /\ UNCHANGED <<done, shut, connLookup, closing, todo, closer, shutting>>
      /\ UNCHANGED <<localClosed, sentFinal, gotFinal, sent, pending>>
      /\ reader = "read" /\ ~ReaderOver
  BY DEF ReadConn, Reads, ReaderOver, ReaderDone
<1>3. /\ peer[c] > 0 /\ (peer[c] = 1 => kind = "final")
      /\ peer' = [peer EXCEPT ![c] = IF kind = "final" THEN 0 ELSE peer[c] - 1]
  BY DEF ReadConn, PeerWrites
<1>4. /\ \A d \in ConnID : unread[d] \in 0..MaxData /\ peer[d] \in 0..MaxData + 1
      /\ MaxData \in Nat
  BY <1>1, MuxerAssumption DEF TypeOK
<1>5. c \in connLookup
  BY <1>1, <1>2, <1>3, <1>4 DEF Reading
<1>6. /\ user' = [user EXCEPT ![c] = IF handler /\ user[c] = "idle" THEN "open" ELSE user[c]]
      /\ unread' = [unread EXCEPT ![c] = IF kind = "data" THEN unread[c] + 1 ELSE unread[c]]
      /\ reader' = IF kind = "final" THEN "final" ELSE reader
      /\ incoming' = IF kind = "final" THEN c ELSE incoming
      /\ nilConn' = nilConn
  BY <1>5 DEF ReadConn
<1>7. /\ \A d \in ConnID : peer'[d] = IF d = c THEN (IF kind = "final" THEN 0 ELSE peer[c] - 1)
                                               ELSE peer[d]
      /\ \A d \in ConnID : unread'[d] = IF d = c /\ kind = "data" THEN unread[d] + 1
                                                                  ELSE unread[d]
      /\ \A d \in ConnID : user'[d] = user[d] \/ (user[d] = "idle" /\ user'[d] = "open")
  BY <1>1, <1>3, <1>6 DEF TypeOK
<1>8. TypeOK'
  <2>1. /\ (IF kind = "final" THEN 0 ELSE peer[c] - 1) \in 0..MaxData + 1
        /\ (IF kind = "data" THEN unread[c] + 1 ELSE unread[c]) \in 0..MaxData
    BY <1>1, <1>3, <1>4 DEF Reading
  <2>2. peer' \in [ConnID -> 0..MaxData + 1] /\ unread' \in [ConnID -> 0..MaxData]
    BY <1>1, <1>3, <1>6, <2>1, Zenon DEF TypeOK
  <2>3. user' \in [ConnID -> UserState]
    BY <1>1, <1>6 DEF TypeOK, UserState
  <2>4. reader' \in {"start", "read", "pong", "final", "end"} /\ incoming' \in ConnID
    BY <1>1, <1>6 DEF TypeOK
  <2>5. nilConn' = nilConn
    BY <1>6
  <2> QED
    BY <1>0, <1>2, <2>2, <2>3, <2>4, <2>5, Zenon DEF TypeOK, TypesStay
<1>9. Shape'
  BY <1>2, ShapeStays
<1>10. Waiting'
  <2>1. pending'[ReaderG] = {}
    BY <1>1, <1>2 DEF Waiting
  <2> QED
    BY <1>1, <1>2, <1>7, <2>1 DEF Waiting
<1>11. Finals'
  BY <1>1, <1>2, <1>7 DEF Finals
<1>12. Reading' /\ NoNilConn'
  <2>1. \A d \in ConnID : /\ peer[d] = 0 => peer'[d] = 0
                          /\ unread'[d] + peer'[d] <= MaxData + 1
    BY <1>1, <1>3, <1>4, <1>7 DEF Reading
  <2>2. reader' = "final" => peer'[incoming'] = 0
    BY <1>2, <1>6, <1>7
  <2> QED
    BY <1>1, <1>2, <1>6, <2>1, <2>2 DEF Reading, NoNilConn
<1> QED
  BY <1>2, <1>8, <1>9, <1>10, <1>11, <1>12, BufferStays DEF IInv

\* receivedFinal: the peer writes no more to the Conn.
LEMMA SubmitFinalIInv ==
    ASSUME IInv, SubmitFinal
    PROVE  IInv'
<1> USE DEF ioVars, endVars, histVars
<1>0. TypesStay
  BY UnchangedTypes DEF IInv
<1>1. TypeOK /\ Shape /\ Waiting /\ Finals /\ Reading /\ NoNilConn
  BY DEF IInv
<1>2. /\ UNCHANGED <<buf, wired, wiredFinal, peer, cut, handler, writer, serving>>
      /\ UNCHANGED <<done, shut, connLookup, closing, todo, closer, shutting>>
      /\ UNCHANGED <<user, localClosed, sentFinal, sent, unread, nilConn, pending>>
      /\ reader = "final" /\ reader' = "read" /\ incoming' = 0
      /\ gotFinal' = [gotFinal EXCEPT ![incoming] = TRUE]
  BY DEF SubmitFinal
<1>3. TypeOK'
  <2>1. gotFinal' \in [ConnID -> BOOLEAN]
    BY <1>1, <1>2, Zenon DEF TypeOK
  <2>2. reader' \in {"start", "read", "pong", "final", "end"} /\ incoming' \in ConnID
    BY <1>2, CallerFacts
  <2> QED
    <3>1. /\ UNCHANGED <<buf, wired, wiredFinal, peer, cut, handler, writer, serving>>
          /\ UNCHANGED <<done, shut, connLookup, closing, todo, closer, shutting>>
          /\ UNCHANGED <<user, localClosed, sentFinal, sent, unread, nilConn, pending>>
      BY <1>2
    <3> QED
      BY <1>0, <2>1, <2>2, <3>1, Zenon DEF TypeOK, TypesStay
<1>4. Reading' /\ NoNilConn'
  <2>1. ASSUME NEW c \in ConnID, gotFinal'[c]
        PROVE  gotFinal[c] \/ c = incoming
    BY <1>1, <1>2, <2>1, Zenon DEF TypeOK
  <2>2. ~ReaderOver
    BY <1>2 DEF ReaderOver, ReaderDone
  <2> QED
    BY <1>1, <1>2, <2>1, <2>2 DEF Reading, NoNilConn
<1>5. Waiting'
  <2>1. pending'[ReaderG] = {}
    BY <1>1, <1>2 DEF Waiting
  <2> QED
    BY <1>1, <1>2, <2>1 DEF Waiting
<1>6. Finals'
  BY <1>1, <1>2 DEF Finals
<1> QED
  BY <1>2, <1>3, <1>4, <1>5, <1>6, BufferStays, ShapeStays DEF IInv

----------------------------------------------------------------------------
(* The users of Conns.                                                     *)

\* NewConn, calls that return, and copies that begin or end.
LEMMA UserTurnsIInv ==
    ASSUME IInv, NEW c \in ConnID,
           \/ NewConn(c) \/ CallReturns(c) \/ Copy(c) \/ ConnCloseReturns(c)
           \/ CopyReturns(c) /\ UNCHANGED pending
    PROVE  IInv'
<1> USE DEF ioVars, peerVars, goVars, endVars, histVars
<1>0. TypesStay
  BY UnchangedTypes DEF IInv
<1>1. TypeOK /\ Shape /\ Waiting /\ Finals /\ Reading /\ NoNilConn
  BY DEF IInv
<1>2. /\ UNCHANGED <<buf, wired, wiredFinal, incoming, peer, cut, handler>>
      /\ UNCHANGED <<reader, writer, serving, done, shut, closing, todo, closer, shutting>>
      /\ UNCHANGED <<localClosed, sentFinal, gotFinal, sent, unread, nilConn, pending>>
  BY DEF NewConn, CallReturns, Copy, CopyReturns, ConnCloseReturns
<1>3. /\ connLookup' = connLookup \/ connLookup' = connLookup \cup {c}
      /\ \E label \in {"open", "copy", "closed"} : user' = [user EXCEPT ![c] = label]
      /\ user[c] \in {"idle", "open", "copy"} \/ pending[c] = {}
  <2>1. CASE CopyReturns(c) /\ UNCHANGED pending
    <3>1. pending[c] = {}
      BY <1>1, <2>1 DEF CopyReturns, Waiting
    <3>2. ~Offer(c, FrameOf("data", c))
      BY <1>1, <2>1, <3>1, CallerFacts DEF Offer, Shape
    <3> QED
      BY <2>1, <3>1, <3>2 DEF CopyReturns
  <2>2. CASE NewConn(c) \/ CallReturns(c) \/ Copy(c) \/ ConnCloseReturns(c)
    BY <2>2 DEF NewConn, CallReturns, Copy, ConnCloseReturns, Returned
  <2> QED
    BY <2>1, <2>2
<1>4. \A d \in ConnID : \/ user'[d] = user[d]
                        \/ d = c /\ user'[d] \in {"open", "copy", "closed"}
  BY <1>1, <1>3 DEF TypeOK
<1>5. TypeOK'
  <2>1. user' \in [ConnID -> UserState]
    BY <1>1, <1>3 DEF TypeOK, UserState
  <2>2. connLookup' \in SUBSET ConnID
    BY <1>1, <1>3 DEF TypeOK
  <2> QED
    BY <1>0, <1>2, <2>1, <2>2, Zenon DEF TypeOK, TypesStay
<1>6. pending[c] = {}
  BY <1>1, <1>3 DEF Waiting
<1>7. Waiting'
  BY <1>1, <1>2, <1>4, <1>6 DEF Waiting
<1>8. Finals'
  BY <1>1, <1>2, <1>4 DEF Finals
<1>9. Reading' /\ NoNilConn'
  BY <1>1, <1>2, <1>3 DEF Reading, NoNilConn, ReaderOver, ReaderDone
<1> QED
  BY <1>2, <1>5, <1>7, <1>8, <1>9, BufferStays, ShapeStays DEF IInv

\* Write and Read of an open Conn, and a copy whose source has data, wait with
\* a data frame or an ack.
LEMMA CallIInv ==
    ASSUME IInv, NEW c \in ConnID,
           Call(c) \/ (CopyReturns(c) /\ pending' # pending)
    PROVE  IInv'
<1> USE DEF ioVars, peerVars, goVars, endVars, histVars
<1>0. TypesStay
  BY UnchangedTypes DEF IInv
<1>1. TypeOK /\ Shape /\ Waiting /\ Finals /\ Reading /\ NoNilConn
  BY DEF IInv
<1>2. /\ UNCHANGED <<buf, wired, wiredFinal, incoming, peer, cut, handler>>
      /\ UNCHANGED <<reader, writer, serving, done, shut, connLookup, closing, todo, closer,
                     shutting>>
      /\ UNCHANGED <<localClosed, sentFinal, gotFinal, sent, nilConn>>
      /\ ~localClosed[c]
      /\ \E label \in {"call", "ack"} : user' = [user EXCEPT ![c] = label]
  BY DEF Call, CopyReturns
<1>3. PICK f \in {FrameOf("data", c), FrameOf("ack", c)} :
          /\ pending' = [pending EXCEPT ![c] = {f}]
          /\ f = FrameOf("data", c) => sent[c] < MaxData
          /\ \/ unread' = unread
             \/ unread[c] > 0 /\ unread' = [unread EXCEPT ![c] = unread[c] - 1]
  <2>1. FrameOf("data", c) # FrameOf("ack", c)
    BY FrameFacts DEF Kind
  <2> QED
    BY <2>1 DEF Call, CopyReturns, Offer
<1>4. f \in Frame
  BY FrameFacts DEF Kind
<1>5. /\ pending' \in [Caller -> SUBSET Frame]
      /\ \A h \in Caller : pending'[h] = IF h = c THEN {f} ELSE pending[h]
      /\ \A h \in Caller : pending'[h] \subseteq Frame /\ Cardinality(pending'[h]) <= 1
  BY <1>1, <1>3, <1>4, CallerFacts, PendingChanges
<1>6. /\ \A d \in ConnID : d # c => user'[d] = user[d]
      /\ user'[c] \in {"call", "ack"}
  BY <1>1, <1>2 DEF TypeOK
<1>7. /\ unread' \in [ConnID -> 0..MaxData]
      /\ \A d \in ConnID : unread'[d] <= unread[d] /\ unread'[d] \in Int /\ unread[d] \in Int
  <2>1. CASE unread' = unread
    BY <1>1, <2>1, MuxerAssumption DEF TypeOK
  <2>2. CASE unread[c] > 0 /\ unread' = [unread EXCEPT ![c] = unread[c] - 1]
    <3>1. unread[c] \in 0..MaxData /\ MaxData \in Nat
      BY <1>1, MuxerAssumption DEF TypeOK
    <3>2. unread[c] - 1 \in 0..MaxData
      BY <2>2, <3>1
    <3>3. unread' \in [ConnID -> 0..MaxData]
      BY <1>1, <2>2, <3>2, Zenon DEF TypeOK
    <3>4. \A d \in ConnID : unread'[d] = IF d = c THEN unread[c] - 1 ELSE unread[d]
      BY <1>1, <2>2 DEF TypeOK
    <3>5. \A d \in ConnID : unread[d] \in Int
      BY <1>1, MuxerAssumption DEF TypeOK
    <3> QED
      BY <3>1, <3>3, <3>4, <3>5
  <2> QED
    BY <1>3, <2>1, <2>2
<1>8. TypeOK'
  <2>1. user' \in [ConnID -> UserState]
    BY <1>1, <1>2 DEF TypeOK, UserState
  <2> QED
    <3>1. /\ UNCHANGED <<buf, wired, wiredFinal, incoming, peer, cut, handler>>
          /\ UNCHANGED <<reader, writer, serving, done, shut, connLookup, closing, todo,
                         closer, shutting>>
          /\ UNCHANGED <<localClosed, sentFinal, gotFinal, sent, nilConn>>
      BY <1>2
    <3> QED
      BY <1>0, <1>5, <1>7, <2>1, <3>1, Zenon DEF TypeOK, TypesStay
<1>9. Shape'
  BY <1>1, <1>2, <1>5 DEF Shape
<1>10. Waiting'
  <2>1. \A h \in Caller : h # c => pending'[h] = pending[h]
    BY <1>5
  <2>2. pending'[c] = {f}
    BY <1>5, CallerFacts
  <2>3. \A d \in ConnID : FrameOf("data", d) \in pending'[d] => sent[d] < MaxData
    BY <1>1, <1>3, <2>1, <2>2, CallerFacts DEF Waiting
  <2> QED
    BY <1>1, <1>2, <1>6, <2>1, <2>2, <2>3, CallerFacts DEF Waiting
<1>11. Finals'
  <2>1. pending'[CloserG] = pending[CloserG]
    BY <1>5, CallerFacts
  <2>2. ~sentFinal[c]
    BY <1>1, <1>2 DEF Finals
  <2> QED
    BY <1>1, <1>2, <1>6, <2>1, <2>2 DEF Finals
<1>12. Reading' /\ NoNilConn'
  <2>1. \A d \in ConnID : unread'[d] + peer[d] <= MaxData + 1
    <3>1. \A d \in ConnID : peer[d] \in Int /\ unread[d] + peer[d] <= MaxData + 1
      BY <1>1, MuxerAssumption DEF TypeOK, Reading
    <3> QED
      BY <1>7, <3>1, MuxerAssumption
  <2> QED
    BY <1>1, <1>2, <2>1 DEF Reading, NoNilConn, ReaderOver, ReaderDone
<1> QED
  BY <1>2, <1>8, <1>9, <1>10, <1>11, <1>12, BufferStays DEF IInv

\* Close of a Conn that was closed before, or by another goroutine than the one
\* that is in a call: no frame is submitted yet.
LEMMA ConnCloseWaitsIInv ==
    ASSUME IInv, NEW c \in ConnID, ConnClose(c), pending' = pending
    PROVE  IInv'
<1> USE DEF ioVars, peerVars, goVars, endVars, histVars
<1>0. TypesStay
  BY UnchangedTypes DEF IInv
<1>1. TypeOK /\ Shape /\ Waiting /\ Finals
  BY DEF IInv
<1>2. /\ UNCHANGED <<buf, wired, wiredFinal, incoming, peer, cut, handler>>
      /\ UNCHANGED <<reader, writer, serving, done, shut, connLookup, closing, todo, closer,
                     shutting>>
      /\ UNCHANGED <<gotFinal, sent, unread, nilConn, pending>>
      /\ c \notin closer
  BY DEF ConnClose, CmuFree
<1>3. \/ /\ user[c] = "open" /\ user' = [user EXCEPT ![c] = "closed"]
         /\ UNCHANGED <<localClosed, sentFinal>>
      \/ /\ Busy(c) /\ ~localClosed[c]
         /\ user' = [user EXCEPT ![c] = "lock"]
         /\ localClosed' = [localClosed EXCEPT ![c] = TRUE]
         /\ sentFinal' = sentFinal
  <2>1. user[c] = "open" => ~Offer(c, FrameOf("final", c))
    <3>1. user[c] = "open" => pending[c] = {}
      BY <1>1 DEF Waiting
    <3> QED
      BY <1>1, <3>1, CallerFacts DEF Offer, Shape
  <2> QED
    BY <2>1 DEF ConnClose
<1>4. /\ \A d \in ConnID : d # c => user'[d] = user[d]
      /\ \/ user[c] = "open" /\ user'[c] = "closed"
         \/ Busy(c) /\ user'[c] = "lock"
  BY <1>1, <1>3 DEF TypeOK
<1>5. /\ localClosed' \in [ConnID -> BOOLEAN]
      /\ \A d \in ConnID : localClosed[d] => localClosed'[d]
      /\ user'[c] = "lock" => localClosed'[c] /\ ~sentFinal[c]
  <2>1. localClosed' \in [ConnID -> BOOLEAN]
    BY <1>1, <1>3, Zenon DEF TypeOK
  <2>2. \A d \in ConnID : localClosed[d] => localClosed'[d]
    BY <1>1, <1>3, Zenon DEF TypeOK
  <2>3. CASE Busy(c)
    <3>1. user[c] # "open"
      BY <2>3 DEF Busy
    <3>2. localClosed'[c] = TRUE
      BY <1>1, <1>3, <3>1, Zenon DEF TypeOK
    <3>3. ~localClosed[c]
      BY <1>3, <3>1
    <3>4. ~sentFinal[c]
      BY <1>1, <3>3 DEF Finals
    <3> QED
      BY <2>1, <2>2, <3>2, <3>4
  <2>4. CASE user[c] = "open"
    BY <1>4, <2>1, <2>2, <2>4 DEF Busy
  <2> QED
    BY <1>4, <2>3, <2>4
<1>6. sentFinal' = sentFinal
  BY <1>3
<1>7. TypeOK'
  <2>1. user' \in [ConnID -> UserState]
    BY <1>1, <1>3 DEF TypeOK, UserState, UserState
  <2> QED
    BY <1>0, <1>2, <1>5, <1>6, <2>1, Zenon DEF TypeOK, TypesStay
<1>8. Waiting'
  BY <1>1, <1>2, <1>4 DEF Waiting, Busy
<1>9. Finals'
  BY <1>1, <1>2, <1>4, <1>5, <1>6 DEF Finals
<1> QED
  BY <1>2, <1>7, <1>8, <1>9, BufferStays, ShapeStays, ReadingStays DEF IInv

\* Close of a Conn submits the final frame: no call is left.
LEMMA ConnCloseIInv ==
    ASSUME IInv, NEW c \in ConnID,
           ConnCloseLocks(c) \/ (ConnClose(c) /\ pending' # pending)
    PROVE  IInv'
<1> USE DEF ioVars, peerVars, goVars, endVars, histVars
<1>0. TypesStay
  BY UnchangedTypes DEF IInv
<1>1. TypeOK /\ Shape /\ Waiting /\ Finals
  BY DEF IInv
<1>2. /\ UNCHANGED <<buf, wired, wiredFinal, incoming, peer, cut, handler>>
      /\ UNCHANGED <<reader, writer, serving, done, shut, connLookup, closing, todo, closer,
                     shutting>>
      /\ UNCHANGED <<gotFinal, sent, unread, nilConn>>
  BY DEF ConnClose, ConnCloseLocks
<1>3. /\ user' = [user EXCEPT ![c] = "final"]
      /\ sentFinal' = [sentFinal EXCEPT ![c] = TRUE]
      /\ pending' = [pending EXCEPT ![c] = {FrameOf("final", c)}]
      /\ \/ localClosed' = [localClosed EXCEPT ![c] = TRUE]
         \/ user[c] = "lock" /\ localClosed' = localClosed
  BY DEF ConnClose, ConnCloseLocks, Offer
<1>4. \A d \in ConnID : user'[d] = IF d = c THEN "final" ELSE user[d]
  BY <1>1, <1>3 DEF TypeOK
<1>5. /\ localClosed' \in [ConnID -> BOOLEAN] /\ sentFinal' \in [ConnID -> BOOLEAN]
      /\ \A d \in ConnID : d # c => localClosed'[d] = localClosed[d] /\ sentFinal'[d] = sentFinal[d]
      /\ localClosed'[c] /\ sentFinal'[c]
  <2>1. /\ sentFinal' \in [ConnID -> BOOLEAN] /\ sentFinal'[c]
        /\ \A d \in ConnID : d # c => sentFinal'[d] = sentFinal[d]
    BY <1>1, <1>3, Zenon DEF TypeOK
  <2>2. user[c] = "lock" => localClosed[c]
    BY <1>1 DEF Finals
  <2>3. /\ localClosed' \in [ConnID -> BOOLEAN] /\ localClosed'[c]
        /\ \A d \in ConnID : d # c => localClosed'[d] = localClosed[d]
    <3>1. CASE localClosed' = [localClosed EXCEPT ![c] = TRUE]
      BY <1>1, <3>1, Zenon DEF TypeOK
    <3>2. CASE user[c] = "lock" /\ localClosed' = localClosed
      BY <1>1, <2>2, <3>2, Zenon DEF TypeOK
    <3> QED
      BY <1>3, <3>1, <3>2
  <2> QED
    BY <2>1, <2>3
<1>6. /\ pending' \in [Caller -> SUBSET Frame]
      /\ \A h \in Caller : pending'[h] = IF h = c THEN {FrameOf("final", c)} ELSE pending[h]
      /\ \A h \in Caller : pending'[h] \subseteq Frame /\ Cardinality(pending'[h]) <= 1
  <2>1. FrameOf("final", c) \in Frame
    BY FrameFacts DEF Kind
  <2> QED
    BY <1>1, <1>3, <2>1, CallerFacts, PendingChanges
<1>7. TypeOK'
  <2>1. user' \in [ConnID -> UserState]
    BY <1>1, <1>3 DEF TypeOK, UserState, UserState
  <2> QED
    BY <1>0, <1>2, <1>5, <1>6, <2>1, Zenon DEF TypeOK, TypesStay
<1>8. Shape'
  BY <1>1, <1>2, <1>6 DEF Shape
<1>9. Waiting'
  <2>1. \A h \in Caller : h # c => pending'[h] = pending[h]
    BY <1>6
  <2>2. pending'[c] = {FrameOf("final", c)} /\ FrameOf("data", c) # FrameOf("final", c)
    BY <1>6, CallerFacts, FrameFacts DEF Kind
  <2> QED
    BY <1>1, <1>2, <1>4, <2>1, <2>2, CallerFacts DEF Waiting
<1>10. Finals'
  <2>1. pending'[CloserG] = pending[CloserG]
    BY <1>6, CallerFacts
  <2> QED
    BY <1>1, <1>2, <1>4, <1>5, <2>1 DEF Finals
<1> QED
  BY <1>2, <1>7, <1>8, <1>9, <1>10, BufferStays, ReadingStays DEF IInv

----------------------------------------------------------------------------
(* The ends of a Muxer.                                                    *)

\* doneChan takes a frame from a goroutine that waits.
LEMMA DropIInv ==
    ASSUME IInv, NEW g \in Caller, Drop(g)
    PROVE  IInv'
<1> USE DEF ioVars, peerVars, endVars, userVars, histVars
<1>0. TypesStay
  BY UnchangedTypes DEF IInv
<1>1. TypeOK /\ Shape /\ Waiting /\ Finals /\ Reading /\ NoNilConn
  BY DEF IInv
<1>2. /\ UNCHANGED <<buf, wired, wiredFinal, incoming, peer, cut, handler, writer, serving>>
      /\ UNCHANGED <<done, shut, connLookup, closing, todo, closer, shutting>>
      /\ UNCHANGED <<user, localClosed, sentFinal, gotFinal, sent, unread, nilConn>>
  BY DEF Drop
<1>3. pending' = [pending EXCEPT ![g] = {}] /\ reader' \in {"end", reader}
  BY DEF Drop
<1>4. /\ pending' \in [Caller -> SUBSET Frame]
      /\ \A h \in Caller : pending'[h] = IF h = g THEN {} ELSE pending[h]
      /\ \A h \in Caller : pending'[h] \subseteq Frame /\ Cardinality(pending'[h]) <= 1
  BY <1>1, <1>3, PendingChanges
<1>5. TypeOK'
  <2>1. reader' \in {"start", "read", "pong", "final", "end"}
    BY <1>1, <1>3 DEF TypeOK
  <2> QED
    BY <1>0, <1>2, <1>4, <2>1, Zenon DEF TypeOK, TypesStay
<1>6. Shape'
  BY <1>1, <1>2, <1>4 DEF Shape
<1>7. \A h \in Caller : pending'[h] \subseteq pending[h]
  BY <1>4
<1>8. Waiting'
  <2>1. reader' # "pong" => pending'[ReaderG] = {}
    <3>1. CASE g = ReaderG
      BY <1>4, <3>1
    <3>2. CASE g # ReaderG
      BY <1>1, <1>4, <3>2, CallerFacts DEF Drop, Waiting
    <3> QED
      BY <3>1, <3>2
  <2> QED
    BY <1>1, <1>2, <1>7, <2>1, CallerFacts DEF Waiting
<1>9. Finals'
  BY <1>1, <1>2, <1>7, CallerFacts DEF Finals
<1>10. Reading' /\ NoNilConn'
  BY <1>1, <1>2, <1>3 DEF Reading, ReaderOver, ReaderDone, NoNilConn
<1> QED
  BY <1>2, <1>5, <1>6, <1>8, <1>9, <1>10, BufferStays DEF IInv

\* The peer goes, and ServeHTTP waits for its goroutines.
LEMMA ServeIInv ==
    ASSUME IInv,
           \/ PeerCuts \/ ServeFirst \/ ServeSecond
           \/ ServeClose /\ UNCHANGED endVars
    PROVE  IInv'
<1> USE DEF ioVars, peerVars, goVars, endVars, userVars, histVars
<1>0. TypesStay
  BY UnchangedTypes DEF IInv
<1>2. /\ UNCHANGED <<buf, wired, wiredFinal, incoming, peer, handler, reader, writer>>
      /\ UNCHANGED <<done, shut, connLookup, closing, todo, closer, shutting>>
      /\ UNCHANGED <<user, localClosed, sentFinal, gotFinal, sent, unread, nilConn, pending>>
  BY DEF PeerCuts, ServeFirst, ServeSecond, ServeClose
<1>3. /\ serving' = serving \/ serving' \in {"first", "close", "second", "end"}
      /\ cut' = cut \/ cut' = TRUE
  BY DEF PeerCuts, ServeFirst, ServeSecond, ServeClose
<1>4. TypeOK'
  BY <1>0, <1>2, <1>3, Zenon DEF TypeOK, TypesStay
<1> QED
  BY <1>2, <1>4, BufferStays, CallsStay, ShapeStays, ReadingStays DEF IInv

\* doneChan is closed, by Close, by ServeHTTP or by Shutdown, and Shutdown
\* goes on; the network connection is closed before any Conn of a Muxer that
\* does not shut down is.
LEMMA EndsIInv ==
    ASSUME IInv,
           \/ Close
           \/ ServeClose /\ BeginClose
           \/ CloseReturns \/ Shutdown \/ ShutdownTick \/ ShutdownReader
    PROVE  IInv'
<1> USE DEF ioVars, peerVars, goVars, endVars, userVars, histVars
<1>0. TypesStay
  BY UnchangedTypes DEF IInv
<1>1. TypeOK /\ Reading /\ NoNilConn
  BY DEF IInv
<1>2. /\ UNCHANGED <<buf, wired, wiredFinal, incoming, peer, cut, handler, reader, writer>>
      /\ UNCHANGED <<connLookup, todo, closer>>
      /\ UNCHANGED <<user, localClosed, sentFinal, gotFinal, sent, unread, nilConn, pending>>
  BY DEF Close, ServeClose, BeginClose, CloseReturns, Shutdown, ShutdownTick, ShutdownReader
<1>3. /\ shut' = shut \/ shut' = TRUE
      /\ done' = done \/ done' = TRUE
      /\ serving' = serving
      /\ shutting' \in {"no", "loop", "wait", "timeout", "reader", "done"}
      /\ \/ closing' = closing
         \/ closing' = "reader" /\ done' = TRUE
         \/ closing = "conns" /\ closing' = "done" /\ done' = done
  <2>1. CASE Close \/ (ServeClose /\ BeginClose)
    <3>1. BeginClose /\ serving' = serving
      BY <2>1 DEF Close, ServeClose, BeginClose
    <3> QED
      BY <1>1, <3>1 DEF BeginClose, TypeOK
  <2>2. CASE CloseReturns
    BY <1>1, <2>2 DEF CloseReturns, TypeOK
  <2>3. CASE Shutdown
    BY <2>3 DEF Shutdown
  <2>4. CASE ShutdownTick
    BY <2>4 DEF ShutdownTick, ShutdownLeaves
  <2>5. CASE ShutdownReader
    BY <2>5 DEF ShutdownReader
  <2> QED
    BY <2>1, <2>2, <2>3, <2>4, <2>5
<1>4. TypeOK'
  <2>1. closing' \in {"no", "reader", "conns", "done"}
    BY <1>1, <1>3 DEF TypeOK
  <2> QED
    BY <1>0, <1>2, <1>3, <2>1, Zenon DEF TypeOK, TypesStay
<1>5. Reading' /\ NoNilConn'
  <2>1. done => done'
    BY <1>1, <1>3 DEF TypeOK
  <2>2. closing' # "no" => done'
    BY <1>1, <1>3, <2>1 DEF Reading
  <2>3. ReaderOver => ReaderOver'
    BY <1>2, <2>1 DEF ReaderOver, ReaderDone
  <2>4. closing' \in {"conns", "done"} => ReaderOver'
    BY <1>1, <1>3, <2>3 DEF Reading
  <2> QED
    BY <1>1, <1>2, <2>2, <2>3, <2>4 DEF Reading, NoNilConn
<1>6. Shape'
  BY <1>2, ShapeStays
<1> QED
  BY <1>2, <1>4, <1>5, <1>6, BufferStays, CallsStay DEF IInv

\* A Conn that is idle has had the peer's final frame: closeIdleConns takes
\* none that the peer may still write to.
LEMMA IdleConnsIInv ==
    ASSUME IInv, CloseReader \/ ShutdownIdle
    PROVE  IInv'
<1> USE DEF ioVars, peerVars, goVars, endVars, userVars, histVars
<1>0. TypesStay
  BY UnchangedTypes DEF IInv
<1>1. TypeOK /\ Reading /\ NoNilConn
  BY DEF IInv
<1>2. /\ UNCHANGED <<buf, wired, wiredFinal, incoming, peer, cut, handler>>
      /\ UNCHANGED <<reader, writer, serving, done, shut, closer>>
      /\ UNCHANGED <<user, localClosed, sentFinal, gotFinal, sent, unread, nilConn, pending>>
      /\ connLookup' = connLookup \ IdleConns
  BY DEF CloseReader, ShutdownIdle
<1>3. /\ todo' = todo \/ todo' = ConnID
      /\ closing' = closing \/ (closing = "reader" /\ closing' = "conns")
      /\ shutting' = shutting \/ shutting' \in {"timeout", "done"}
  BY DEF CloseReader, ShutdownIdle, ShutdownLeaves
<1>4. TypeOK'
  <2>1. /\ connLookup' \in SUBSET ConnID /\ todo' \in SUBSET ConnID
        /\ closing' \in {"no", "reader", "conns", "done"}
        /\ shutting' \in {"no", "loop", "wait", "timeout", "reader", "done"}
    BY <1>1, <1>2, <1>3 DEF TypeOK
  <2> QED
    BY <1>0, <1>2, <2>1, Zenon DEF TypeOK, TypesStay
<1>5. Reading' /\ NoNilConn'
  <2>1. \A c \in ConnID : c \in connLookup /\ c \notin connLookup' => gotFinal[c]
    BY <1>2 DEF IdleConns
  <2>2. ReaderOver => ReaderOver'
    BY <1>2 DEF ReaderOver, ReaderDone
  <2>3. closing' \in {"conns", "done"} => ReaderOver'
    <3>1. CASE CloseReader
      BY <1>1, <1>2, <3>1 DEF CloseReader, Reading, ReaderOver, ReaderDone
    <3>2. CASE ShutdownIdle
      BY <1>1, <2>2, <3>2 DEF ShutdownIdle, Reading
    <3> QED
      BY <3>1, <3>2
  <2> QED
    BY <1>1, <1>2, <1>3, <2>1, <2>2, <2>3 DEF Reading, NoNilConn
<1>6. Shape'
  BY <1>2, ShapeStays
<1> QED
  BY <1>2, <1>4, <1>5, <1>6, BufferStays, CallsStay DEF IInv

\* closeActiveConns takes a Conn, begins to close it, and has closed it.
LEMMA CloseConnIInv ==
    ASSUME IInv, NEW c \in ConnID, CloseConn(c) \/ CloseConnReturns(c)
    PROVE  IInv'
<1> USE DEF ioVars, peerVars, goVars, endVars, userVars, histVars
<1>0. TypesStay
  BY UnchangedTypes DEF IInv
<1>1. TypeOK /\ Shape /\ Waiting /\ Finals /\ Reading /\ NoNilConn
  BY DEF IInv
<1>2. /\ UNCHANGED <<buf, wired, wiredFinal, incoming, peer, cut, handler>>
      /\ UNCHANGED <<reader, writer, serving, done, shut, closing, shutting>>
      /\ UNCHANGED <<user, sentFinal, gotFinal, sent, unread, nilConn, pending>>
  BY DEF CloseConn, CloseConnReturns
<1>3. /\ \/ closing = "conns" /\ connLookup' = connLookup \ {c}
         \/ connLookup' = connLookup
      /\ todo' \subseteq todo
      /\ \/ closer' \in {{}, closer} /\ localClosed' = localClosed
         \/ closer' = {c} /\ localClosed' = [localClosed EXCEPT ![c] = TRUE]
      /\ pending[CloserG] = {} \/ closer = {} \/ closer' = closer
      /\ closer' = {c} => closer' = closer \/ user[c] # "lock"
  BY DEF CloseConn, CloseConnReturns, Returned, CmuFree
<1>4. /\ localClosed' \in [ConnID -> BOOLEAN]
      /\ \A d \in ConnID : localClosed[d] => localClosed'[d]
      /\ \A d \in ConnID : d \in closer' => d \in closer \/ localClosed'[d]
  BY <1>1, <1>3, Zenon DEF TypeOK
<1>5. TypeOK'
  <2>1. connLookup' \in SUBSET ConnID /\ todo' \in SUBSET ConnID
    BY <1>1, <1>3 DEF TypeOK
  <2>2. closer' \in SUBSET ConnID /\ Cardinality(closer') <= 1
    <3>1. CASE closer' = {}
      BY <3>1, FS_EmptySet
    <3>2. CASE closer' = closer
      BY <1>1, <3>2 DEF TypeOK
    <3>3. CASE closer' = {c}
      BY <3>3, FS_Singleton
    <3> QED
      BY <1>3, <3>1, <3>2, <3>3
  <2> QED
    BY <1>0, <1>2, <1>4, <2>1, <2>2, Zenon DEF TypeOK, TypesStay
<1>6. Waiting'
  <2>1. pending[CloserG] \subseteq {FrameOf("final", d) : d \in closer'}
    BY <1>1, <1>3 DEF Waiting
  <2> QED
    BY <1>1, <1>2, <2>1 DEF Waiting
<1>7. Finals'
  <2>1. \A d \in ConnID : user[d] = "lock" => d \notin closer'
    BY <1>1, <1>3 DEF Finals
  <2> QED
    BY <1>1, <1>2, <1>4, <2>1 DEF Finals
<1>8. Reading' /\ NoNilConn'
  <2>1. ReaderOver' <=> ReaderOver
    BY <1>2 DEF ReaderOver, ReaderDone
  <2> QED
    BY <1>1, <1>2, <1>3, <2>1 DEF Reading, NoNilConn
<1>9. Shape'
  BY <1>2, ShapeStays
<1> QED
  BY <1>2, <1>5, <1>6, <1>7, <1>8, <1>9, BufferStays DEF IInv

\* closeActiveConns submits a Conn's final frame, with no call of the Conn
\* under way.
LEMMA CloseConnFinalIInv ==
    ASSUME IInv, NEW c \in ConnID, CloseConnFinal(c)
    PROVE  IInv'
<1> USE DEF ioVars, peerVars, goVars, endVars, histVars
<1>0. TypesStay
  BY UnchangedTypes DEF IInv
<1>1. TypeOK /\ Shape /\ Waiting /\ Finals
  BY DEF IInv
<1>2. /\ UNCHANGED <<buf, wired, wiredFinal, incoming, peer, cut, handler>>
      /\ UNCHANGED <<reader, writer, serving, done, shut, connLookup, closing, todo, closer,
                     shutting>>
      /\ UNCHANGED <<user, localClosed, gotFinal, sent, unread, nilConn>>
      /\ c \in closer /\ user[c] \notin {"call", "ack"}
  BY DEF CloseConnFinal, Busy
<1>3. /\ sentFinal' = [sentFinal EXCEPT ![c] = TRUE]
      /\ pending' = [pending EXCEPT ![CloserG] = {FrameOf("final", c)}]
  BY DEF CloseConnFinal, Offer
<1>4. /\ sentFinal' \in [ConnID -> BOOLEAN]
      /\ \A d \in ConnID : d # c => sentFinal'[d] = sentFinal[d]
      /\ sentFinal'[c] = TRUE
  BY <1>1, <1>3, Zenon DEF TypeOK
<1>5. /\ pending' \in [Caller -> SUBSET Frame]
      /\ \A h \in Caller : pending'[h] = IF h = CloserG THEN {FrameOf("final", c)} ELSE pending[h]
      /\ \A h \in Caller : pending'[h] \subseteq Frame /\ Cardinality(pending'[h]) <= 1
  <2>1. FrameOf("final", c) \in Frame
    BY FrameFacts DEF Kind
  <2> QED
    BY <1>1, <1>3, <2>1, CallerFacts, PendingChanges
<1>6. TypeOK'
  BY <1>0, <1>2, <1>4, <1>5, Zenon DEF TypeOK, TypesStay
<1>7. Shape'
  BY <1>1, <1>2, <1>5 DEF Shape
<1>8. /\ pending'[CloserG] = {FrameOf("final", c)}
      /\ pending'[ReaderG] = pending[ReaderG]
      /\ \A d \in ConnID : pending'[d] = pending[d]
  BY <1>5, CallerFacts
<1>9. Waiting'
  BY <1>1, <1>2, <1>8 DEF Waiting
<1>10. localClosed[c]
  BY <1>1, <1>2 DEF Finals
<1>11. Finals'
  <2>1. \A d \in ConnID : FrameOf("final", d) \in pending'[CloserG] => d = c
    BY <1>8, FrameFacts DEF Kind
  <2> QED
    BY <1>1, <1>2, <1>4, <1>10, <2>1 DEF Finals
<1> QED
  BY <1>2, <1>6, <1>7, <1>9, <1>11, BufferStays, ReadingStays DEF IInv

----------------------------------------------------------------------------
\* Every step preserves the inductive invariant.
LEMMA NextIInv == IInv /\ [Next]_vars => IInv'
<1> SUFFICES ASSUME IInv, [Next]_vars PROVE IInv'
  OBVIOUS
<1>1. CASE Writer
  BY <1>1, TakeIInv, WriterTurnsIInv DEF Writer
<1>2. CASE Reader \/ ReadFails
  BY <1>2, ReaderTurnsIInv, SubmitFinalIInv DEF Reader
<1>3. CASE Peer
  BY <1>3, ReaderTurnsIInv, WriteIInv, ServeIInv, ReadConnIInv DEF Peer
<1>4. CASE Serve
  <2>1. CASE ServeFirst \/ ServeSecond
    BY <2>1, ServeIInv
  <2>2. CASE ServeClose
    <3>1. BeginClose \/ UNCHANGED endVars
      BY <2>2 DEF ServeClose
    <3> QED
      BY <2>2, <3>1, ServeIInv, EndsIInv
  <2> QED
    BY <1>4, <2>1, <2>2 DEF Serve
<1>5. CASE Closer
  BY <1>5, IdleConnsIInv, EndsIInv, CloseConnIInv, CloseConnFinalIInv DEF Closer
<1>6. CASE Returns
  BY <1>6, DropIInv, UserTurnsIInv DEF Returns
<1>7. CASE User
  <2>1. PICK c \in ConnID : \/ NewConn(c) \/ Call(c) \/ Copy(c) \/ CopyReturns(c)
                            \/ ConnClose(c) \/ ConnCloseLocks(c)
    BY <1>7 DEF User, Copied
  <2>2. CASE pending' = pending
    <3>1. CASE NewConn(c) \/ Copy(c) \/ CopyReturns(c)
      BY <2>2, <3>1, UserTurnsIInv
    <3>2. CASE Call(c)
      BY <3>2, CallIInv
    <3>3. CASE ConnClose(c)
      BY <2>2, <3>3, ConnCloseWaitsIInv
    <3>4. CASE ConnCloseLocks(c)
      BY <3>4, ConnCloseIInv
    <3> QED
      BY <2>1, <3>1, <3>2, <3>3, <3>4
  <2>3. CASE pending' # pending
    <3>1. CASE NewConn(c) \/ Copy(c)
      BY <3>1, UserTurnsIInv
    <3>2. CASE Call(c) \/ CopyReturns(c)
      BY <2>3, <3>2, CallIInv
    <3>3. CASE ConnClose(c) \/ ConnCloseLocks(c)
      BY <2>3, <3>3, ConnCloseIInv
    <3> QED
      BY <2>1, <3>1, <3>2, <3>3
  <2> QED
    BY <2>2, <2>3
<1>8. CASE Ping
  BY <1>8, PingIInv
<1>9. CASE Close \/ Shutdown \/ ShutdownIdle \/ ShutdownTick \/ ShutdownReader
  BY <1>9, EndsIInv, IdleConnsIInv
<1>10. CASE Finished \/ UNCHANGED vars
  <2>1. UNCHANGED vars
    BY <1>10 DEF Finished
  <2>2. /\ UNCHANGED <<buf, wired, wiredFinal, incoming, peer, cut, handler>>
        /\ UNCHANGED <<reader, writer, serving, done, shut, connLookup, closing, todo, closer,
                       shutting>>
        /\ UNCHANGED <<user, localClosed, sentFinal, gotFinal, sent, unread, nilConn, pending>>
    BY <2>1 DEF vars, ioVars, peerVars, goVars, endVars, userVars, histVars
  <2>3. TypesStay
    BY UnchangedTypes DEF IInv
  <2>4. TypeOK'
    BY <2>2, <2>3, Zenon DEF TypeOK, TypesStay
  <2> QED
    BY <2>2, <2>4, BufferStays, CallsStay, ShapeStays, ReadingStays DEF IInv
<1> QED
  BY <1>1, <1>2, <1>3, <1>4, <1>5, <1>6, <1>7, <1>8, <1>9, <1>10 DEF Next

\* The inductive invariant holds of every behaviour of a Muxer.
THEOREM Invariance == Spec => []IInv
BY InitIInv, NextIInv, PTL DEF Spec

\* Every variable keeps its type: no counter runs out of its range, and the
\* writer's buffer never holds more than one frame above its capacity.
THEOREM TypeCorrect == Spec => []TypeOK
<1>1. IInv => TypeOK
  BY DEF IInv
<1> QED
  BY <1>1, Invariance, PTL

\* ReadFrom never finds a nil entry in connLookup for a frame of a peer that
\* obeys the protocol, whenever Close, Shutdown or NewConn runs.
THEOREM ReaderFindsConn == Spec => []NoNilConn
<1>1. IInv => NoNilConn
  BY DEF IInv
<1> QED
  BY <1>1, Invariance, PTL

\* A final frame that reaches the network comes after every data frame of its
\* Conn that ConnWrite accepted, whoever closed the Conn and however the Muxer
\* ends.
THEOREM FinalFrameLast == Spec => []FinalComplete
<1>1. IInv => FinalComplete
  <2> SUFFICES ASSUME IInv, NEW c \in ConnID, wiredFinal[c]
               PROVE  wired[c] = sent[c]
    BY DEF FinalComplete
  <2>1. DataAt(c) = {}
    BY DEF IInv, FinalLast
  <2>2. Cardinality(DataAt(c)) = 0
    BY <2>1, FS_EmptySet
  <2>3. sent[c] = wired[c] + Cardinality(DataAt(c)) /\ wired[c] \in Nat
    BY DEF IInv, Counted, TypeOK
  <2> QED
    BY <2>2, <2>3
<1> QED
  BY <1>1, Invariance, PTL
=============================================================================
