--------------------------- MODULE RapConnProofs ---------------------------
(***************************************************************************)
(* Theorems about RapConn for every window size, every bound and every way *)
(* of using a Conn that the constants allow.                               *)
(***************************************************************************)
EXTENDS RapConn, SequenceTheorems, TLAPS

\* The peer of an end is the other end, and the peer's peer is the end itself.
LEMMA PeerType ==
    ASSUME NEW s \in Side
    PROVE  Peer(s) \in Side /\ Peer(Peer(s)) = s
BY DEF Side, Peer

\* The types of the values one end holds.
LEMMA EndTypes ==
    ASSUME TypeOK, NEW s \in Side
    PROVE  /\ runState[s] \in RunState
           /\ sendWindow[s] \in 0..SendWindowSize
           /\ ackCh[s] \in 0..MaxSendWindowSize
           /\ readCh[s] \in Seq(Frame)
           /\ Len(readCh[s]) <= MaxSendWindowSize
           /\ fdw[s] \in {"nil", "blank", "data"}
           /\ link[s] \in Seq(Frame)
           /\ session[s] \in 0..MaxSessions
           /\ sent[s] \in Nat
           /\ rcvd[s] \in Nat
BY Zenon DEF TypeOK

\* What Append, Head and Tail do to a queue of frames.
LEMMA QueueTypes ==
    ASSUME NEW q \in Seq(Frame), NEW f \in Frame
    PROVE  /\ Append(q, f) \in Seq(Frame)
           /\ Append(q, f) # <<>>
           /\ Len(Append(q, f)) = Len(q) + 1
           /\ Len(q) \in Nat
           /\ q # <<>> => /\ Head(q) \in Frame
                          /\ Tail(q) \in Seq(Frame)
                          /\ Len(Tail(q)) = Len(q) - 1
<1>1. /\ Append(q, f) \in Seq(Frame)
      /\ Append(q, f) # <<>>
      /\ Len(Append(q, f)) = Len(q) + 1
  BY AppendProperties
<1>2. Len(q) \in Nat
  BY LenProperties
<1>3. ASSUME q # <<>>
      PROVE  /\ Head(q) \in Frame
             /\ Tail(q) \in Seq(Frame)
             /\ Len(Tail(q)) = Len(q) - 1
  BY <1>3, HeadTailProperties
<1> QED
  BY <1>1, <1>2, <1>3

\* The frames an end writes are frames.
LEMMA FrameOfType ==
    ASSUME TypeOK, NEW s \in Side, NEW n \in Nat,
           NEW type \in {"data", "ack", "final", "finalAck"}
    PROVE  FrameOf(s, type, n) \in Frame
BY DEF TypeOK, FrameOf, Frame

\* ConnWrite keeps the links queues of frames, and never empties one.
LEMMA ConnWriteType ==
    ASSUME TypeOK, NEW s \in Side, NEW f \in Frame, ConnWrite(s, f)
    PROVE  /\ link' \in [Side -> Seq(Frame)]
           /\ \A t \in Side : link[t] # <<>> => link'[t] # <<>>
<1>1. CASE link' = [link EXCEPT ![s] = Append(@, f)]
  BY <1>1, QueueTypes DEF TypeOK
<1>2. CASE UNCHANGED link
  BY <1>2 DEF TypeOK
<1> QED
  BY <1>1, <1>2 DEF ConnWrite

\* What consumeAck leaves in the window and in ackCh.
LEMMA ConsumeAckType ==
    ASSUME TypeOK, NEW s \in Side, NEW n \in 0..ackCh[s], ConsumeAck(s, n)
    PROVE  /\ sendWindow' \in [Side -> 0..SendWindowSize]
           /\ ackCh' \in [Side -> 0..MaxSendWindowSize]
           /\ panic' \in {panic, "window overflow"}
<1>1. CASE sendWindow[s] + n > SendWindowSize
  BY <1>1 DEF ConsumeAck, TypeOK
<1>2. CASE ~(sendWindow[s] + n > SendWindowSize)
  <2>1. /\ sendWindow[s] + n \in 0..SendWindowSize
        /\ ackCh[s] - n \in 0..MaxSendWindowSize
    BY <1>2, EndTypes, WindowAssumption
  <2>2. /\ sendWindow \in [Side -> 0..SendWindowSize]
        /\ ackCh \in [Side -> 0..MaxSendWindowSize]
    BY DEF TypeOK
  <2> QED
    BY <1>2, <2>1, <2>2 DEF ConsumeAck
<1> QED
  BY <1>1, <1>2

\* Recycling keeps the types of all that it resets.
LEMMA RecycleType ==
    ASSUME TypeOK, NEW s \in Side, RecycleLocked(s)
    PROVE  /\ runState' \in [Side -> RunState]
           /\ localClosed' \in [Side -> BOOLEAN]
           /\ localSentFinal' \in [Side -> BOOLEAN]
           /\ remoteSentFinal' \in [Side -> BOOLEAN]
           /\ sendWindow' \in [Side -> 0..SendWindowSize]
           /\ ackCh' \in [Side -> 0..MaxSendWindowSize]
           /\ readCh' \in [Side -> Seq(Frame)]
           /\ \A t \in Side : Len(readCh'[t]) <= MaxSendWindowSize
           /\ fdw' \in [Side -> {"nil", "blank", "data"}]
           /\ hijacked' \in [Side -> BOOLEAN]
           /\ pooled' \in BOOLEAN
           /\ panic' \in {panic, "cannot recycle"}
<1>1. CASE CanRecycle(s) /\ ForceRecycle(s)
  <2>1. <<>> \in Seq(Frame) /\ Len(<<>>) = 0
    BY EmptySeq
  <2>2. readCh \in [Side -> Seq(Frame)]
    BY DEF TypeOK
  <2>3. readCh' = [readCh EXCEPT ![s] = <<>>]
    BY <1>1 DEF ForceRecycle
  <2>4. /\ readCh' \in [Side -> Seq(Frame)]
        /\ \A t \in Side : Len(readCh'[t]) <= MaxSendWindowSize
    BY <2>1, <2>2, <2>3, EndTypes, WindowAssumption
  <2>5. /\ 0 \in 0..MaxSendWindowSize
        /\ SendWindowSize \in 0..SendWindowSize
        /\ "Unused" \in RunState
    BY WindowAssumption DEF RunState
  <2> QED
    BY <1>1, <2>4, <2>5 DEF ForceRecycle, TypeOK
<1>2. CASE ~CanRecycle(s) /\ panic' = "cannot recycle"
           /\ UNCHANGED <<connVars, hijacked, pooled>>
  BY <1>2 DEF TypeOK, connVars, flagVars, flowVars
<1> QED
  BY <1>1, <1>2 DEF RecycleLocked

----------------------------------------------------------------------------
(* Every step keeps the types: one lemma for each kind of goroutine.       *)

USE DEF flagVars, flowVars, connVars, pcVars, userVars, histVars

\* The steps of the callers of a Conn keep the types.
LEMMA UserType ==
    ASSUME TypeOK, NEW s \in Side, NewConn \/ User(s) \/ Abort(s)
    PROVE  TypeOK'
<1>1. CASE NewConn
  <2>1. "client" \in Side
    BY DEF Side
  <2>2. session["client"] + 1 \in 0..MaxSessions
    BY <1>1, <2>1, EndTypes, BoundAssumption DEF NewConn
  <2> QED
    BY <1>1, <2>1, <2>2 DEF NewConn, TypeOK
<1>2. CASE Fill(s)
  <2>1. PICK content \in {"blank", "data"} :
           fdw' = [fdw EXCEPT ![s] = IF @ = "data" THEN @ ELSE content]
    BY <1>2 DEF Fill
  <2>2. fdw \in [Side -> {"nil", "blank", "data"}]
    BY DEF TypeOK
  <2>3. fdw' \in [Side -> {"nil", "blank", "data"}]
    BY <2>1, <2>2
  <2> QED
    BY <1>2, <2>3 DEF Fill, TypeOK
<1>3. CASE Write(s)
  BY <1>3 DEF Write, TypeOK
<1>4. CASE Flush(s)
  BY <1>4 DEF Flush, TypeOK
<1>5. CASE Read(s)
  BY <1>5 DEF Read, TypeOK
<1>6. CASE CloseBegin(s)
  <2>1. late \in [Side -> Nat] /\ open \in [Side -> BOOLEAN]
    BY DEF TypeOK
  <2>2. \/ open' = open
        \/ open' = [open EXCEPT ![s] = FALSE]
    BY <1>6 DEF CloseBegin, Holder
  <2>3. \/ late' = late
        \/ late' = [late EXCEPT ![s] = late[s] + 1]
        \/ late[s] > 0 /\ late' = [late EXCEPT ![s] = late[s] - 1]
    BY <1>6 DEF CloseBegin, Holder
  <2>4. late[s] + 1 \in Nat /\ (late[s] > 0 => late[s] - 1 \in Nat)
    BY <2>1
  <2>5. late' \in [Side -> Nat] /\ open' \in [Side -> BOOLEAN]
    BY <2>1, <2>2, <2>3, <2>4
  <2> QED
    BY <1>6, <2>5 DEF CloseBegin, TypeOK
<1>7. CASE Abort(s)
  BY <1>7 DEF Abort, TypeOK
<1>8. CASE ReadFrom(s)
  BY <1>8 DEF ReadFrom, TypeOK
<1>9. CASE Hijack(s)
  <2>1. Starting(s) \in RunState
    BY EndTypes DEF Starting, RunState
  <2> QED
    BY <1>9, <2>1 DEF Hijack, TypeOK
<1> QED
  BY <1>1, <1>2, <1>3, <1>4, <1>5, <1>6, <1>7, <1>8, <1>9 DEF User

\* The steps of a source and of a sink keep the types.
LEMMA CopierType ==
    ASSUME TypeOK, NEW s \in Side, Copier(s)
    PROVE  TypeOK'
<1>1. CASE SourceRead(s)
  BY <1>1 DEF SourceRead, TypeOK
<1>2. CASE SinkWrite(s)
  BY <1>2 DEF SinkWrite, TypeOK
<1> QED
  BY <1>1, <1>2 DEF Copier

\* The steps of writeFrame keep the types.
LEMMA WriterType ==
    ASSUME TypeOK, NEW s \in Side, Writer(s)
    PROVE  TypeOK'
<1>1. CASE WriteAcked(s)
  <2>1. 1 \in 0..ackCh[s] /\ ConsumeAck(s, 1)
    BY <1>1, EndTypes DEF WriteAcked
  <2> QED
    BY <1>1, <2>1, ConsumeAckType DEF WriteAcked, TypeOK
<1>2. CASE WriteFails(s)
  BY <1>2 DEF WriteFails, TypeOK
<1>3. CASE WriteDefault(s)
  <2>1. sendWindow \in [Side -> 0..SendWindowSize]
        /\ runState \in [Side -> RunState]
    BY DEF TypeOK
  <2>2. sendWindow[s] > 0 => sendWindow[s] - 1 \in 0..SendWindowSize
    BY EndTypes, WindowAssumption
  <2>3. Starting(s) \in RunState
    BY EndTypes DEF Starting, RunState
  <2>4. /\ sendWindow' \in [Side -> 0..SendWindowSize]
        /\ runState' \in [Side -> RunState]
        /\ \E w \in {"idle", "wait", "send"} : wpc' = [wpc EXCEPT ![s] = w]
    BY <1>3, <2>1, <2>2, <2>3 DEF WriteDefault, HasWindow
  <2> QED
    BY <1>3, <2>4 DEF WriteDefault, TypeOK
<1>4. CASE WriteSend(s)
  <2>1. sent[s] + 1 \in Nat
    BY EndTypes
  <2>2. link' \in [Side -> Seq(Frame)]
    BY <1>4, <2>1, FrameOfType, ConnWriteType DEF WriteSend
  <2> QED
    BY <1>4, <2>1, <2>2 DEF WriteSend, TypeOK
<1> QED
  BY <1>1, <1>2, <1>3, <1>4 DEF Writer

\* The steps of readFrame keep the types.
LEMMA ReaderType ==
    ASSUME TypeOK, NEW s \in Side, Reader(s)
    PROVE  TypeOK'
<1>1. CASE ReadData(s)
  <2>1. /\ Tail(readCh[s]) \in Seq(Frame)
        /\ Len(Tail(readCh[s])) <= MaxSendWindowSize
    <3>1. readCh[s] \in Seq(Frame) /\ readCh[s] # <<>>
      BY <1>1 DEF ReadData, TypeOK
    <3>2. /\ Tail(readCh[s]) \in Seq(Frame)
          /\ Len(Tail(readCh[s])) = Len(readCh[s]) - 1
          /\ Len(readCh[s]) \in Nat
      BY <3>1, HeadTailProperties, LenProperties
    <3> QED
      BY <3>2, EndTypes, WindowAssumption
  <2>2. /\ readCh' \in [Side -> Seq(Frame)]
        /\ \A t \in Side : Len(readCh'[t]) <= MaxSendWindowSize
    BY <1>1, <2>1 DEF ReadData, TypeOK
  <2>3. rcvd[s] + 1 \in Nat
    BY EndTypes
  <2> QED
    BY <1>1, <2>2, <2>3 DEF ReadData, TypeOK
<1>2. CASE ReadAck(s)
  <2>1. link' \in [Side -> Seq(Frame)]
    BY <1>2, FrameOfType, ConnWriteType DEF ReadAck
  <2> QED
    BY <1>2, <2>1 DEF ReadAck, TypeOK
<1>3. CASE ReadEnds(s)
  BY <1>3 DEF ReadEnds, TypeOK
<1> QED
  BY <1>1, <1>2, <1>3 DEF Reader

\* The steps of Close keep the types.
LEMMA CloserType ==
    ASSUME TypeOK, NEW s \in Side, Closer(s)
    PROVE  TypeOK'
<1>1. CASE CloseLock(s)
  BY <1>1 DEF CloseLock, TypeOK
<1>2. CASE CloseFinal(s)
  <2>1. CASE fdw[s] = "data"
    <3>1. PICK n \in 0..ackCh[s] : ConsumeAck(s, n)
      BY <1>2, <2>1 DEF CloseFinal
    <3>2. UNCHANGED link
      BY <1>2, <2>1 DEF CloseFinal
    <3> QED
      BY <1>2, <3>1, <3>2, ConsumeAckType DEF CloseFinal, TypeOK
  <2>2. CASE fdw[s] # "data"
    <3>1. /\ sent[s] \in Nat
          /\ FinalType(s) \in {"data", "ack", "final", "finalAck"}
      BY DEF TypeOK, FinalType
    <3>2. /\ ConnWrite(s, FrameOf(s, FinalType(s), sent[s]))
          /\ UNCHANGED <<sendWindow, ackCh, panic>>
      BY <1>2, <2>2 DEF CloseFinal
    <3>3. link' \in [Side -> Seq(Frame)]
      BY <3>1, <3>2, FrameOfType, ConnWriteType
    <3> QED
      BY <1>2, <3>2, <3>3 DEF CloseFinal, TypeOK
  <2> QED
    BY <2>1, <2>2
<1>3. CASE CloseFinish(s)
  <2>1. CASE ~remoteSentFinal[s]
    BY <1>3, <2>1 DEF CloseFinish, TypeOK, RunState
  <2>2. CASE remoteSentFinal[s]
    <3>1. RecycleLocked(s)
      BY <1>3, <2>2 DEF CloseFinish
    <3> QED
      BY <1>3, <3>1, RecycleType DEF CloseFinish, TypeOK
  <2> QED
    BY <2>1, <2>2
<1> QED
  BY <1>1, <1>2, <1>3 DEF Closer

\* The steps of Muxer.ReadFrom, SubmitFrame and receivedFinal keep the types.
LEMMA MuxType ==
    ASSUME TypeOK, ConnInv, NEW s \in Side, MuxStart(s) \/ Submit(s)
    PROVE  TypeOK'
<1> Peer(s) \in Side
  BY PeerType
<1>1. ASSUME link[Peer(s)] # <<>>
      PROVE  /\ Incoming(s) \in Frame
             /\ Incoming(s).session \in 0..MaxSessions
             /\ Incoming(s).n \in Nat
             /\ [link EXCEPT ![Peer(s)] = Tail(@)] \in [Side -> Seq(Frame)]
  <2>1. link[Peer(s)] \in Seq(Frame)
    BY DEF TypeOK
  <2>2. Head(link[Peer(s)]) \in Frame /\ Tail(link[Peer(s)]) \in Seq(Frame)
    BY <1>1, <2>1, HeadTailProperties
  <2> QED
    BY <2>2 DEF Incoming, Frame, TypeOK
<1>2. CASE MuxStart(s)
  <2>1. Incoming(s).session \in 0..MaxSessions
    BY <1>1, <1>2 DEF MuxStart
  <2>2. Starting(s) \in RunState
    BY EndTypes DEF Starting, RunState
  <2>3. CASE runState[s] = "Unused" /\ s = "server"
    <3>1. /\ session \in [Side -> 0..MaxSessions]
          /\ session' = [session EXCEPT ![s] = Incoming(s).session]
      BY <1>2, <2>3 DEF MuxStart, TypeOK
    <3>2. session' \in [Side -> 0..MaxSessions]
      BY <2>1, <3>1
    <3>3. /\ sent' = [sent EXCEPT ![s] = 0]
          /\ rcvd' = [rcvd EXCEPT ![s] = 0]
          /\ total' = [total EXCEPT ![s] = 0]
          /\ open' = [open EXCEPT ![s] = TRUE]
      BY <1>2, <2>3 DEF MuxStart
    <3>4. /\ mpc' = [mpc EXCEPT ![s] = "submit"]
          /\ runState' = [runState EXCEPT ![s] = Starting(s)]
          /\ UNCHANGED <<flagVars, flowVars, readCh, fdw, wpc, rpc, cpc, late,
                         hijacked, pooled, aborted, link, panic>>
      BY <1>2 DEF MuxStart
    <3> QED
      BY <2>2, <3>2, <3>3, <3>4 DEF TypeOK
  <2>4. CASE ~(runState[s] = "Unused" /\ s = "server")
    BY <1>2, <2>2, <2>4 DEF MuxStart, TypeOK
  <2> QED
    BY <2>3, <2>4
<1>3. CASE SubmitAck(s)
  <2>1. link' \in [Side -> Seq(Frame)]
    BY <1>1, <1>3 DEF SubmitAck, Consume, ConnInv
  <2>2. ackCh[s] < MaxSendWindowSize => ackCh[s] + 1 \in 0..MaxSendWindowSize
    BY EndTypes, WindowAssumption
  <2> QED
    BY <1>3, <2>1, <2>2 DEF SubmitAck, TypeOK
<1>4. CASE SubmitData(s)
  <2>1. link' \in [Side -> Seq(Frame)] /\ Incoming(s) \in Frame
    BY <1>1, <1>4 DEF SubmitData, Consume, ConnInv
  <2>2. /\ readCh' \in [Side -> Seq(Frame)]
        /\ \A t \in Side : Len(readCh'[t]) <= MaxSendWindowSize
        /\ panic' \in {panic, "frame after final", "DATA would block"}
    <3>1. CASE UNCHANGED readCh
      BY <1>4, <3>1 DEF SubmitData, TypeOK
    <3>2. CASE /\ Len(readCh[s]) < MaxSendWindowSize
               /\ readCh' = [readCh EXCEPT ![s] = Append(@, Incoming(s))]
               /\ UNCHANGED panic
      <4>1. readCh[s] \in Seq(Frame)
        BY DEF TypeOK
      <4>2. /\ Append(readCh[s], Incoming(s)) \in Seq(Frame)
            /\ Len(Append(readCh[s], Incoming(s))) = Len(readCh[s]) + 1
            /\ Len(readCh[s]) \in Nat
        BY <2>1, <4>1, QueueTypes
      <4>3. Len(Append(readCh[s], Incoming(s))) <= MaxSendWindowSize
        BY <3>2, <4>2, WindowAssumption
      <4> QED
        BY <3>2, <4>2, <4>3 DEF TypeOK
    <3> QED
      BY <1>4, <3>1, <3>2 DEF SubmitData
  <2> QED
    BY <1>4, <2>1, <2>2 DEF SubmitData, TypeOK
<1>5. CASE SubmitFinal(s)
  <2>1. link' \in [Side -> Seq(Frame)] /\ Incoming(s).n \in Nat
    BY <1>1, <1>5 DEF SubmitFinal, Consume, ConnInv
  <2> QED
    BY <1>5, <2>1 DEF SubmitFinal, TypeOK
<1>6. CASE Recycle(s)
  <2>1. RecycleLocked(s)
    BY <1>6 DEF Recycle
  <2> QED
    BY <1>6, <2>1, RecycleType DEF Recycle, TypeOK
<1> QED
  BY <1>2, <1>3, <1>4, <1>5, <1>6 DEF Submit

----------------------------------------------------------------------------
(* The inductive invariant: types, locks and flags, silence after the      *)
(* final frame, and recycling that is always allowed.                      *)

IInv == TypeOK /\ ConnInv /\ SilentAfterFinal /\ RecycleAllowed

\* In the initial state every end is unused and unlocked.
LEMMA InitIInv == Init => IInv
<1> SUFFICES ASSUME Init PROVE IInv
  OBVIOUS
<1>1. TypeOK
  <2>1. <<>> \in Seq(Frame) /\ Len(<<>>) = 0
    BY EmptySeq
  <2>2. /\ readCh \in [Side -> Seq(Frame)]
        /\ link \in [Side -> Seq(Frame)]
        /\ \A s \in Side : Len(readCh[s]) <= MaxSendWindowSize
    BY <2>1, WindowAssumption DEF Init
  <2>3. /\ SendWindowSize \in 0..SendWindowSize
        /\ 0 \in 0..MaxSendWindowSize
        /\ 0 \in 0..MaxSessions
    BY WindowAssumption, BoundAssumption
  <2> QED
    BY <2>2, <2>3 DEF Init, TypeOK, RunState
<1>2. ConnInv
  BY DEF Init, ConnInv
<1>3. SilentAfterFinal /\ RecycleAllowed
  BY DEF Init, SilentAfterFinal, RecycleAllowed
<1> QED
  BY <1>1, <1>2, <1>3 DEF IInv

\* The invariant of one end, without the types.
EndOK(s) ==
    /\ mpc[s] = "submit" => link[Peer(s)] # <<>>
    /\ mpc[s] = "recycle" => localSentFinal[s] /\ remoteSentFinal[s]
    /\ cpc[s] # "idle" => localClosed[s] /\ mpc[s] # "recycle"
    /\ cpc[s] \in {"final", "finish"} => wpc[s] = "idle" /\ rpc[s] = "idle"
    /\ cpc[s] = "finish" => localSentFinal[s]
    /\ cpc[s] \in {"lock", "final"} => ~localSentFinal[s]
    /\ localClosed[s] /\ cpc[s] = "idle" => localSentFinal[s]
    /\ localSentFinal[s] => /\ localClosed[s] /\ fdw[s] = "nil"
                            /\ wpc[s] \in {"idle", "flow"}

Rest == (\A s \in Side : EndOK(s)) /\ panic # "cannot recycle"

\* A step leaves the locks and flags of end t alone, and a link that leads
\* to it is not emptied.
Same(t) ==
    /\ localClosed'[t] = localClosed[t]
    /\ localSentFinal'[t] = localSentFinal[t]
    /\ remoteSentFinal'[t] = remoteSentFinal[t]
    /\ fdw'[t] = fdw[t]
    /\ wpc'[t] = wpc[t]
    /\ rpc'[t] = rpc[t]
    /\ cpc'[t] = cpc[t]
    /\ mpc'[t] = mpc[t]
    /\ link[Peer(t)] # <<>> => link'[Peer(t)] # <<>>

\* The parts of the invariant, put together again.
LEMMA IInvParts == IInv <=> TypeOK /\ Rest
BY DEF IInv, ConnInv, SilentAfterFinal, RecycleAllowed, Rest, EndOK

\* A step of end s keeps the invariant if it keeps that end's part and leaves
\* the other end alone.
LEMMA OneEnd ==
    ASSUME Rest, NEW s \in Side,
           \A t \in Side \ {s} : Same(t),
           EndOK(s)',
           panic' # "cannot recycle"
    PROVE  Rest'
<1>1. ASSUME NEW t \in Side \ {s} PROVE EndOK(t)'
  <2>1. EndOK(t) /\ Same(t)
    BY DEF Rest
  <2> QED
    BY <2>1 DEF EndOK, Same
<1> QED
  BY <1>1 DEF Rest

\* The types on which the locks and flags depend.
FlagTypes ==
    /\ localClosed \in [Side -> BOOLEAN]
    /\ localSentFinal \in [Side -> BOOLEAN]
    /\ remoteSentFinal \in [Side -> BOOLEAN]
    /\ fdw \in [Side -> {"nil", "blank", "data"}]
    /\ wpc \in [Side -> {"idle", "source", "flow", "wait", "send"}]
    /\ rpc \in [Side -> {"idle", "select", "ack", "sink"}]
    /\ cpc \in [Side -> {"idle", "lock", "final", "finish"}]
    /\ mpc \in [Side -> {"idle", "submit", "recycle"}]

\* The steps of the callers of a Conn keep the locks and flags.
LEMMA UserRest ==
    ASSUME FlagTypes, Rest, panic = "none", NEW s \in Side,
           NewConn \/ User(s) \/ Abort(s)
    PROVE  Rest'
<1> EndOK(s)
  BY DEF Rest
<1>1. CASE NewConn \/ Abort(s)
  BY <1>1 DEF NewConn, Abort, Rest, EndOK
<1>2. CASE Fill(s)
  <2>1. \A t \in Side \ {s} : Same(t)
    BY <1>2 DEF Fill, Same, FlagTypes
  <2>2. EndOK(s)'
    BY <1>2 DEF Fill, MayWrite, MayLockWrite, EndOK, FlagTypes
  <2> QED
    BY <1>2, <2>1, <2>2, OneEnd DEF Fill
<1>3. CASE Write(s)
  <2>1. \A t \in Side \ {s} : Same(t)
    BY <1>3 DEF Write, Same, FlagTypes
  <2>2. EndOK(s)'
    BY <1>3 DEF Write, MayWrite, MayLockWrite, WmuFree, EndOK, FlagTypes
  <2> QED
    BY <1>3, <2>1, <2>2, OneEnd DEF Write
<1>4. CASE Flush(s)
  <2>1. \A t \in Side \ {s} : Same(t)
    BY <1>4 DEF Flush, Same, FlagTypes
  <2>2. EndOK(s)'
    BY <1>4 DEF Flush, WmuFree, EndOK, FlagTypes
  <2> QED
    BY <1>4, <2>1, <2>2, OneEnd DEF Flush
<1>5. CASE Read(s)
  <2>1. \A t \in Side \ {s} : Same(t)
    BY <1>5 DEF Read, Same, FlagTypes
  <2>2. EndOK(s)'
    BY <1>5 DEF Read, RmuFree, EndOK, FlagTypes
  <2> QED
    BY <1>5, <2>1, <2>2, OneEnd DEF Read
<1>6. CASE CloseBegin(s)
  <2>1. \A t \in Side \ {s} : Same(t)
    BY <1>6 DEF CloseBegin, Same, FlagTypes
  <2>2. EndOK(s)'
    BY <1>6 DEF CloseBegin, CmuFree, EndOK, FlagTypes
  <2> QED
    BY <1>6, <2>1, <2>2, OneEnd DEF CloseBegin
<1>7. CASE ReadFrom(s)
  <2>1. \A t \in Side \ {s} : Same(t)
    BY <1>7 DEF ReadFrom, Same, FlagTypes
  <2>2. EndOK(s)'
    BY <1>7 DEF ReadFrom, MayWrite, MayLockWrite, WmuFree, EndOK, FlagTypes
  <2> QED
    BY <1>7, <2>1, <2>2, OneEnd DEF ReadFrom
<1>8. CASE Hijack(s)
  <2>1. \A t \in Side \ {s} : Same(t)
    BY <1>8 DEF Hijack, Same, FlagTypes
  <2>2. EndOK(s)'
    BY <1>8 DEF Hijack, MayLockWrite, WmuFree, EndOK, FlagTypes
  <2> QED
    BY <1>8, <2>1, <2>2, OneEnd DEF Hijack
<1> QED
  BY <1>1, <1>2, <1>3, <1>4, <1>5, <1>6, <1>7, <1>8 DEF User

\* The steps of a source and of a sink keep the locks and flags: the source
\* is read under wmu, and so before the final frame.
LEMMA CopierRest ==
    ASSUME FlagTypes, Rest, panic = "none", NEW s \in Side, Copier(s)
    PROVE  Rest'
<1> EndOK(s)
  BY DEF Rest
<1>1. CASE SourceRead(s)
  <2>1. \A t \in Side \ {s} : Same(t)
    BY <1>1 DEF SourceRead, Same, FlagTypes
  <2>2. EndOK(s)'
    BY <1>1 DEF SourceRead, EndOK, FlagTypes
  <2> QED
    BY <1>1, <2>1, <2>2, OneEnd DEF SourceRead
<1>2. CASE SinkWrite(s)
  <2>1. \A t \in Side \ {s} : Same(t)
    BY <1>2 DEF SinkWrite, Same, FlagTypes
  <2>2. EndOK(s)'
    BY <1>2 DEF SinkWrite, EndOK, FlagTypes
  <2> QED
    BY <1>2, <2>1, <2>2, OneEnd DEF SinkWrite
<1> QED
  BY <1>1, <1>2 DEF Copier

\* The steps of writeFrame keep the locks and flags.
LEMMA WriterRest ==
    ASSUME TypeOK, FlagTypes, Rest, panic = "none", NEW s \in Side, Writer(s)
    PROVE  Rest'
<1> EndOK(s)
  BY DEF Rest
<1>1. CASE WriteAcked(s)
  <2>1. \A t \in Side \ {s} : Same(t)
    BY <1>1 DEF WriteAcked, Same, FlagTypes
  <2>2. EndOK(s)'
    BY <1>1 DEF WriteAcked, EndOK, FlagTypes
  <2> QED
    BY <1>1, <2>1, <2>2, OneEnd DEF WriteAcked, ConsumeAck
<1>2. CASE WriteFails(s)
  <2>1. \A t \in Side \ {s} : Same(t)
    BY <1>2 DEF WriteFails, Same, FlagTypes
  <2>2. EndOK(s)'
    BY <1>2 DEF WriteFails, EndOK, FlagTypes
  <2> QED
    BY <1>2, <2>1, <2>2, OneEnd DEF WriteFails
<1>3. CASE WriteDefault(s)
  <2>1. \A t \in Side \ {s} : Same(t)
    BY <1>3 DEF WriteDefault, Same, FlagTypes
  <2>2. EndOK(s)'
    BY <1>3 DEF WriteDefault, EndOK, FlagTypes
  <2> QED
    BY <1>3, <2>1, <2>2, OneEnd DEF WriteDefault
<1>4. CASE WriteSend(s)
  <2>1. \A t \in Side : link[t] # <<>> => link'[t] # <<>>
    <3>1. sent[s] + 1 \in Nat
      BY EndTypes
    <3> QED
      BY <1>4, <3>1, FrameOfType, ConnWriteType DEF WriteSend
  <2>2. \A t \in Side \ {s} : Same(t)
    BY <1>4, <2>1, PeerType DEF WriteSend, Same, FlagTypes
  <2>3. EndOK(s)'
    BY <1>4, <2>1, PeerType DEF WriteSend, EndOK, FlagTypes
  <2> QED
    BY <1>4, <2>2, <2>3, OneEnd DEF WriteSend
<1> QED
  BY <1>1, <1>2, <1>3, <1>4 DEF Writer

\* The steps of readFrame keep the locks and flags.
LEMMA ReaderRest ==
    ASSUME TypeOK, FlagTypes, Rest, panic = "none", NEW s \in Side, Reader(s)
    PROVE  Rest'
<1> EndOK(s)
  BY DEF Rest
<1>1. CASE ReadData(s)
  <2>1. \A t \in Side \ {s} : Same(t)
    BY <1>1 DEF ReadData, Same, FlagTypes
  <2>2. EndOK(s)'
    BY <1>1 DEF ReadData, EndOK, FlagTypes
  <2> QED
    BY <1>1, <2>1, <2>2, OneEnd DEF ReadData
<1>2. CASE ReadEnds(s)
  <2>1. \A t \in Side \ {s} : Same(t)
    BY <1>2 DEF ReadEnds, Same, FlagTypes
  <2>2. EndOK(s)'
    BY <1>2 DEF ReadEnds, EndOK, FlagTypes
  <2> QED
    BY <1>2, <2>1, <2>2, OneEnd DEF ReadEnds
<1>3. CASE ReadAck(s)
  <2>1. \A t \in Side : link[t] # <<>> => link'[t] # <<>>
    BY <1>3, FrameOfType, ConnWriteType DEF ReadAck
  <2>2. \A t \in Side \ {s} : Same(t)
    BY <1>3, <2>1, PeerType DEF ReadAck, Same, FlagTypes
  <2>3. EndOK(s)'
    BY <1>3, <2>1, PeerType DEF ReadAck, EndOK, FlagTypes
  <2> QED
    BY <1>3, <2>2, <2>3, OneEnd DEF ReadAck
<1> QED
  BY <1>1, <1>2, <1>3 DEF Reader

\* An end that recycles is allowed to, and returns to its initial flags.
LEMMA RecycleRest ==
    ASSUME FlagTypes, NEW s \in Side, EndOK(s), RecycleLocked(s),
           localSentFinal[s], remoteSentFinal[s]
    PROVE  /\ panic' = panic
           /\ localClosed' = [localClosed EXCEPT ![s] = FALSE]
           /\ localSentFinal' = [localSentFinal EXCEPT ![s] = FALSE]
           /\ remoteSentFinal' = [remoteSentFinal EXCEPT ![s] = FALSE]
           /\ fdw' = [fdw EXCEPT ![s] = "nil"]
           /\ runState' = [runState EXCEPT ![s] = "Unused"]
<1>1. CanRecycle(s)
  BY DEF EndOK, CanRecycle
<1> QED
  BY <1>1 DEF RecycleLocked, ForceRecycle

\* The steps of Close keep the locks and flags.
LEMMA CloserRest ==
    ASSUME TypeOK, FlagTypes, Rest, panic = "none", NEW s \in Side, Closer(s)
    PROVE  Rest'
<1> EndOK(s)
  BY DEF Rest
<1>1. CASE CloseLock(s)
  <2>1. \A t \in Side \ {s} : Same(t)
    BY <1>1 DEF CloseLock, Same, FlagTypes
  <2>2. EndOK(s)'
    BY <1>1 DEF CloseLock, EndOK, FlagTypes, WmuFree, RmuFree
  <2> QED
    BY <1>1, <2>1, <2>2, OneEnd DEF CloseLock
<1>2. CASE CloseFinal(s)
  <2>1. \A t \in Side : link[t] # <<>> => link'[t] # <<>>
    <3>1. CASE fdw[s] = "data"
      BY <1>2, <3>1 DEF CloseFinal
    <3>2. CASE fdw[s] # "data"
      <4>1. /\ sent[s] \in Nat
            /\ FinalType(s) \in {"data", "ack", "final", "finalAck"}
        BY EndTypes DEF FinalType
      <4>2. ConnWrite(s, FrameOf(s, FinalType(s), sent[s]))
        BY <1>2, <3>2 DEF CloseFinal
      <4> QED
        BY <4>1, <4>2, FrameOfType, ConnWriteType
    <3> QED
      BY <3>1, <3>2
  <2>2. \A t \in Side \ {s} : Same(t)
    BY <1>2, <2>1, PeerType DEF CloseFinal, Same, FlagTypes
  <2>3. EndOK(s)'
    BY <1>2, <2>1, PeerType DEF CloseFinal, EndOK, FlagTypes
  <2>4. panic' # "cannot recycle"
    BY <1>2 DEF CloseFinal, ConsumeAck
  <2> QED
    BY <2>2, <2>3, <2>4, OneEnd
<1>3. CASE CloseFinish(s) /\ ~remoteSentFinal[s]
  <2>1. \A t \in Side \ {s} : Same(t)
    BY <1>3 DEF CloseFinish, Same, FlagTypes
  <2>2. EndOK(s)'
    BY <1>3 DEF CloseFinish, EndOK, FlagTypes
  <2> QED
    BY <1>3, <2>1, <2>2, OneEnd DEF CloseFinish
<1>4. CASE CloseFinish(s) /\ remoteSentFinal[s]
  <2>1. /\ RecycleLocked(s) /\ localSentFinal[s]
        /\ cpc' = [cpc EXCEPT ![s] = "idle"]
        /\ UNCHANGED <<wpc, rpc, mpc, link>>
    BY <1>4 DEF CloseFinish, EndOK
  <2>2. \A t \in Side \ {s} : Same(t)
    BY <1>4, <2>1, RecycleRest DEF Same, FlagTypes
  <2>3. EndOK(s)'
    <3>1. /\ ~localClosed'[s] /\ ~localSentFinal'[s] /\ cpc'[s] = "idle"
          /\ mpc[s] # "recycle"
      BY <1>4, <2>1, RecycleRest DEF CloseFinish, EndOK, FlagTypes
    <3> QED
      BY <2>1, <3>1 DEF EndOK
  <2>4. panic' # "cannot recycle"
    BY <1>4, <2>1, RecycleRest
  <2> QED
    BY <2>2, <2>3, <2>4, OneEnd
<1> QED
  BY <1>1, <1>2, <1>3, <1>4 DEF Closer

\* The steps of ReadFrom, SubmitFrame and receivedFinal keep the locks and
\* flags: a frame is consumed only by the end it was sent to.
LEMMA MuxRest ==
    ASSUME TypeOK, FlagTypes, Rest, panic = "none", NEW s \in Side,
           MuxStart(s) \/ Submit(s)
    PROVE  Rest'
<1> EndOK(s)
  BY DEF Rest
<1>c. ASSUME Consume(s), NEW t \in Side \ {s}
      PROVE  link'[Peer(t)] = link[Peer(t)]
  <2>1. /\ Peer(t) \in Side /\ Peer(s) \in Side /\ Peer(t) # Peer(s)
        /\ link \in [Side -> Seq(Frame)]
    BY PeerType DEF TypeOK
  <2> QED
    BY <1>c, <2>1 DEF Consume
<1>1. CASE MuxStart(s)
  <2>1. \A t \in Side \ {s} : Same(t)
    BY <1>1 DEF MuxStart, Same, FlagTypes
  <2>2. EndOK(s)'
    BY <1>1 DEF MuxStart, EndOK, FlagTypes
  <2> QED
    BY <1>1, <2>1, <2>2, OneEnd DEF MuxStart
<1>2. CASE SubmitAck(s)
  <2>1. \A t \in Side \ {s} : Same(t)
    BY <1>2, <1>c DEF SubmitAck, Same, FlagTypes
  <2>2. EndOK(s)'
    BY <1>2 DEF SubmitAck, EndOK, FlagTypes
  <2>3. panic' # "cannot recycle"
    BY <1>2 DEF SubmitAck
  <2> QED
    BY <2>1, <2>2, <2>3, OneEnd
<1>3. CASE SubmitData(s)
  <2>1. \A t \in Side \ {s} : Same(t)
    BY <1>3, <1>c DEF SubmitData, Same, FlagTypes
  <2>2. EndOK(s)'
    BY <1>3 DEF SubmitData, EndOK, FlagTypes
  <2>3. panic' # "cannot recycle"
    BY <1>3 DEF SubmitData
  <2> QED
    BY <2>1, <2>2, <2>3, OneEnd
<1>4. CASE SubmitFinal(s)
  <2>1. \A t \in Side \ {s} : Same(t)
    BY <1>4, <1>c DEF SubmitFinal, Same, FlagTypes
  <2>2. EndOK(s)'
    BY <1>4 DEF SubmitFinal, EndOK, FlagTypes, CmuFree, Recycles
  <2>3. panic' # "cannot recycle"
    BY <1>4 DEF SubmitFinal
  <2> QED
    BY <2>1, <2>2, <2>3, OneEnd
<1>5. CASE Recycle(s)
  <2>1. /\ RecycleLocked(s) /\ localSentFinal[s] /\ remoteSentFinal[s]
        /\ mpc' = [mpc EXCEPT ![s] = "idle"]
        /\ UNCHANGED <<wpc, rpc, cpc, link>>
        /\ cpc[s] = "idle"
    BY <1>5 DEF Recycle, EndOK, FlagTypes
  <2>2. \A t \in Side \ {s} : Same(t)
    BY <2>1, RecycleRest DEF Same, FlagTypes
  <2>3. EndOK(s)'
    <3>1. /\ ~localClosed'[s] /\ ~localSentFinal'[s]
          /\ cpc'[s] = "idle" /\ mpc'[s] = "idle"
      BY <2>1, RecycleRest DEF FlagTypes
    <3> QED
      BY <3>1 DEF EndOK
  <2>4. panic' # "cannot recycle"
    BY <2>1, RecycleRest
  <2> QED
    BY <2>2, <2>3, <2>4, OneEnd
<1> QED
  BY <1>1, <1>2, <1>3, <1>4, <1>5 DEF Submit

----------------------------------------------------------------------------
\* A step that changes nothing keeps the invariant.
LEMMA StutterIInv ==
    ASSUME IInv, UNCHANGED vars
    PROVE  IInv'
BY DEF IInv, TypeOK, ConnInv, SilentAfterFinal, RecycleAllowed, vars

\* The invariant is inductive.
LEMMA NextIInv == IInv /\ [Next]_vars => IInv'
<1> SUFFICES ASSUME IInv, Next PROVE IInv'
  BY StutterIInv
<1>1. TypeOK /\ ConnInv /\ Rest /\ FlagTypes /\ panic = "none"
  BY IInvParts DEF IInv, TypeOK, FlagTypes, Next
<1>2. TypeOK' /\ Rest' => IInv'
  BY DEF IInv, ConnInv, SilentAfterFinal, RecycleAllowed, Rest, EndOK
<1>3. CASE NewConn
  <2>1. "client" \in Side
    BY DEF Side
  <2> QED
    BY <1>1, <1>2, <1>3, <2>1, UserType, UserRest
<1>4. CASE \E s \in Side : User(s) \/ Abort(s)
  BY <1>1, <1>2, <1>4, UserType, UserRest
<1>5. CASE \E s \in Side : Writer(s)
  BY <1>1, <1>2, <1>5, WriterType, WriterRest
<1>6. CASE \E s \in Side : Reader(s)
  BY <1>1, <1>2, <1>6, ReaderType, ReaderRest
<1>7. CASE \E s \in Side : Closer(s)
  BY <1>1, <1>2, <1>7, CloserType, CloserRest
<1>8. CASE \E s \in Side : MuxStart(s) \/ Submit(s)
  BY <1>1, <1>2, <1>8, MuxType, MuxRest
<1>9. CASE \E s \in Side : Copier(s)
  BY <1>1, <1>2, <1>9, CopierType, CopierRest
<1>10. CASE Finished
  BY <1>10, StutterIInv DEF Finished
<1> QED
  BY <1>3, <1>4, <1>5, <1>6, <1>7, <1>8, <1>9, <1>10 DEF Next

\* The inductive invariant holds of every behaviour of a Conn.
THEOREM Invariance == Spec => []IInv
BY InitIInv, NextIInv, PTL DEF Spec

\* Type correctness: in particular the window stays within 0..SendWindowSize
\* and the channels within their capacity, because the code panics instead.
THEOREM TypeCorrect == Spec => []TypeOK
<1>1. IInv => TypeOK
  BY DEF IInv
<1> QED
  BY <1>1, Invariance, PTL

\* The locks and flags of a Conn always fit together (cmu, wmu, rmu,
\* localClosed, localSentFinal, remoteSentFinal).
THEOREM LocksFit == Spec => []ConnInv
<1>1. IInv => ConnInv
  BY DEF IInv
<1> QED
  BY <1>1, Invariance, PTL

\* Once writeFinalLocked has run no write is in progress and none is left to
\* flush, however the Conn is used.
THEOREM NoDataAfterFinal == Spec => []SilentAfterFinal
<1>1. IInv => SilentAfterFinal
  BY DEF IInv
<1> QED
  BY <1>1, Invariance, PTL

\* The panic of recycleLocked is unreachable, however the Conn is used.
THEOREM NeverCannotRecycle == Spec => []RecycleAllowed
<1>1. IInv => RecycleAllowed
  BY DEF IInv
<1> QED
  BY <1>1, Invariance, PTL

\* A step that takes back one of the flags of an end is a recycling step.
LEMMA FlagsReset ==
    ASSUME IInv, Next, NEW s \in Side,
           \/ localClosed[s] /\ ~localClosed'[s]
           \/ localSentFinal[s] /\ ~localSentFinal'[s]
           \/ remoteSentFinal[s] /\ ~remoteSentFinal'[s]
    PROVE  /\ localClosed[s] /\ localSentFinal[s] /\ remoteSentFinal[s]
           /\ runState'[s] = "Unused"
<1>1. TypeOK /\ Rest /\ FlagTypes
  BY IInvParts DEF IInv, TypeOK, FlagTypes
<1>2. ASSUME NEW t \in Side, RecycleLocked(t), localSentFinal[t],
             remoteSentFinal[t]
      PROVE  t = s /\ localClosed[s] /\ runState'[s] = "Unused"
  <2>1. EndOK(t)
    BY <1>1 DEF Rest
  <2>2. runState \in [Side -> RunState]
    BY <1>1 DEF TypeOK
  <2>3. /\ localClosed' = [localClosed EXCEPT ![t] = FALSE]
        /\ localSentFinal' = [localSentFinal EXCEPT ![t] = FALSE]
        /\ remoteSentFinal' = [remoteSentFinal EXCEPT ![t] = FALSE]
        /\ runState' = [runState EXCEPT ![t] = "Unused"]
    BY <1>1, <1>2, <2>1, RecycleRest
  <2>4. t = s
    BY <1>1, <2>3 DEF FlagTypes
  <2> QED
    BY <1>2, <2>1, <2>2, <2>3, <2>4 DEF EndOK
<1>3. CASE NewConn \/ Finished
  BY <1>3 DEF NewConn, Finished, vars
<1>4. CASE \E t \in Side : User(t) \/ Abort(t)
  BY <1>1, <1>4 DEF User, Abort, Fill, Write, ReadFrom, Hijack, Flush, Read,
                     CloseBegin, FlagTypes
<1>5. CASE \E t \in Side : Writer(t) \/ Reader(t) \/ Copier(t)
  BY <1>5 DEF Copier, SourceRead, SinkWrite, Writer, WriteAcked, WriteFails, WriteDefault, WriteSend,
              Reader, ReadData, ReadAck, ReadEnds
<1>6. CASE \E t \in Side : CloseLock(t) \/ CloseFinal(t)
  BY <1>1, <1>6 DEF CloseLock, CloseFinal, FlagTypes
<1>7. CASE \E t \in Side : CloseFinish(t)
  <2>1. PICK t \in Side : CloseFinish(t)
    BY <1>7
  <2>2. CASE ~remoteSentFinal[t]
    BY <2>1, <2>2 DEF CloseFinish
  <2>3. CASE remoteSentFinal[t]
    <3>1. RecycleLocked(t) /\ localSentFinal[t]
      BY <1>1, <2>1, <2>3 DEF CloseFinish, Rest, EndOK
    <3> QED
      BY <1>2, <2>3, <3>1
  <2> QED
    BY <2>2, <2>3
<1>8. CASE \E t \in Side : MuxStart(t) \/ SubmitAck(t) \/ SubmitData(t)
  BY <1>8 DEF MuxStart, SubmitAck, SubmitData
<1>9. CASE \E t \in Side : SubmitFinal(t)
  <2>1. PICK t \in Side : SubmitFinal(t)
    BY <1>9
  <2>2. /\ UNCHANGED <<localClosed, localSentFinal>>
        /\ \/ UNCHANGED remoteSentFinal
           \/ remoteSentFinal' = [remoteSentFinal EXCEPT ![t] = TRUE]
    BY <2>1 DEF SubmitFinal
  <2>3. ~(remoteSentFinal[s] /\ ~remoteSentFinal'[s])
    BY <1>1, <2>2 DEF FlagTypes
  <2> QED
    BY <2>2, <2>3
<1>10. CASE \E t \in Side : Recycle(t)
  <2>1. PICK t \in Side : Recycle(t)
    BY <1>10
  <2>2. RecycleLocked(t) /\ localSentFinal[t] /\ remoteSentFinal[t]
    BY <1>1, <2>1 DEF Recycle, Rest, EndOK
  <2> QED
    BY <1>2, <2>2
<1> QED
  BY <1>3, <1>4, <1>5, <1>6, <1>7, <1>8, <1>9, <1>10 DEF Next, Closer, Submit

\* A Conn leaves its session only through recycling, with both final frames
\* exchanged and Close called, however it is used.
THEOREM RecycleNeedsFinals == Spec => RecycledAfterFinals
<1>1. IInv /\ [Next]_vars => [RecycleStep]_vars
  <2> SUFFICES ASSUME IInv, Next PROVE RecycleStep
    OBVIOUS
  <2> QED
    BY FlagsReset DEF RecycleStep
<1> QED
  BY <1>1, Invariance, PTL DEF Spec, RecycledAfterFinals
=============================================================================
