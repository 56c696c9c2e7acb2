------------------------------ MODULE RapConn ------------------------------
(***************************************************************************)
(* The two ends of one RAP Conn (src/conn.go), with the part of the Muxer  *)
(* that hands it frames (src/muxer.go, ReadFrom) and the pool its ID comes *)
(* from and returns to.                                                    *)
(*                                                                         *)
(* A Conn ID is used for one session after another.  A session is opened   *)
(* by the client's NewConn; the server's end starts when the first frame   *)
(* for the ID arrives, which spawns Conn.Serve.  Each end sends data       *)
(* frames under a window, acknowledges the ones it reads, and finally      *)
(* sends one final frame.  An end that has sent and received a final frame *)
(* is recycled, and the client may then open the next session on the ID.   *)
(*                                                                         *)
(* At each end up to four goroutines meet: one that writes (it holds wmu), *)
(* one that reads (rmu), one that closes (cmu, then wmu and rmu) and the   *)
(* Muxer's reader, which submits frames without a lock and takes cmu, wmu  *)
(* and rmu to recycle.  A mutex is held exactly while its holder's program *)
(* counter says so, hence WmuFree, RmuFree and CmuFree below.              *)
(***************************************************************************)
EXTENDS Naturals, Sequences, FiniteSets

CONSTANTS
    SendWindowSize,     \* data frames an end may have unacknowledged
    MaxSendWindowSize,  \* capacity of the channels ackCh and readCh
    MaxSessions,        \* bound: how often the client opens the ID
    MaxFrames,          \* bound: data frames an end sends in a session
    EarlyClose,         \* ends that may Close before the peer's final came
    Copying,            \* ends that are hijacked, or copy to and from others
    SelfClosing,        \* ends whose handler may close before Serve does
    Sequential,         \* ends where one goroutine reads, writes and closes
    Timed,              \* ends whose read and write deadlines are set
    MayAbort,           \* ends whose Muxer may be closed
    UnflushedClose,     \* may Close find data in fdw that was not flushed?
    ReadAfterClose      \* may a Read start after Close was called?

Side == {"client", "server"}

Peer(s) == IF s = "client" THEN "server" ELSE "client"

ASSUME WindowAssumption ==
    /\ SendWindowSize \in Nat \ {0}
    /\ MaxSendWindowSize \in Nat
    /\ SendWindowSize <= MaxSendWindowSize

ASSUME BoundAssumption ==
    /\ MaxSessions \in Nat
    /\ MaxFrames \in Nat

ASSUME UsageAssumption ==
    /\ EarlyClose \subseteq Side
    /\ Copying \subseteq Side
    /\ SelfClosing \subseteq Side
    /\ Sequential \subseteq Side
    /\ Timed \subseteq Side
    /\ MayAbort \subseteq Side
    /\ UnflushedClose \in BOOLEAN
    /\ ReadAfterClose \in BOOLEAN

VARIABLES
    runState,         \* conn.state
    localClosed,      \* is the channel conn.localClosed closed?
    localSentFinal,   \* conn.localSentFinal
    remoteSentFinal,  \* conn.remoteSentFinal; readCh is closed with it
    sendWindow,       \* conn.sendWindow
    ackCh,            \* number of acks queued in conn.ackCh
    readCh,           \* frames queued in conn.readCh
    fdw,              \* conn.fdw: no frame, a header only, or with content
    wpc, rpc, cpc,    \* where the writing, reading and closing goroutines are
    mpc,              \* where Muxer.ReadFrom is with the frame it has read
    open,             \* does a caller of NewConn, or Serve, hold the Conn?
    late,             \* calls of Serve whose handler has closed the Conn
    hijacked,         \* conn.hijacked
    pooled,           \* is the client's Conn available to NewConn?
    aborted,          \* is the Muxer's doneChan closed?
    link,             \* link[s]: frames written by s, not yet submitted
    panic,            \* "none", or the panic that ended the program
    session,          \* history: the session an end is in
    sent, rcvd,       \* history: data frames written and read in the session
    total             \* history: how many data frames the peer's final closes

flagVars == <<localClosed, localSentFinal, remoteSentFinal>>
flowVars == <<sendWindow, ackCh>>
connVars == <<runState, flagVars, flowVars, readCh, fdw>>
pcVars   == <<wpc, rpc, cpc, mpc>>
userVars == <<open, late, hijacked, pooled>>
histVars == <<session, sent, rcvd, total>>
vars     == <<connVars, pcVars, userVars, aborted, link, panic, histVars>>

Frame == [type: {"data", "ack", "final", "finalAck"},
          session: 0..MaxSessions,  \* history: the sender's session
          n: Nat]                   \* history: which data frame, or how many in all

Final == {"final", "finalAck"}     \* FrameHeader.IsFinal: either type

FrameOf(s, type, n) == [type |-> type, session |-> session[s], n |-> n]

RunState == {"Unused", "Active", "WaitFin"}

(***************************************************************************)
(* The type invariant.                                                     *)
(***************************************************************************)
TypeOK ==
    /\ runState \in [Side -> RunState]
    /\ localClosed \in [Side -> BOOLEAN]
    /\ localSentFinal \in [Side -> BOOLEAN]
    /\ remoteSentFinal \in [Side -> BOOLEAN]
    /\ sendWindow \in [Side -> 0..SendWindowSize]
    /\ ackCh \in [Side -> 0..MaxSendWindowSize]
    /\ readCh \in [Side -> Seq(Frame)]
    /\ \A s \in Side : Len(readCh[s]) <= MaxSendWindowSize
    /\ fdw \in [Side -> {"nil", "blank", "data"}]
    /\ wpc \in [Side -> {"idle", "source", "flow", "wait", "send"}]
    /\ rpc \in [Side -> {"idle", "select", "ack", "sink"}]
    /\ cpc \in [Side -> {"idle", "lock", "final", "finish"}]
    /\ mpc \in [Side -> {"idle", "submit", "recycle"}]
    /\ open \in [Side -> BOOLEAN]
    /\ late \in [Side -> Nat]
    /\ hijacked \in [Side -> BOOLEAN]
    /\ pooled \in BOOLEAN
    /\ aborted \in [Side -> BOOLEAN]
    /\ link \in [Side -> Seq(Frame)]
    /\ panic \in {"none", "multiple final", "frame after final",
                  "DATA would block", "ACK would block",
                  "window overflow", "cannot recycle"}
    /\ session \in [Side -> 0..MaxSessions]
    /\ sent \in [Side -> Nat]
    /\ rcvd \in [Side -> Nat]
    /\ total \in [Side -> Nat]

Init ==
    /\ runState = [s \in Side |-> "Unused"]
    /\ localClosed = [s \in Side |-> FALSE]
    /\ localSentFinal = [s \in Side |-> FALSE]
    /\ remoteSentFinal = [s \in Side |-> FALSE]
    /\ sendWindow = [s \in Side |-> SendWindowSize]
    /\ ackCh = [s \in Side |-> 0]
    /\ readCh = [s \in Side |-> <<>>]
    /\ fdw = [s \in Side |-> "nil"]
    /\ wpc = [s \in Side |-> "idle"]
    /\ rpc = [s \in Side |-> "idle"]
    /\ cpc = [s \in Side |-> "idle"]
    /\ mpc = [s \in Side |-> "idle"]
    /\ open = [s \in Side |-> FALSE]
    /\ late = [s \in Side |-> 0]
    /\ hijacked = [s \in Side |-> FALSE]
    /\ pooled = TRUE
    /\ aborted = [s \in Side |-> FALSE]
    /\ link = [s \in Side |-> <<>>]
    /\ panic = "none"
    /\ session = [s \in Side |-> 0]
    /\ sent = [s \in Side |-> 0]
    /\ rcvd = [s \in Side |-> 0]
    /\ total = [s \in Side |-> 0]

----------------------------------------------------------------------------
(* The mutexes, ConnWrite and the steps several operations share.          *)

CmuFree(s) == cpc[s] = "idle" /\ mpc[s] # "recycle"

\* Mutant: Close and recycle do not wait for a write in progress.
WmuFree_Mutant(s) == cpc[s] \notin {"final", "finish"}

WmuFree(s) == wpc[s] = "idle" /\ cpc[s] \notin {"final", "finish"}

\* Mutant: Close and recycle do not wait for a read in progress.
RmuFree_Mutant(s) == cpc[s] \notin {"final", "finish"}

RmuFree(s) == rpc[s] = "idle" /\ cpc[s] \notin {"final", "finish"}

\* Mutant: the selects do not wait for localClosed.
Interrupted_NotClosed(s) == aborted[s] \/ s \in Timed

\* The error cases of the selects in readFrame and writeFrame.
Interrupted(s) == localClosed[s] \/ aborted[s] \/ s \in Timed

HasWindow(s) == sendWindow[s] > 0

\* Mutant: flow control frames overtake the data frames that wait.
ConnWrite_Mutant(s, f) ==
    link' = [link EXCEPT ![s] = IF f.type = "data" THEN Append(@, f)
                                                   ELSE <<f>> \o @]

\* Muxer.ConnWrite: once doneChan is closed the frame may be dropped.
ConnWrite(s, f) ==
    \/ link' = [link EXCEPT ![s] = Append(@, f)]
    \/ aborted[s] /\ UNCHANGED link

\* Conn.starting
Starting(s) == IF runState[s] = "Unused" THEN "Active" ELSE runState[s]

\* Mutant: acks are consumed and the window does not grow.
ConsumeAck_Mutant(s, n) ==
    /\ ackCh' = [ackCh EXCEPT ![s] = @ - n]
    /\ UNCHANGED <<sendWindow, panic>>

\* Mutant: the window is not checked for overflow.
ConsumeAck_Unchecked(s, n) ==
    /\ sendWindow' = [sendWindow EXCEPT ![s] = @ + n]
    /\ ackCh' = [ackCh EXCEPT ![s] = @ - n]
    /\ UNCHANGED panic

\* Conn.consumeAck, n times over
ConsumeAck(s, n) ==
    IF sendWindow[s] + n > SendWindowSize
    THEN panic' = "window overflow" /\ UNCHANGED <<sendWindow, ackCh>>
    ELSE /\ sendWindow' = [sendWindow EXCEPT ![s] = @ + n]
         /\ ackCh' = [ackCh EXCEPT ![s] = @ - n]
         /\ UNCHANGED panic

\* Conn.canRecycleLocked
CanRecycle(s) ==
    localClosed[s] /\ fdw[s] = "nil" /\ localSentFinal[s] /\ remoteSentFinal[s]

\* Conn.forceRecycleLocked; the client's onRecycle is Muxer.ConnRelease, the
\* server's is nil.
ForceRecycle(s) ==
    /\ ackCh' = [ackCh EXCEPT ![s] = 0]
    /\ readCh' = [readCh EXCEPT ![s] = <<>>]
    /\ localClosed' = [localClosed EXCEPT ![s] = FALSE]
    /\ localSentFinal' = [localSentFinal EXCEPT ![s] = FALSE]
    /\ remoteSentFinal' = [remoteSentFinal EXCEPT ![s] = FALSE]
    /\ sendWindow' = [sendWindow EXCEPT ![s] = SendWindowSize]
    /\ fdw' = [fdw EXCEPT ![s] = "nil"]
    /\ hijacked' = [hijacked EXCEPT ![s] = FALSE]
    /\ runState' = [runState EXCEPT ![s] = "Unused"]
    /\ pooled' = (pooled \/ s = "client")
    /\ UNCHANGED panic

\* Conn.recycleLocked; wmu and rmu are held.
RecycleLocked(s) ==
    \/ CanRecycle(s) /\ ForceRecycle(s)
    \/ ~CanRecycle(s) /\ panic' = "cannot recycle"
       /\ UNCHANGED <<connVars, hijacked, pooled>>

----------------------------------------------------------------------------
(* Opening, writing and flushing.                                          *)

\* Muxer.NewConn: the client takes the Conn from the pool.
NewConn ==
    /\ pooled
    /\ session["client"] < MaxSessions
    /\ pooled' = FALSE
    /\ open' = [open EXCEPT !["client"] = TRUE]
    /\ session' = [session EXCEPT !["client"] = @ + 1]
    /\ sent' = [sent EXCEPT !["client"] = 0]
    /\ rcvd' = [rcvd EXCEPT !["client"] = 0]
    /\ total' = [total EXCEPT !["client"] = 0]
    /\ UNCHANGED <<connVars, pcVars, late, hijacked, aborted, link, panic>>

\* Serve runs the handler once it has read a frame of the request.
Served(s) == s = "server" => rcvd[s] > 0

\* The caller holds the Conn and gets wmu.
MayLockWrite(s) ==
    /\ open[s]
    /\ Served(s)
    /\ WmuFree(s)
    /\ s \in Sequential => rpc[s] = "idle"
    /\ sent[s] < MaxFrames

\* Conn.writeStart returns nil.  Write errors change nothing and are left out.
MayWrite(s) ==
    /\ MayLockWrite(s)
    /\ ~remoteSentFinal[s]
    /\ ~localClosed[s]

\* WriteStart and a record or nothing written to fdw: nothing is flushed.
Fill(s) ==
    /\ MayWrite(s)
    /\ \E content \in {"blank", "data"} :
          fdw' = [fdw EXCEPT ![s] = IF @ = "data" THEN @ ELSE content]
    /\ UNCHANGED <<runState, flagVars, flowVars, readCh, pcVars, userVars,
                   aborted, link, panic, histVars>>

\* Write and WriteByte: content is added to fdw and flushed.
Write(s) ==
    /\ MayWrite(s)
    /\ fdw' = [fdw EXCEPT ![s] = "nil"]
    /\ wpc' = [wpc EXCEPT ![s] = "flow"]
    /\ UNCHANGED <<runState, flagVars, flowVars, readCh, rpc, cpc, mpc,
                   userVars, aborted, link, panic, histVars>>

\* ReadFrom: with wmu held and a frame to fill, the source is read, which may
\* take any time.
ReadFrom(s) ==
    /\ s \in Copying
    /\ MayWrite(s)
    /\ fdw' = [fdw EXCEPT ![s] = IF @ = "nil" THEN "blank" ELSE @]
    /\ wpc' = [wpc EXCEPT ![s] = "source"]
    /\ UNCHANGED <<runState, flagVars, flowVars, readCh, rpc, cpc, mpc,
                   userVars, aborted, link, panic, histVars>>

\* Hijack, by the server's handler: a frame of its own is written, past fdw
\* and writeStart.
Hijack(s) ==
    /\ s = "server" /\ s \in Copying
    /\ MayLockWrite(s)
    /\ ~hijacked[s]
    /\ hijacked' = [hijacked EXCEPT ![s] = TRUE]
    /\ runState' = [runState EXCEPT ![s] = Starting(s)]
    /\ wpc' = [wpc EXCEPT ![s] = "flow"]
    /\ UNCHANGED <<flagVars, flowVars, readCh, fdw, rpc, cpc, mpc, open, late,
                   pooled, aborted, link, panic, histVars>>

\* The source has data, which is flushed, or an error or EOF.
SourceRead(s) ==
    /\ wpc[s] = "source"
    /\ \/ /\ fdw' = [fdw EXCEPT ![s] = "nil"]
          /\ wpc' = [wpc EXCEPT ![s] = "flow"]
       \/ /\ wpc' = [wpc EXCEPT ![s] = "idle"]
          /\ UNCHANGED fdw
    /\ UNCHANGED <<runState, flagVars, flowVars, readCh, rpc, cpc, mpc,
                   userVars, aborted, link, panic, histVars>>

\* Flush: a blank frame is freed; a frame that is too big is dropped.  Serve
\* flushes even when its handler has closed the Conn.
Flush(s) ==
    /\ open[s] \/ late[s] > 0
    /\ WmuFree(s)
    /\ s \in Sequential => rpc[s] = "idle"
    /\ fdw[s] # "nil"
    /\ fdw' = [fdw EXCEPT ![s] = "nil"]
    /\ \E tooBig \in BOOLEAN :
          wpc' = [wpc EXCEPT ![s] = IF fdw[s] = "blank" \/ tooBig
                                    THEN "idle" ELSE "flow"]
    /\ UNCHANGED <<runState, flagVars, flowVars, readCh, rpc, cpc, mpc,
                   userVars, aborted, link, panic, histVars>>

\* writeFrame, either select: an ack is there.
WriteAcked(s) ==
    /\ wpc[s] \in {"flow", "wait"}
    /\ ackCh[s] > 0
    /\ ConsumeAck(s, 1)
    /\ wpc' = [wpc EXCEPT ![s] = "flow"]
    /\ UNCHANGED <<runState, flagVars, readCh, fdw, rpc, cpc, mpc, userVars,
                   aborted, link, histVars>>

\* writeFrame, either select: closed, aborted or timed out.
WriteFails(s) ==
    /\ wpc[s] \in {"flow", "wait"}
    /\ Interrupted(s)
    /\ wpc' = [wpc EXCEPT ![s] = "idle"]
    /\ UNCHANGED <<connVars, rpc, cpc, mpc, userVars, aborted, link, panic,
                   histVars>>

\* writeFrame, default case: the window decides, unless the peer has closed.
WriteDefault(s) ==
    /\ wpc[s] = "flow"
    /\ ackCh[s] = 0 /\ ~localClosed[s] /\ ~aborted[s]
    /\ \/ /\ remoteSentFinal[s]
          /\ wpc' = [wpc EXCEPT ![s] = "idle"]
          /\ UNCHANGED <<sendWindow, runState>>
       \/ /\ ~remoteSentFinal[s]
          /\ HasWindow(s)
          /\ sendWindow' = [sendWindow EXCEPT ![s] = @ - 1]
          /\ runState' = [runState EXCEPT ![s] = Starting(s)]
          /\ wpc' = [wpc EXCEPT ![s] = "send"]
       \/ /\ ~remoteSentFinal[s]
          /\ ~HasWindow(s)
          /\ wpc' = [wpc EXCEPT ![s] = "wait"]
          /\ UNCHANGED <<sendWindow, runState>>
    /\ UNCHANGED <<flagVars, ackCh, readCh, fdw, rpc, cpc, mpc, userVars,
                   aborted, link, panic, histVars>>

\* writeFrame: the frame goes to the Muxer.
WriteSend(s) ==
    /\ wpc[s] = "send"
    /\ ConnWrite(s, FrameOf(s, "data", sent[s] + 1))
    /\ sent' = [sent EXCEPT ![s] = IF link' = link THEN @ ELSE @ + 1]
    /\ wpc' = [wpc EXCEPT ![s] = "idle"]
    /\ UNCHANGED <<connVars, rpc, cpc, mpc, userVars, aborted, panic,
                   session, rcvd, total>>

----------------------------------------------------------------------------
(* Reading: readFrame, called with rmu held.                               *)

\* A goroutine that also writes has sent its request before it reads.
Read(s) ==
    /\ open[s] \/ (ReadAfterClose /\ localClosed[s])
    /\ RmuFree(s)
    /\ s \in Sequential => wpc[s] = "idle" /\ runState[s] # "Unused"
    /\ rpc' = [rpc EXCEPT ![s] = "select"]
    /\ UNCHANGED <<connVars, wpc, cpc, mpc, userVars, aborted, link, panic,
                   histVars>>

ReadData(s) ==
    /\ rpc[s] = "select"
    /\ readCh[s] # <<>>
    /\ readCh' = [readCh EXCEPT ![s] = Tail(@)]
    /\ rcvd' = [rcvd EXCEPT ![s] = @ + 1]
    /\ rpc' = [rpc EXCEPT ![s] = "ack"]
    /\ UNCHANGED <<runState, flagVars, flowVars, fdw, wpc, cpc, mpc,
                   userVars, aborted, link, panic, session, sent, total>>

\* writeAckFrame; WriteTo then writes to its sink with rmu held, which may
\* take any time.
ReadAck(s) ==
    /\ rpc[s] = "ack"
    /\ ConnWrite(s, FrameOf(s, "ack", 0))
    /\ \/ rpc' = [rpc EXCEPT ![s] = "idle"]
       \/ s \in Copying /\ rpc' = [rpc EXCEPT ![s] = "sink"]
    /\ UNCHANGED <<connVars, wpc, cpc, mpc, userVars, aborted, panic,
                   histVars>>

SinkWrite(s) ==
    /\ rpc[s] = "sink"
    /\ rpc' = [rpc EXCEPT ![s] = "idle"]
    /\ UNCHANGED <<connVars, wpc, cpc, mpc, userVars, aborted, link, panic,
                   histVars>>

\* readCh is closed and empty, or the wait ends with an error.
ReadEnds(s) ==
    /\ rpc[s] = "select"
    /\ \/ remoteSentFinal[s] /\ readCh[s] = <<>>
       \/ Interrupted(s)
    /\ rpc' = [rpc EXCEPT ![s] = "idle"]
    /\ UNCHANGED <<connVars, wpc, cpc, mpc, userVars, aborted, link, panic,
                   histVars>>

----------------------------------------------------------------------------
(* Closing: Close holds cmu from its first step to its last.  wmu and rmu  *)
(* are taken in that order by everyone who takes both, and nothing can     *)
(* change while Close holds only wmu: they are taken in one step.          *)

\* Who holds the Conn closes it.  In a handler that may be the handler itself,
\* and Serve, unless the Conn was hijacked, closes it once more.
Holder(s) ==
    \/ /\ open[s]
       /\ Served(s) \/ remoteSentFinal[s] \/ Interrupted(s)
       /\ s \in EarlyClose \/ remoteSentFinal[s]
       /\ s \in Sequential => wpc[s] = "idle" /\ rpc[s] = "idle"
       /\ UnflushedClose \/ fdw[s] # "data"
       /\ open' = [open EXCEPT ![s] = FALSE]
       /\ \/ UNCHANGED late
          \/ /\ s \in SelfClosing /\ Served(s) /\ ~hijacked[s]
             /\ late' = [late EXCEPT ![s] = @ + 1]
    \/ /\ late[s] > 0
       /\ late' = [late EXCEPT ![s] = @ - 1]
       /\ UNCHANGED open

CloseBegin(s) ==
    /\ CmuFree(s)
    /\ Holder(s)
    /\ IF localClosed[s]
       THEN UNCHANGED <<localClosed, cpc>>
       ELSE /\ localClosed' = [localClosed EXCEPT ![s] = TRUE]
            /\ cpc' = [cpc EXCEPT ![s] = "lock"]
    /\ UNCHANGED <<runState, localSentFinal, remoteSentFinal, flowVars,
                   readCh, fdw, wpc, rpc, mpc, hijacked, pooled, aborted, link,
                   panic, histVars>>

CloseLock(s) ==
    /\ cpc[s] = "lock"
    /\ WmuFree(s) /\ RmuFree(s)
    /\ cpc' = [cpc EXCEPT ![s] = "final"]
    /\ UNCHANGED <<connVars, wpc, rpc, mpc, userVars, aborted, link, panic,
                   histVars>>

\* Mutant: every final frame is marked as an ack.
FinalType_Mutant(s) == "finalAck"

FinalType(s) == IF remoteSentFinal[s] THEN "finalAck" ELSE "final"

\* writeFinalLocked: flushLocked cannot send data, since localClosed is
\* closed; it may consume acks before it fails, and then no final is sent.
CloseFinal(s) ==
    /\ cpc[s] = "final"
    /\ localSentFinal' = [localSentFinal EXCEPT ![s] = TRUE]
    /\ fdw' = [fdw EXCEPT ![s] = "nil"]
    /\ \/ /\ fdw[s] = "data"
          /\ \E n \in 0..ackCh[s] : ConsumeAck(s, n)
          /\ UNCHANGED link
       \/ /\ fdw[s] # "data"
          /\ ConnWrite(s, FrameOf(s, FinalType(s), sent[s]))
          /\ UNCHANGED <<flowVars, panic>>
    /\ cpc' = [cpc EXCEPT ![s] = "finish"]
    /\ UNCHANGED <<runState, localClosed, remoteSentFinal, readCh, wpc, rpc,
                   mpc, userVars, aborted, histVars>>

\* Mutant: Close recycles without waiting for the peer's final.
CloseFinish_Mutant(s) ==
    /\ cpc[s] = "finish"
    /\ cpc' = [cpc EXCEPT ![s] = "idle"]
    /\ ForceRecycle(s)
    /\ UNCHANGED <<wpc, rpc, mpc, open, late, aborted, link, histVars>>

CloseFinish(s) ==
    /\ cpc[s] = "finish"
    /\ cpc' = [cpc EXCEPT ![s] = "idle"]
    /\ \/ /\ ~remoteSentFinal[s]
          /\ runState' = [runState EXCEPT ![s] = "WaitFin"]
          /\ UNCHANGED <<flagVars, flowVars, readCh, fdw, hijacked, pooled,
                         panic>>
       \/ /\ remoteSentFinal[s]
          /\ RecycleLocked(s)
    /\ UNCHANGED <<wpc, rpc, mpc, open, late, aborted, link, histVars>>

----------------------------------------------------------------------------
(* Muxer.ReadFrom and Conn.SubmitFrame.  The frame stays at the head of    *)
(* the link until it is submitted.                                         *)

Incoming(s) == Head(link[Peer(s)])

Consume(s) == link' = [link EXCEPT ![Peer(s)] = Tail(@)]

\* ReadFrom: any frame starts an unused Conn; only a Muxer with a Handler,
\* the server's, then spawns Serve, which opens the session.
MuxStart(s) ==
    /\ mpc[s] = "idle"
    /\ link[Peer(s)] # <<>>
    /\ mpc' = [mpc EXCEPT ![s] = "submit"]
    /\ runState' = [runState EXCEPT ![s] = Starting(s)]
    /\ IF runState[s] = "Unused" /\ s = "server"
       THEN /\ open' = [open EXCEPT ![s] = TRUE]
            /\ session' = [session EXCEPT ![s] = Incoming(s).session]
            /\ sent' = [sent EXCEPT ![s] = 0]
            /\ rcvd' = [rcvd EXCEPT ![s] = 0]
            /\ total' = [total EXCEPT ![s] = 0]
       ELSE UNCHANGED <<open, histVars>>
    /\ UNCHANGED <<flagVars, flowVars, readCh, fdw, wpc, rpc, cpc, late,
                   hijacked, pooled, aborted, link, panic>>

SubmitAck(s) ==
    /\ mpc[s] = "submit"
    /\ Incoming(s).type = "ack"
    /\ IF ackCh[s] < MaxSendWindowSize
       THEN ackCh' = [ackCh EXCEPT ![s] = @ + 1] /\ UNCHANGED panic
       ELSE panic' = "ACK would block" /\ UNCHANGED ackCh
    /\ Consume(s)
    /\ mpc' = [mpc EXCEPT ![s] = "idle"]
    /\ UNCHANGED <<runState, flagVars, sendWindow, readCh, fdw, wpc, rpc,
                   cpc, userVars, aborted, histVars>>

SubmitData(s) ==
    /\ mpc[s] = "submit"
    /\ Incoming(s).type = "data"
    /\ \/ /\ remoteSentFinal[s]
          /\ panic' = "frame after final"
          /\ UNCHANGED readCh
       \/ /\ ~remoteSentFinal[s]
          /\ Len(readCh[s]) >= MaxSendWindowSize
          /\ panic' = "DATA would block"
          /\ UNCHANGED readCh
       \/ /\ ~remoteSentFinal[s]
          /\ Len(readCh[s]) < MaxSendWindowSize
          /\ readCh' = [readCh EXCEPT ![s] = Append(@, Incoming(s))]
          /\ UNCHANGED panic
    /\ Consume(s)
    /\ mpc' = [mpc EXCEPT ![s] = "idle"]
    /\ UNCHANGED <<runState, flagVars, flowVars, fdw, wpc, rpc, cpc,
                   userVars, aborted, histVars>>

\* Mutant: only an active Conn is recycled, not one that waits for the final.
Recycles_Mutant(s) == localSentFinal[s] /\ runState[s] = "Active"

\* Mutant: receivedFinal recycles every Conn.
Recycles_Always(s) == TRUE

\* receivedFinal recycles a Conn that has sent its own final frame.
Recycles(s) == localSentFinal[s]

\* receivedFinal: takes cmu, and keeps it if the Conn is to be recycled.
SubmitFinal(s) ==
    /\ mpc[s] = "submit"
    /\ Incoming(s).type \in Final
    /\ CmuFree(s)
    /\ IF remoteSentFinal[s]
       THEN /\ panic' = "multiple final"
            /\ mpc' = [mpc EXCEPT ![s] = "idle"]
            /\ UNCHANGED <<remoteSentFinal, total>>
       ELSE /\ remoteSentFinal' = [remoteSentFinal EXCEPT ![s] = TRUE]
            /\ total' = [total EXCEPT ![s] = Incoming(s).n]
            /\ mpc' = [mpc EXCEPT ![s] = IF Recycles(s) THEN "recycle"
                                                       ELSE "idle"]
            /\ UNCHANGED panic
    /\ Consume(s)
    /\ UNCHANGED <<runState, localClosed, localSentFinal, flowVars, readCh,
                   fdw, wpc, rpc, cpc, userVars, aborted, session, sent,
                   rcvd>>

\* recycle, called by receivedFinal
Recycle(s) ==
    /\ mpc[s] = "recycle"
    /\ WmuFree(s) /\ RmuFree(s)
    /\ RecycleLocked(s)
    /\ mpc' = [mpc EXCEPT ![s] = "idle"]
    /\ UNCHANGED <<wpc, rpc, cpc, open, late, aborted, link, histVars>>

\* The Muxer of an end is closed: its Conns see ConnAbortChannel closed.
Abort(s) ==
    /\ s \in MayAbort
    /\ ~aborted[s]
    /\ aborted' = [aborted EXCEPT ![s] = TRUE]
    /\ UNCHANGED <<connVars, pcVars, userVars, link, panic, histVars>>

----------------------------------------------------------------------------
\* Every session has ended, and the bound allows no other.
Finished ==
    /\ session["client"] = MaxSessions
    /\ pooled
    /\ \A s \in Side : /\ ~open[s] /\ late[s] = 0
                       /\ wpc[s] = "idle" /\ rpc[s] = "idle"
                       /\ cpc[s] = "idle" /\ mpc[s] = "idle"
                       /\ link[s] = <<>>
    /\ UNCHANGED vars

User(s)   == Fill(s) \/ Write(s) \/ ReadFrom(s) \/ Hijack(s) \/ Flush(s)
             \/ Read(s) \/ CloseBegin(s)
Copier(s) == SourceRead(s) \/ SinkWrite(s)
Writer(s) == WriteAcked(s) \/ WriteFails(s) \/ WriteDefault(s) \/ WriteSend(s)
Reader(s) == ReadData(s) \/ ReadAck(s) \/ ReadEnds(s)
Closer(s) == CloseLock(s) \/ CloseFinal(s) \/ CloseFinish(s)
Submit(s) == SubmitAck(s) \/ SubmitData(s) \/ SubmitFinal(s) \/ Recycle(s)

Next ==
    /\ panic = "none"
    /\ \/ NewConn
       \/ \E s \in Side : User(s) \/ Writer(s) \/ Reader(s) \/ Closer(s)
                          \/ Copier(s) \/ MuxStart(s) \/ Submit(s) \/ Abort(s)
       \/ Finished

Spec == Init /\ [][Next]_vars

\* No call to Read or Write is in progress at the end s.
InNoCall(s) == wpc[s] = "idle" /\ rpc[s] = "idle"

(***************************************************************************)
(* Fairness.  A goroutine that can run does run; TCP delivers, so a Muxer  *)
(* that is not closed reads every frame; sources deliver or end, and sinks *)
(* accept.  Handlers return and clients read to the end, so whoever can    *)
(* flush again and again does, and so does whoever can close and is in no  *)
(* call: Close is deferred (client.go:238, conn.go:904), and no other      *)
(* goroutine has to close for one that is blocked.  A client that has a    *)
(* Conn writes its request, and Serve reads its first frame.  No fairness  *)
(* is asked of NewConn, of any other read or write, or of Abort.           *)
(***************************************************************************)
Fairness ==
    /\ SF_vars(/\ panic = "none"
               /\ runState["client"] = "Unused"
               /\ Write("client"))
    /\ WF_vars(/\ panic = "none"
               /\ rcvd["server"] = 0
               /\ Read("server"))
    /\ \A s \in Side : /\ WF_vars(panic = "none" /\ SourceRead(s))
                       /\ WF_vars(panic = "none" /\ SinkWrite(s))
                       /\ WF_vars(panic = "none" /\ Writer(s))
                       /\ WF_vars(panic = "none" /\ Reader(s))
                       /\ WF_vars(panic = "none" /\ Closer(s))
                       /\ WF_vars(panic = "none" /\ Submit(s))
                       /\ WF_vars(panic = "none" /\ ~aborted[s] /\ MuxStart(s))
                       /\ SF_vars(panic = "none" /\ Flush(s))
                       /\ SF_vars(/\ panic = "none"
                                  /\ InNoCall(s)
                                  /\ CloseBegin(s))

FairSpec == Spec /\ Fairness

----------------------------------------------------------------------------
(* Properties.                                                             *)

\* No interleaving reaches one of the panics of SubmitFrame, receivedFinal,
\* consumeAck and recycleLocked.
NoPanic == panic = "none"

\* The end s is in a session, from NewConn or starting to recycle.
InSession(s) == IF s = "client" THEN ~pooled ELSE runState[s] # "Unused"

FramesIn(q, type, k) ==
    Cardinality({i \in DOMAIN q : q[i].type = type /\ q[i].session = k})

One(b) == IF b THEN 1 ELSE 0

\* Where the units of the window of end s are: unused, with the frame about
\* to be sent, in flight, queued or being read at the peer, or coming back.
WindowUnits(s) ==
    LET p == Peer(s)
        k == session[s]
    IN  sendWindow[s] + One(wpc[s] = "send") + FramesIn(link[s], "data", k)
        + One(session[p] = k /\ rpc[p] = "ack")
        + (IF session[p] = k THEN Len(readCh[p]) ELSE 0)
        + FramesIn(link[p], "ack", k) + ackCh[s]

\* Flow control neither loses nor invents a unit of the send window: while
\* an end is held and no Muxer is closed all units are accounted for, and
\* until it is recycled there are never more than SendWindowSize.
WindowConserved ==
    \A s \in Side :
        /\ InSession(s) => WindowUnits(s) <= SendWindowSize
        /\ open[s] /\ (\A t \in Side : ~aborted[t])
              => WindowUnits(s) = SendWindowSize

\* A Conn is a pipe: what is queued to be read continues what was read, in
\* the order written and without a gap, and once readCh is closed it holds
\* all that the peer had written in the session, so that Read returns EOF
\* only after the last frame.
PipeIntact ==
    \A s \in Side :
        /\ \A i \in DOMAIN readCh[s] :
              /\ readCh[s][i].session = session[s]
              /\ readCh[s][i].n = rcvd[s] + i
        /\ remoteSentFinal[s] => rcvd[s] + Len(readCh[s]) = total[s]

\* Sessions on the same ID do not mix: ReadFrom submits a frame only to an
\* end that is in the session in which the frame was sent, and the server's
\* end is in a session only if a Serve goroutine closes or has closed it.
SessionIsolation ==
    /\ \A s \in Side :
          mpc[s] = "submit" => InSession(s) /\ Incoming(s).session = session[s]
    /\ InSession("server") => open["server"] \/ localClosed["server"]

\* A final frame ack finds its receiver closed and waiting for it, so that
\* it is never answered.
FinalAckAnswers ==
    \A s \in Side :
        mpc[s] = "submit" /\ Incoming(s).type = "finalAck"
            => localSentFinal[s] /\ ~remoteSentFinal[s]

\* After its final frame an end writes no more data: nothing is left to
\* flush, Close has been called, and a write that starts in spite of that
\* gets no further than the first select of writeFrame.
SilentAfterFinal ==
    \A s \in Side :
        localSentFinal[s] => /\ localClosed[s] /\ fdw[s] = "nil"
                             /\ wpc[s] \in {"idle", "flow"}

\* The locks and flags of an end fit together.  Close works under cmu with
\* localClosed closed, and has exclusive use of the Conn once it holds wmu and
\* rmu; receivedFinal recycles, under cmu too, only when both finals are done;
\* the frame that ReadFrom is about to submit is there.
ConnInv ==
    \A s \in Side :
        /\ mpc[s] = "submit" => link[Peer(s)] # <<>>
        /\ mpc[s] = "recycle" => localSentFinal[s] /\ remoteSentFinal[s]
        /\ cpc[s] # "idle" => localClosed[s] /\ mpc[s] # "recycle"
        /\ cpc[s] \in {"final", "finish"} => wpc[s] = "idle" /\ rpc[s] = "idle"
        /\ cpc[s] = "finish" => localSentFinal[s]
        /\ cpc[s] \in {"lock", "final"} => ~localSentFinal[s]
        /\ localClosed[s] /\ cpc[s] = "idle" => localSentFinal[s]

\* Recycling never finds a Conn that may not be recycled: whoever gets there,
\* Close or receivedFinal, has the local end closed and flushed, its final
\* frame sent and the peer's received.
RecycleAllowed == panic # "cannot recycle"

RecycleStep ==
    \A s \in Side :
        (\/ localClosed[s] /\ ~localClosed'[s]
         \/ localSentFinal[s] /\ ~localSentFinal'[s]
         \/ remoteSentFinal[s] /\ ~remoteSentFinal'[s])
           => /\ localClosed[s] /\ localSentFinal[s] /\ remoteSentFinal[s]
              /\ runState'[s] = "Unused"

\* A Conn leaves its session only through recycling, which needs both final
\* frames: the flags set on the way are not taken back by any other step.
RecycledAfterFinals == [][RecycleStep]_vars

RecycleIsQuiet ==
    \A s \in Side :
        localClosed[s] /\ ~localClosed'[s]
           => /\ mpc[s] # "submit"
              /\ \A i \in DOMAIN link[Peer(s)] :
                     link[Peer(s)][i].session > session[s]

\* When an end recycles, no frame of the session it leaves is still on its
\* way to it.
RecycledQuietly == [][RecycleIsQuiet]_vars

\* With MaxSessions = 1: has the end left its session?
Left(s) == session[s] = MaxSessions /\ ~InSession(s)

Pipe == INSTANCE ConnPipe WITH
            ended <- [s \in Side |-> localSentFinal[s] \/ Left(s)],
            over  <- [s \in Side |-> \/ remoteSentFinal[s] /\ readCh[s] = <<>>
                                    \/ Left(s)]

\* Behind windows, acks, locks, drops and final frames a session is a pair of
\* pipes: no frame is read that was not written, the end of a pipe is seen
\* after its last frame, nothing is written after it, and an end is recycled
\* only when both pipes have ended.
ImplementsPipe == Pipe!Spec

\* The peer has closed, and so acknowledges nothing any more, while a write of
\* the end s waits for the window: nothing but a deadline wakes it.
Stranded(s) ==
    wpc[s] = "wait" /\ remoteSentFinal[s] /\ ackCh[s] = 0 /\ s \notin Timed

\* Every session ends: the client's Conn returns to the pool, and the
\* server's end becomes unused again.  The one thing that keeps a session from
\* ending is a write that waits for the window of a peer that has closed.
SessionEnds ==
    \A s \in Side :
        InSession(s) ~> ~InSession(s) \/ (\E t \in Side : Stranded(t))

\* Close unblocks the calls to Read and Write that are blocked.
CloseUnblocks ==
    \A s \in Side :
        localClosed[s] ~> ~localClosed[s] \/ InNoCall(s)
=============================================================================
