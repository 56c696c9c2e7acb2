------------------------------ MODULE RapMuxer ------------------------------
(***************************************************************************)
(* A Muxer (src/muxer.go) and its network connection: the goroutines that  *)
(* ServeHTTP starts, the calls that block on the unbuffered writeCh, and   *)
(* the ways a Muxer ends: Close, Shutdown, an I/O error, or a control      *)
(* frame that reports an error.                                            *)
(*                                                                         *)
(* A Conn is reduced to what the Muxer meets of it (RapConn has the rest): *)
(* calls that hold wmu or rmu while they block in ConnWrite, or while they *)
(* read a source or write to a sink, and a Close that holds cmu while it   *)
(* waits for such a call and while its final frame waits for the writer,   *)
(* so that the reader, which needs cmu for the peer's final frame, waits   *)
(* too.                                                                    *)
(*                                                                         *)
(* The peer obeys the protocol and is otherwise free: it writes any frame  *)
(* at any time, and it may stop reading for ever, which is what a peer     *)
(* does whose own reader waits for its writer.  With the network full      *)
(* everyone here may then wait for everyone, and ending the Muxer must     *)
(* undo that.  The network is therefore not a variable: a frame that is    *)
(* read is chosen when it is read, and a write may block for any time.     *)
(***************************************************************************)
EXTENDS Naturals, Sequences, FiniteSets

CONSTANTS
    MaxConnID,     \* Conn IDs are 0..MaxConnID; NewConn never gives out 0
    MaxData,       \* bound: data frames and acks written to a Conn by each end
    BufCap         \* frames that fit in the writer's bufio buffer

ConnID == 0..MaxConnID

ASSUME MuxerAssumption ==
    /\ MaxConnID \in Nat /\ MaxData \in Nat
    /\ BufCap \in Nat

VARIABLES
    handler,       \* does the Muxer serve requests, or send them?
    done,          \* is doneChan closed?
    shut,          \* is the ReadWriteCloser closed?
    connLookup,    \* the IDs whose entry is not nil
    reader,        \* where ReadFrom is
    writer,        \* where WriteTo is
    serving,       \* where ServeHTTP is
    closing,       \* where the call of Close is that closed doneChan
    todo,          \* the IDs closeActiveConns has still to visit
    closer,        \* the Conns whose Close that call is in: none or one
    shutting,      \* where Shutdown is
    pending,       \* pending[g]: frames goroutine g waits to hand to writeCh
    buf,           \* frames in the writer's buffer
    incoming,      \* the Conn of the final frame that ReadFrom submits
    peer,          \* frames the peer may still write to a Conn
    cut,           \* has the peer closed the connection?
    user,          \* where the goroutine is that uses a Conn
    localClosed,   \* conn.localClosed is closed
    sentFinal,     \* conn.localSentFinal
    gotFinal,      \* conn.remoteSentFinal
    sent,          \* data frames of a Conn that ConnWrite accepted
    wired,         \* how many of them have reached the network
    wiredFinal,    \* has the Conn's final frame reached the network?
    unread,        \* data frames submitted to a Conn and not yet read
    nilConn        \* has ReadFrom found no Conn for a frame?

ioVars   == <<buf, wired, wiredFinal>>
peerVars == <<incoming, peer, cut, handler>>
goVars   == <<reader, writer, serving>>
endVars  == <<done, shut, connLookup, closing, todo, closer, shutting>>
userVars == <<user, localClosed, sentFinal, gotFinal>>
histVars == <<sent, unread, nilConn>>
vars     == <<ioVars, peerVars, goVars, endVars, userVars, pending, histVars>>

Kind == {"data", "ack", "final", "ping", "pong", "panic"}

Frame == [kind: Kind, conn: ConnID]

FrameOf(kind, c) == [kind |-> kind, conn |-> c]

\* The goroutines that send on writeCh: the users of Conns, by ID, and others.
Caller == ConnID \cup {MaxConnID + 1, MaxConnID + 2}
ReaderG == MaxConnID + 1    \* ReadFrom, answering a ping
CloserG == MaxConnID + 2    \* Close, closing a Conn

\* The user of a Conn is in no call, in Write or Read and inside ConnWrite, in
\* ReadFrom or WriteTo and inside the source or the sink, or in Close, which
\* waits for another goroutine's call ("lock") or inside ConnWrite ("final").
UserState == {"idle", "open", "call", "ack", "copy", "lock", "final", "closed"}

TypeOK ==
    /\ done \in BOOLEAN
    /\ shut \in BOOLEAN
    /\ connLookup \in SUBSET ConnID
    /\ reader \in {"start", "read", "pong", "final", "end"}
    /\ writer \in {"poll", "put", "flush", "block", "last", "end"}
    /\ serving \in {"first", "close", "second", "end"}
    /\ closing \in {"no", "reader", "conns", "done"}
    /\ todo \in SUBSET ConnID
    /\ closer \in SUBSET ConnID
    /\ Cardinality(closer) <= 1
    /\ shutting \in {"no", "loop", "wait", "timeout", "reader", "done"}
    /\ \A g \in Caller : /\ pending[g] \subseteq Frame
                         /\ Cardinality(pending[g]) <= 1
    /\ Len(buf) <= BufCap + 1
    /\ user \in [ConnID -> UserState]
    /\ localClosed \in [ConnID -> BOOLEAN]
    /\ sentFinal \in [ConnID -> BOOLEAN]
    /\ gotFinal \in [ConnID -> BOOLEAN]
    /\ sent \in [ConnID -> 0..MaxData]
    /\ wired \in [ConnID -> 0..MaxData]
    /\ wiredFinal \in [ConnID -> BOOLEAN]
    /\ unread \in [ConnID -> 0..MaxData]
    /\ incoming \in ConnID
    /\ peer \in [ConnID -> 0..MaxData + 1]
    /\ cut \in BOOLEAN
    /\ handler \in BOOLEAN
    /\ nilConn \in BOOLEAN

\* NewMuxer, and ServeHTTP with its two goroutines.
Init ==
    /\ done = FALSE
    /\ shut = FALSE
    /\ connLookup = ConnID
    /\ reader = "start"
    /\ writer = "poll"
    /\ serving = "first"
    /\ closing = "no"
    /\ todo = {}
    /\ closer = {}
    /\ shutting = "no"
    /\ pending = [g \in Caller |-> {}]
    /\ buf = <<>>
    /\ incoming = 0
    /\ handler \in BOOLEAN
    /\ peer = [c \in ConnID |-> IF c > 0 THEN MaxData + 1 ELSE 0]
    /\ cut = FALSE
    /\ user = [c \in ConnID |-> "idle"]
    /\ localClosed = [c \in ConnID |-> FALSE]
    /\ sentFinal = [c \in ConnID |-> FALSE]
    /\ gotFinal = [c \in ConnID |-> FALSE]
    /\ sent = [c \in ConnID |-> 0]
    /\ wired = [c \in ConnID |-> 0]
    /\ wiredFinal = [c \in ConnID |-> FALSE]
    /\ unread = [c \in ConnID |-> 0]
    /\ nilConn = FALSE

----------------------------------------------------------------------------
(* writeCh.  A goroutine that calls ConnWrite, or the select of Ping or of *)
(* the ping handler, waits until the writer takes its frame or doneChan is *)
(* closed.                                                                 *)

Offer(g, f) == pending' = [pending EXCEPT ![g] = {f}]

Returned(g) == pending[g] = {}

\* Mutant: the reader waits for the writer whatever happens to the Muxer.
Drop_Mutant(g) ==
    /\ done /\ g # ReaderG
    /\ pending[g] # {}
    /\ pending' = [pending EXCEPT ![g] = {}]
    /\ UNCHANGED <<ioVars, peerVars, goVars, endVars, userVars, histVars>>

\* The select takes doneChan: the frame is lost; the ping handler's error
\* ends ReadFrom.
Drop(g) ==
    /\ done
    /\ pending[g] # {}
    /\ pending' = [pending EXCEPT ![g] = {}]
    /\ reader' = IF g = ReaderG THEN "end" ELSE reader
    /\ UNCHANGED <<ioVars, peerVars, writer, serving, endVars, userVars,
                   histVars>>

----------------------------------------------------------------------------
(* The network.  Reads and writes fail once either end is closed; what was *)
(* on its way may be lost.                                                 *)

CanFail == shut \/ cut

\* One frame leaves the buffer.
Push ==
    /\ ~CanFail
    /\ buf # <<>>
    /\ buf' = Tail(buf)
    /\ LET f == Head(buf)
       IN  /\ wired' = [wired EXCEPT ![f.conn] = IF f.kind = "data" THEN @ + 1
                                                                   ELSE @]
           /\ wiredFinal' = [wiredFinal EXCEPT ![f.conn] = @ \/ f.kind = "final"]

----------------------------------------------------------------------------
(* WriteTo.                                                                *)

\* Mutant: a full buffer is discarded and not written.
Buffered_Mutant(f) == IF Len(buf) < BufCap THEN Append(buf, f) ELSE <<f>>

Buffered(f) == Append(buf, f)

\* Mutant: the writer takes frames for which the buffer has no room.
Receive_Mutant(f) ==
    /\ writer \in {"poll", "block", "put"}
    /\ buf' = Buffered(f)
    /\ writer' = IF Len(buf') > BufCap THEN "put" ELSE "poll"

\* WriteTo receives a frame from writeCh and writes it to the buffer.
Receive(f) ==
    /\ writer \in {"poll", "block"}
    /\ buf' = Buffered(f)
    /\ writer' = IF Len(buf') > BufCap THEN "put" ELSE "poll"

\* The frame comes from a goroutine that waits in ConnWrite, or from the
\* handler of a ping.
Take(g) ==
    /\ \E f \in pending[g] :
          /\ Receive(f)
          /\ sent' = [sent EXCEPT ![f.conn] =
                         IF f.kind = "data" THEN @ + 1 ELSE @]
    /\ pending' = [pending EXCEPT ![g] = {}]
    /\ reader' = IF g = ReaderG THEN "read" ELSE reader
    /\ UNCHANGED <<wired, wiredFinal, peerVars, serving, endVars, userVars,
                   unread, nilConn>>

\* The frame comes from a caller of Ping.  It holds no lock while it waits, so
\* its wait is left out.
Ping ==
    /\ Receive(FrameOf("ping", 0))
    /\ UNCHANGED <<wired, wiredFinal, peerVars, reader, serving, endVars,
                   userVars, pending, histVars>>

\* The first select: doneChan is closed, and the buffer is not flushed; or
\* nobody sends, and it is.
Poll ==
    /\ writer = "poll"
    /\ \/ done /\ writer' = "end"
       \/ /\ ~done
          /\ \A g \in Caller : Returned(g)
          /\ writer' = "flush"
    /\ UNCHANGED <<ioVars, peerVars, reader, serving, endVars, userVars,
                   pending, histVars>>

\* Mutant: the second select has no case for doneChan.
Block_Mutant == FALSE /\ UNCHANGED vars

\* The second select: doneChan is closed.
Block ==
    /\ writer = "block"
    /\ done
    /\ writer' = "last"
    /\ UNCHANGED <<ioVars, peerVars, reader, serving, endVars, userVars,
                   pending, histVars>>

\* A frame of the buffer is written to the network.
Write ==
    /\ writer \in {"put", "flush", "last"}
    /\ Push
    /\ writer' = IF writer = "put" /\ Len(buf') <= BufCap THEN "poll"
                                                         ELSE writer
    /\ UNCHANGED <<peerVars, reader, serving, endVars, userVars,
                   pending, histVars>>

\* The buffer has been flushed, or it cannot be.
Flushed ==
    /\ writer \in {"put", "flush", "last"}
    /\ \/ /\ buf = <<>>
          /\ writer' = IF writer = "flush" THEN "block" ELSE "end"
       \/ /\ buf # <<>>
          /\ CanFail
          /\ writer' = "end"
    /\ UNCHANGED <<ioVars, peerVars, reader, serving, endVars, userVars,
                   pending, histVars>>

----------------------------------------------------------------------------
(* ReadFrom.                                                               *)

MuFree == closing \notin {"reader", "conns"} /\ shutting # "reader"

\* conn.cmu is held by a Close in progress.
CmuFree(c) == user[c] \notin {"lock", "final"} /\ c \notin closer

ReadStart ==
    /\ reader = "start"
    /\ MuFree
    /\ reader' = IF done THEN "end" ELSE "read"
    /\ UNCHANGED <<ioVars, peerVars, writer, serving, endVars, userVars,
                   pending, histVars>>

ReadFails ==
    /\ reader = "read"
    /\ CanFail
    /\ reader' = "end"
    /\ UNCHANGED <<ioVars, peerVars, writer, serving, endVars, userVars,
                   pending, histVars>>

\* A frame is there: also one that was buffered before the stream was shut.
Reads == reader = "read" /\ ~cut

\* muxerControlHandlers: a ping is answered; a pong is noted; the panic frame
\* and the reserved ones are errors, which end ReadFrom.
ReadControl ==
    /\ Reads
    /\ \/ /\ Offer(ReaderG, FrameOf("pong", 0))     \* a ping is read
          /\ reader' = "pong"
       \/ UNCHANGED <<pending, reader>>             \* a pong
       \/ /\ reader' = "end"                        \* a panic frame
          /\ UNCHANGED pending
    /\ UNCHANGED <<ioVars, peerVars, writer, serving, endVars, userVars,
                   histVars>>

\* The peer writes to a Conn, its final frame last; when it serves requests it
\* writes only to a Conn on which it has read one.
PeerWrites(kind, c) ==
    /\ handler \/ wired[c] > 0
    /\ peer[c] > 0
    /\ peer[c] = 1 => kind = "final"
    /\ peer' = [peer EXCEPT ![c] = IF kind = "final" THEN 0 ELSE @ - 1]

\* The frame is for a Conn: with a Handler the first one starts Serve.
\* SubmitFrame never blocks on a data frame or an ack, and waits for cmu with
\* a final frame.
ReadConn(kind, c) ==
    /\ Reads
    /\ PeerWrites(kind, c)
    /\ IF c \notin connLookup
       THEN /\ nilConn' = TRUE
            /\ reader' = "end"
            /\ UNCHANGED <<user, unread, incoming>>
       ELSE /\ user' = [user EXCEPT ![c] = IF handler /\ @ = "idle" THEN "open"
                                                                    ELSE @]
            /\ unread' = [unread EXCEPT ![c] = IF kind = "data" THEN @ + 1
                                                                ELSE @]
            /\ reader' = IF kind = "final" THEN "final" ELSE reader
            /\ incoming' = IF kind = "final" THEN c ELSE incoming
            /\ UNCHANGED nilConn
    /\ UNCHANGED <<ioVars, cut, handler, writer, serving, endVars, localClosed,
                   sentFinal, gotFinal, pending, sent>>

\* receivedFinal, with cmu
SubmitFinal ==
    /\ reader = "final"
    /\ CmuFree(incoming)
    /\ gotFinal' = [gotFinal EXCEPT ![incoming] = TRUE]
    /\ reader' = "read"
    /\ incoming' = 0
    /\ UNCHANGED <<ioVars, peer, cut, handler, writer, serving, endVars, user,
                   localClosed, sentFinal, pending, histVars>>

\* The peer closes the connection, or it is lost, and all that was on its way
\* has been read.
PeerCuts ==
    /\ ~cut
    /\ cut' = TRUE
    /\ UNCHANGED <<ioVars, incoming, peer, handler, goVars, endVars, userVars, pending, histVars>>

----------------------------------------------------------------------------
(* The users of Conns.                                                     *)

\* NewConn: it does not ask whether the Muxer is closed.
NewConn(c) ==
    /\ ~handler
    /\ c > 0
    /\ user[c] = "idle"
    /\ user' = [user EXCEPT ![c] = "open"]
    /\ connLookup' = connLookup \cup {c}
    /\ UNCHANGED <<ioVars, peerVars, goVars, done, shut, closing, todo, closer, shutting,
                   localClosed, sentFinal, gotFinal, pending, histVars>>

\* Write and Read get as far as ConnWrite, with a data frame or an ack.
Call(c) ==
    /\ user[c] = "open"
    /\ ~localClosed[c] /\ ~done
    /\ \/ /\ sent[c] < MaxData
          /\ Offer(c, FrameOf("data", c))
          /\ user' = [user EXCEPT ![c] = "call"]
          /\ UNCHANGED unread
       \/ /\ unread[c] > 0
          /\ Offer(c, FrameOf("ack", c))
          /\ user' = [user EXCEPT ![c] = "ack"]
          /\ unread' = [unread EXCEPT ![c] = @ - 1]
    /\ UNCHANGED <<ioVars, peerVars, goVars, endVars, localClosed, sentFinal,
                   gotFinal, sent, nilConn>>

\* After the ack, WriteTo goes on to its sink, and keeps rmu.
CallReturns(c) ==
    /\ user[c] \in {"call", "ack"}
    /\ Returned(c)
    /\ \/ user' = [user EXCEPT ![c] = "open"]
       \/ user[c] = "ack" /\ user' = [user EXCEPT ![c] = "copy"]
    /\ UNCHANGED <<ioVars, peerVars, goVars, endVars, localClosed, sentFinal,
                   gotFinal, pending, histVars>>

\* ReadFrom, with wmu held, reads its source.  Nobody asks for doneChan.
Copy(c) ==
    /\ user[c] = "open"
    /\ ~localClosed[c] /\ ~gotFinal[c]
    /\ user' = [user EXCEPT ![c] = "copy"]
    /\ UNCHANGED <<ioVars, peerVars, goVars, endVars, localClosed, sentFinal,
                   gotFinal, pending, histVars>>

\* The source has data, which gets as far as ConnWrite unless the Conn or the
\* Muxer is closed; or the source has ended, or the sink has taken its data.
CopyReturns(c) ==
    /\ user[c] = "copy"
    /\ \/ /\ ~localClosed[c] /\ ~done
          /\ sent[c] < MaxData
          /\ Offer(c, FrameOf("data", c))
          /\ user' = [user EXCEPT ![c] = "call"]
       \/ /\ user' = [user EXCEPT ![c] = "open"]
          /\ UNCHANGED pending
    /\ UNCHANGED <<ioVars, peerVars, goVars, endVars, localClosed, sentFinal,
                   gotFinal, histVars>>

\* A goroutine is in a call and holds wmu or rmu.
Busy(c) == user[c] \in {"call", "ack", "copy"}

\* Conn.Close, by the user of the Conn, or by another goroutine while the user
\* is in a call.
ConnClose(c) ==
    /\ CmuFree(c)
    /\ \/ /\ user[c] = "open" /\ localClosed[c]
          /\ user' = [user EXCEPT ![c] = "closed"]
          /\ UNCHANGED <<localClosed, sentFinal, pending>>
       \/ /\ user[c] = "open" /\ ~localClosed[c]
          /\ user' = [user EXCEPT ![c] = "final"]
          /\ localClosed' = [localClosed EXCEPT ![c] = TRUE]
          /\ sentFinal' = [sentFinal EXCEPT ![c] = TRUE]
          /\ Offer(c, FrameOf("final", c))
       \/ /\ Busy(c) /\ ~localClosed[c]
          /\ user' = [user EXCEPT ![c] = "lock"]
          /\ localClosed' = [localClosed EXCEPT ![c] = TRUE]
          /\ UNCHANGED <<sentFinal, pending>>
    /\ UNCHANGED <<ioVars, peerVars, goVars, endVars, gotFinal, histVars>>

\* The call has returned, and Close has wmu and rmu.
ConnCloseLocks(c) ==
    /\ user[c] = "lock"
    /\ Returned(c)
    /\ user' = [user EXCEPT ![c] = "final"]
    /\ sentFinal' = [sentFinal EXCEPT ![c] = TRUE]
    /\ Offer(c, FrameOf("final", c))
    /\ UNCHANGED <<ioVars, peerVars, goVars, endVars, localClosed, gotFinal,
                   histVars>>

ConnCloseReturns(c) ==
    /\ user[c] = "final"
    /\ Returned(c)
    /\ user' = [user EXCEPT ![c] = "closed"]
    /\ UNCHANGED <<ioVars, peerVars, goVars, endVars, localClosed, sentFinal, gotFinal, pending, histVars>>

----------------------------------------------------------------------------
(* Close.                                                                  *)

\* Mutant: a Conn that still waits for the peer's final frame counts as idle.
IdleConns_Mutant == {c \in ConnID : ~handler /\ sentFinal[c] /\ CmuFree(c)}

\* The Conns in mux.conns: recycled ones, at the client.
IdleConns ==
    {c \in ConnID : /\ ~handler
                    /\ sentFinal[c] /\ gotFinal[c]
                    /\ CmuFree(c)}

\* closeDoneChanLocked and closing the network connection, with mu held.
BeginClose ==
    /\ MuFree
    /\ ~done
    /\ done' = TRUE
    /\ shut' = TRUE
    /\ closing' = "reader"
    /\ UNCHANGED <<connLookup, todo, closer, shutting>>

Close ==
    /\ BeginClose
    /\ UNCHANGED <<ioVars, peerVars, goVars, userVars, pending, histVars>>

\* readerWaitGroup.Wait returns.
ReaderDone == reader \in {"start", "end"}

\* closeReaderLocked returns, and closeIdleConnsLocked.
CloseReader ==
    /\ closing = "reader"
    /\ ReaderDone
    /\ closing' = "conns"
    /\ todo' = ConnID
    /\ connLookup' = connLookup \ IdleConns
    /\ UNCHANGED <<ioVars, peerVars, goVars, done, shut, closer, shutting, userVars, pending, histVars>>

\* closeActiveConnsLocked: every Conn in connLookup is closed, also those that
\* were never used.
CloseConn(c) ==
    /\ closing = "conns"
    /\ closer = {}
    /\ c \in todo /\ \A d \in todo : c <= d
    /\ todo' = todo \ {c}
    /\ connLookup' = connLookup \ {c}
    /\ c \in connLookup => CmuFree(c)
    /\ IF c \notin connLookup \/ localClosed[c]
       THEN UNCHANGED <<closer, localClosed>>
       ELSE /\ closer' = {c}
            /\ localClosed' = [localClosed EXCEPT ![c] = TRUE]
    /\ UNCHANGED <<ioVars, peerVars, goVars, done, shut, closing, shutting, user,
                   sentFinal, gotFinal, pending, histVars>>

\* The Conn's Close waits for wmu and rmu, and so for a call that is in
\* ConnWrite, in its source or in its sink, and writes the final frame.
CloseConnFinal(c) ==
    /\ c \in closer
    /\ ~sentFinal[c]
    /\ ~Busy(c)
    /\ sentFinal' = [sentFinal EXCEPT ![c] = TRUE]
    /\ Offer(CloserG, FrameOf("final", c))
    /\ UNCHANGED <<ioVars, peerVars, goVars, endVars, user, localClosed, gotFinal,
                   histVars>>

CloseConnReturns(c) ==
    /\ c \in closer
    /\ sentFinal[c]
    /\ Returned(CloserG)
    /\ closer' = {}
    /\ UNCHANGED <<ioVars, peerVars, goVars, done, shut, connLookup, closing, todo,
                   shutting, userVars, pending, histVars>>

CloseReturns ==
    /\ closing = "conns"
    /\ todo = {} /\ closer = {}
    /\ closing' = "done"
    /\ UNCHANGED <<ioVars, peerVars, goVars, done, shut, connLookup, todo, closer,
                   shutting, userVars, pending, histVars>>

----------------------------------------------------------------------------
(* ServeHTTP.                                                              *)

\* The first of the two goroutines has returned.
ServeFirst ==
    /\ serving = "first"
    /\ reader = "end" \/ writer = "end"
    /\ serving' = IF done THEN "second" ELSE "close"
    /\ UNCHANGED <<ioVars, peerVars, reader, writer, endVars, userVars, pending,
                   histVars>>

\* ServeHTTP closes the Muxer; someone else may have done it meanwhile.
ServeClose ==
    /\ serving = "close"
    /\ \/ BeginClose /\ UNCHANGED serving
       \/ /\ MuFree /\ done
          /\ serving' = "second"
          /\ UNCHANGED endVars
    /\ UNCHANGED <<ioVars, peerVars, reader, writer, userVars, pending, histVars>>

ServeSecond ==
    /\ serving = "second"
    /\ reader = "end" /\ writer = "end"
    /\ serving' = "end"
    /\ UNCHANGED <<ioVars, peerVars, reader, writer, endVars, userVars, pending,
                   histVars>>

----------------------------------------------------------------------------
(* Shutdown.                                                               *)

\* closeDoneChan; if this call closed it, closeReader is deferred.
Shutdown ==
    /\ ~handler
    /\ shutting = "no"
    /\ MuFree
    /\ done' = TRUE
    /\ shutting' = IF done THEN "wait" ELSE "loop"
    /\ UNCHANGED <<ioVars, peerVars, goVars, shut, connLookup, closing, todo, closer,
                   userVars, pending, histVars>>

ShutdownLeaves == IF shutting = "loop" THEN "timeout" ELSE "done"

\* closeIdleConns: the idle Conns go; Shutdown is over if no other is left.
ShutdownIdle ==
    /\ shutting \in {"loop", "wait"}
    /\ MuFree
    /\ connLookup' = connLookup \ IdleConns
    /\ shutting' = IF connLookup' = {} THEN ShutdownLeaves ELSE shutting
    /\ UNCHANGED <<ioVars, peerVars, goVars, done, shut, closing, todo, closer, userVars, pending, histVars>>

\* The ticker fires; Close finds doneChan closed and does nothing.
ShutdownTick ==
    /\ shutting \in {"loop", "wait"}
    /\ MuFree
    /\ shutting' = ShutdownLeaves
    /\ UNCHANGED <<ioVars, peerVars, goVars, done, shut, connLookup, closing, todo,
                   closer, userVars, pending, histVars>>

\* The deferred closeReader, which holds mu until the reader has returned.
ShutdownReader ==
    /\ \/ /\ shutting = "timeout"
          /\ MuFree
          /\ shut' = TRUE
          /\ shutting' = "reader"
       \/ /\ shutting = "reader"
          /\ ReaderDone
          /\ shutting' = "done"
          /\ UNCHANGED shut
    /\ UNCHANGED <<ioVars, peerVars, goVars, done, connLookup, closing, todo, closer,
                   userVars, pending, histVars>>

----------------------------------------------------------------------------
\* Both Muxers have ended and nobody is blocked in one of them.
Finished ==
    /\ serving = "end"
    /\ closing \in {"no", "done"}
    /\ shutting \in {"no", "done"}
    /\ \A c \in ConnID : user[c] \in {"idle", "closed"}
    /\ \A g \in Caller : Returned(g)
    /\ UNCHANGED vars

Writer  == (\E g \in Caller : Take(g)) \/ Poll \/ Block \/ Flushed
Reader  == ReadStart \/ SubmitFinal
Peer    == \/ ReadControl \/ Write \/ PeerCuts
           \/ \E c \in ConnID, kind \in {"data", "ack", "final"} : ReadConn(kind, c)
Serve   == ServeFirst \/ ServeClose \/ ServeSecond
Closer  == \/ CloseReader \/ CloseReturns
           \/ \E c \in ConnID : \/ CloseConn(c) \/ CloseConnFinal(c)
                                \/ CloseConnReturns(c)
Returns == \/ \E g \in Caller : Drop(g)
           \/ \E c \in ConnID : CallReturns(c) \/ ConnCloseReturns(c)
Copied(c) == CopyReturns(c) \/ ConnCloseLocks(c)
User    == \E c \in ConnID : \/ NewConn(c) \/ Call(c) \/ Copy(c)
                             \/ ConnClose(c) \/ Copied(c)

Next ==
    \/ Writer \/ Reader \/ ReadFails \/ Serve \/ Closer \/ Returns \/ User \/ Peer
    \/ Ping \/ Close
    \/ Shutdown \/ ShutdownIdle \/ ShutdownTick \/ ShutdownReader
    \/ Finished

Spec == Init /\ [][Next]_vars

(***************************************************************************)
(* Fairness.  A goroutine that can run does run, so that among the calls   *)
(* that can return some call does, and the ticker of Shutdown fires.  The  *)
(* reader's buffer is finite, so that a reader whose stream is shut fails  *)
(* in the end.  Sources deliver or end, and sinks accept: this is asked of *)
(* the callers of ReadFrom and WriteTo, as nothing in this code interrupts *)
(* a source or a sink and Conn.Close waits for both.  Nothing is asked of  *)
(* the peer, nor of a user in no call, which may hold its Conn for ever.   *)
(***************************************************************************)
Fairness ==
    /\ WF_vars(Writer) /\ WF_vars(Reader) /\ WF_vars(Serve)
    /\ SF_vars(ReadFails)
    /\ WF_vars(Closer) /\ WF_vars(Returns)
    /\ \A c \in ConnID : WF_vars(Copied(c))
    /\ WF_vars(ShutdownTick \/ ShutdownReader)

FairSpec == Spec /\ Fairness

----------------------------------------------------------------------------
(* Properties.                                                             *)

\* ReadFrom finds a Conn for every frame: while frames are read, Close and
\* Shutdown take no Conn out of connLookup that the peer may still write to.
NoNilConn == ~nilConn

\* What the Muxer loses when it ends is the end of what was written: a final
\* frame that reaches the network follows every data frame of its Conn that
\* ConnWrite accepted.
FinalComplete == \A c \in ConnID : wiredFinal[c] => wired[c] = sent[c]

\* Close and Shutdown return, whatever the peer does, as long as no source and
\* no sink of a copy blocks for ever: the reader, the writer and the calls that
\* block in the Muxer while they hold locks that Close needs all give way.
CloseEnds ==
    /\ closing # "no" ~> closing = "done"
    /\ shutting # "no" ~> shutting = "done"

\* Once the Muxer is closed or shut down, or its peer has gone, ServeHTTP
\* returns, although its goroutines may have been waiting for each other, for
\* a peer that does not read, and behind a Close for a source or a sink that
\* takes its time.
ServeEnds == done \/ cut ~> serving = "end"
=============================================================================
