# Verification of RAP

RAP multiplexes HTTP requests and WebSockets as *conns* over one stream
connection. This directory holds TLA+ models of the library, TLC configurations
that check them on small instances, and TLAPS proofs of properties that hold for
every instance. Line numbers refer to `src/`.

## The system

| Part | State | Operations | Interacts with |
|---|---|---|---|
| **Conn** (`conn.go`) | run state, `localClosed`, the two final flags, send window, `ackCh`, `readCh`, write frame `fdw`, mutexes `cmu`, `wmu`, `rmu` | Write, ReadFrom, Flush, Read, WriteTo, Close, SubmitFrame, recycle, Hijack, Serve | its user's goroutines; the Muxer's reader (SubmitFrame); the Muxer's writer (ConnWrite) |
| **Deadlines** (`conn.go`) | `cancel` channel, timer, `mu` | set, wait, timer callback | the selects of readFrame and writeFrame |
| **Muxer** (`muxer.go`) | `conns` pool, `connLookup`, `connLastID`, `writeCh`, `doneChan`, reader wait group | NewConn, ConnRelease, ReadFrom, WriteTo, Close, Shutdown, Ping | Conns; the network; Client and Server |
| **Frames** (`frameheader.go`, `framedata.go`, `frameparser.go`) | bytes | setters, Write*, Read*, WriteTo, ReadFrom | Conn and Muxer |
| **Frame pool** (`framepool.go`) | free buffers | alloc, free | everyone who holds a frame |
| **Client** (`client.go`) | list of Muxers, the current one, `paused`, the last dial | NewConn, NewConnMayDial, ServeHTTP, Shutdown, Close | Muxer, Conn |
| **Server** (`server.go`) | listeners, active Muxers, limiter, `doneChan` | Serve, Close | Muxer |
| **ResponseWriter, ReverseProxy** | header state; transports | Write, WriteHeader, Flush; ServeHTTP | Conn |

Three things make the code hard.

* At each end of a Conn up to four goroutines meet (one writes, one reads, one
  closes, and the Muxer's reader submits frames and recycles), the two ends
  exchange flow control and final frames that cross on the wire, and the same
  object and ID serve session after session. An error is usually a panic.
* All Conns of a Muxer share a reader and a writer that are joined by an
  unbuffered channel. A Close holds `cmu` while it waits for the writer, the
  reader waits for `cmu`, and a peer in the same state reads nothing.
* Client and Server live through lost connections, restarts and each other's
  Close, and neither is told when one of its Muxers dies.

What makes each part correct:

* Conn: a reliable pipe; the window never lost nor exceeded; one final frame per
  end and session; no data after it; recycled once, after both finals, with
  nothing left on the way; every session ends; no panic is reachable.
* Deadlines: apply to blocked calls; never close a channel twice; `set` returns.
* Muxer: unique IDs, none lost; Close, Shutdown and ServeHTTP return whatever
  the peer does, as long as the sources and sinks of its callers return; no data
  frame that was accepted is missing before a final frame on the wire.
* Frames: what is written is what is read, and frames stay apart.
* Client, Server: requests end; the service recovers; slots and Conns are
  neither lost nor counted twice; nothing is left open after Close.

`PROJECT.json` lists the hazards with the lines at which they bite.

## Modules

| Module | Models | Composition |
|---|---|---|
| `RapConn` | two ends of one Conn ID, the links between them, the reader's dispatch | core; implements `ConnPipe` |
| `ConnPipe` | what a session on a Conn promises: two pipes | abstract |
| `ConnDeadline` | `connDeadline`, conn.go:49-115 | in `RapConn` it is the set `Timed` |
| `ConnPool` | NewConn, NewConnWait, AvailableConns, ConnRelease, muxer.go:485-553 | in `RapConn` it is the flag `pooled`, in `RapService` a count |
| `RapMuxer` | one Muxer with its goroutines, several Conns and a peer | Conns reduced to the calls that block in the Muxer |
| `RapService` | a Client and a Server with several Muxers between them | Muxers reduced to alive or dead and a count of Conns |
| `FrameHeader` | the four header bytes at their real widths | operators |
| `FrameCodec` | the fields of a payload, with the widths as parameters | operators |
| `FrameRecord` | requests and responses made of fields | extends `FrameCodec` |
| `FrameWire` | frames from the pool through a byte stream to the parser | composes the three above |
| `RapConnProofs` | proofs about a Conn under any use | extends `RapConn` |
| `RapConnUseProofs` | proofs about a Conn that is used as it should be, and that `RapConn` implements `ConnPipe` | extends `RapConnProofs` |
| `ConnDeadlineProofs`, `ConnPoolProofs`, `RapMuxerProofs`, `RapServiceProofs` | proofs | each extends its module |
| `FrameProofs` | proofs about headers and fields | extends `FrameHeader` and `FrameCodec` |
| `FrameWireProofs` | proofs about frames, fields and records on the wire | extends `FrameWire` and `FrameProofs` |

The layers meet in their abstractions. `RapConn` has one Conn ID in all detail and
takes of the Muxer only that frames arrive in order and may be dropped after
`doneChan` closes. `RapMuxer` has several Conns and takes of each only the calls
that wait for the writer and the locks they hold. `RapService` takes of a Muxer
that a request on it is answered, times out or fails with it.

### RapConn

A goroutine inside an operation is a program counter: `wpc` for the writer,
`rpc` for the reader, `cpc` for Close, `mpc` for Muxer.ReadFrom. A mutex has no
variable of its own: it is held exactly while its holder's counter says so
(`WmuFree`, `RmuFree`, `CmuFree`). Actions end where another goroutine can
notice: at a select, at a lock, at ConnWrite.

* *Writing.* `Fill` starts a frame (WriteStart, a record), `Write` adds body data
  and flushes, `Flush` flushes. Then writeFrame: `WriteAcked`, `WriteFails`,
  `WriteDefault` are the cases of its selects, `WriteSend` is ConnWrite. The
  window is decremented before ConnWrite and `wpc = "send"` lies between.
* *Reading.* `Read`, then `ReadData` and `ReadAck` or `ReadEnds`, for readFrame.
* *Copying.* `ReadFrom` reads its source with `wmu` held (`wpc = "source"`) until
  `SourceRead`; WriteTo writes to its sink with `rmu` held (`rpc = "sink"`) until
  `SinkWrite`. Close and recycling wait for both. `Hijack` sends its own frame.
* *Closing.* `Holder` says who may close: the holder of the Conn, and Serve once
  more after a handler that has closed it (`late`). `CloseBegin` closes
  `localClosed` under `cmu`, `CloseLock` gets `wmu` and `rmu`, `CloseFinal` is
  writeFinalLocked, `CloseFinish` waits for the peer's final or recycles.
* *Incoming.* `MuxStart` is `conn.starting()` with the spawning of Serve, and
  `SubmitAck`, `SubmitData`, `SubmitFinal` are SubmitFrame; `Recycle` is the
  recycling by receivedFinal, which holds `cmu` until it has `wmu` and `rmu`.
* *Abort.* The Muxer's `doneChan` is closed: ConnWrite may drop frames, and
  selects may fail.

A panic of the code sets `panic` and stops the model. A frame carries its type
and, as history, the sender's session and a number; no byte is modelled. A call
that fails before it changes anything (writeStart's errors) is left out.
forceRecycleLocked is one step, although the reader goroutine may run
`starting()` or queue an ack in the middle of it: `RecycledQuietly` shows that no
frame of the session is on its way then, so that there is nothing to interleave
with, except in the uses that `conn_early_reuse` and `conn_double_close` show to
be broken anyway.

The parameters `EarlyClose`, `Copying`, `SelfClosing`, `Sequential`, `Timed`,
`MayAbort`, `UnflushedClose` and `ReadAfterClose` say how the API is used. The
library's client (client.go:237-306) is one goroutine that closes by `defer`. When
nothing fails it closes after it has read the response to its end, which is
`EarlyClose = {"server"}`. When its write or its read fails (client.go:311-315), by a
deadline for one, it closes earlier, which is `EarlyClose` with the client in it and
is what `conn_early_reuse` is about: such a client may reuse the ID too soon. Its
server flushes before it closes (`UnflushedClose = FALSE`).

Bytes of a frame that Read or WriteTo has parsed in part, and that a later call may
still hand out after Close, are left out: a frame is read as a whole.

`ConnPipe` states what is left when windows, acks, locks, queues and recycling are
taken away. The refinement mapping (`Pipe` in `RapConn`) says that an end has
ended its pipe when it has sent its final frame, and has seen its peer's end when
`readCh` is closed and empty; frames written and read are the histories `sent` and
`rcvd`. A dropped frame was never written, and since ConnWrite drops only after
`doneChan` closes, what the peer can still read is complete or has no end.

### RapMuxer

`reader`, `writer` and `serving` are the goroutines of ServeHTTP; `closing` and
`shutting` are a call of Close and of Shutdown, and `user[c]` is the goroutine
that uses Conn `c`. Whoever is blocked on `writeCh` has its frame in `pending`:
the writer takes it (`Take`) or, once `doneChan` is closed, the select may give it
up (`Drop`). A user may also be in the source of `ReadFrom`, with `wmu` held, or in
the sink of `WriteTo`, with `rmu` held (`user[c] = "copy"`), and another goroutine may
close the Conn meanwhile (`"lock"`): Conn.Close waits for both locks with `cmu` held,
and so does the Close of the Muxer (`CloseConnFinal`, while `Busy`). The writer's bufio
buffer is `buf`; it reaches the network in
`Write`, which may be delayed for ever, as the peer need not read. What the peer
writes is chosen when it is read; frames that are in the reader's own buffer are still
read after the stream was shut. Close works in the code's steps: `BeginClose`,
`CloseReader` (the wait for the reader, and the idle Conns), `CloseConn`,
`CloseConnFinal` and `CloseConnReturns` for each Conn in turn, with `mu` held.
Shutdown is modelled as it is: `connLookup` is never empty, so it always times
out, its Close then does nothing, and the deferred closeReader ends the reader.
With `handler` the Muxer serves requests; without, it sends them, uses NewConn, and
may be shut down, as only the Client calls Shutdown. A Conn is used once: reuse is
the matter of `RapConn`. `FinalComplete` counts the data frames that ConnWrite
accepted. A frame that ConnWrite refuses once `doneChan` is closed, with an error to
its caller, may be followed by a final frame that it accepts, as its select takes
either case; the peer then sees an end where only the writer knows of the gap.

### RapService

A link is a connection with a Muxer at either end; links whose Muxers are dead
and have no Conn left are reused as names, since the code keeps such Muxers in its
lists for ever without a further effect. `pc[r]` is a request inside
Client.ServeHTTP: "new" (NewConn), "dial" (waiting for the lock), "pick", "grab"
and "dialing" (the loop of NewConnMayDial, lock held), "serve" and "finish" (on
its Conn). `tried` are the requests whose startTime is older than a failed dial,
which therefore do not dial. `peer[l]` is what the Server has made of a link:
in the backlog, accepted and waiting for a slot, new, serving, ended. A Muxer that
dies takes its requests with it; a Conn released to a dead Muxer goes into its
pool, is handed out again, and fails. Closing a Muxer is one step (`CloseMuxer`), so
that `ClosersReturn` is about the locks of Client and Server and says nothing of a
Muxer.Close that waits for a Conn (muxer.go:426): that is `CloseEnds` of `RapMuxer`,
with its assumption on sources and sinks. `TimedOut` assumes that the Client's
ReadTimeout and WriteTimeout are set and longer than the Server takes to answer.
Temporary errors of Accept only delay it and are left out; a Server is restarted
as a new process, because after Close Serve returns at once (the reset in
trackListenerLocked comes after the test at server.go:102).

### Frames

Writers are operators from values to bytes, readers from bytes to a value and the
bytes it took, or a panic. `FrameWire` puts them together: a frame is taken from
the pool with what its header held last (`FrameDataAllocID`), filled with a field,
a record, a body or flow control flags, written to a stream of bytes, and read
from it. Strings are short sequences of bytes, decimal numbers are one digit.

Some conversions are the identity here because the values are ones they do not
change: a path is clean and not empty (path.Clean, and the index at framedata.go:305,
which panics on an empty path), has nothing that url.Parse would interpret or refuse
(frameparser.go:134), and the keys of headers are canonical, as Header.Add makes them.
ErrFrameTooBig and ErrFrameTooSmall of FrameData.ReadFrom (framedata.go:260-265) are
left out, since no frame of this sender leads to them, and so is a Panic frame with a
payload (src/README.md:30), which this code never writes.

`RecordIntact` asks for the header that was written, key by key and value by value. Of
Content-Length it says: in a request it is the record's ContentLength or, if that is
negative, the number in the header; in a response it is what the handler set, with all
its values, and the number in the record only if the handler set none.

## Runs

| Run | Shows | Bounds |
|---|---|---|
| `conn_close` | no panic, window conserved, pipe intact, `ConnPipe` implemented, with both ends closing at will and either Muxer closed at any time | 1 session, window 2, 2 frames per end: acks and data are in flight together and finals cross |
| `conn_reuse` | two sessions on one ID stay apart, final acks are never answered, recycling is quiet, both sessions end but for one wait without a deadline (see below), Close unblocks Read and Write, also with a client that copies | window 1, 2 frames: writers wait for the window; the server is one goroutine with deadlines, the client has none, and another goroutine may, but need not, close it during a call |
| `conn_any_use` | the invariants that are proved, with every misuse allowed, up to the panic it leads to | 2 sessions, window 1, 1 frame |
| `deadline` | a deadline set again and again around its expiry | 2 waiters, 4 channels |
| `pool` | unique IDs, room to release, exact count, calls return | 3 callers, 2 IDs: the pool runs dry |
| `frames` | frames stay in step, kinds apart, fields, records and bodies as written, no number cut | words of 5 bits in groups of 2, all values; one field or record and one body of up to 3 bytes, in one frame or in two; 2 frames, so that the second has a used buffer |
| `muxer` | no frame without a Conn, no accepted frame missing before a final frame, Close, Shutdown and ServeHTTP return if sources and sinks do | one Conn in use beside ID 0, which is never given out but closed with the rest; 1 data frame and 1 ack each way, buffer for one frame: the writer blocks while user, reader and Close wait for it |
| `service` | limiter and pools exact, requests end, the service recovers, Close and Shutdown return | 2 requests, 2 links, 2 Conns per Muxer, 1 slot, 1 fault |

Window 1 makes every second frame wait for an ack, window 2 allows acks and data
in flight together; the code's capacity of 8 adds no other case. Two sessions are
enough for a frame to arrive in the wrong one. In `frames` a number has as many
groups as make it one bit longer than full groups, as 64 = 9 * 7 + 1 does, and
string lengths lie on both sides of the limits of the short and the long form; a
frame with several fields besides the body is left to the proofs (`FieldsAreRead`), as
all pairs of values would be too many. In
`service` one slot and two links make a connection wait for another's end, and one
fault at any moment is followed by the recovery from it. Deadlock is not checked
in `conn_close` and `conn_any_use`, where a closed Muxer or a panic stops the
system, nor in `deadline` and `frames`, which stop at their bounds.

`conn_close` has one session and `conn_reuse` a client that closes last. Panics on reuse
after a Muxer was closed, and final frames that cross in one session of several, are
therefore reached by the theorems (`NeverPanics`, `FinalAckIsAnswer`) and not by a run.
The client of `conn_reuse` has no deadline because a client whose deadline expires
closes early, and that leads to the panic of `conn_early_reuse`.

`SessionEnds` has an exception, `Stranded`. The peer's final frame does not wake a write
that waits for the window (conn.go:642). An end without a deadline that waits there when
its peer has sent its final frame waits for an ack that will not come; the library's
client writes its request with a deadline only if ReadTimeout is set (client.go:257),
which NewClient does not do, reads only after it has written, and closes only when it returns. Without the exception TLC refutes
`SessionEnds` with just that behaviour. No other wait is excepted, and in
`conn_unflushed`, where both ends have deadlines, the exception is empty.

Four runs show disagreements between code and what the repository says of it:

* `conn_unflushed`: Close with unflushed data sends no final frame (conn.go:749),
  against the comment at conn.go:764; the session never ends. A request too big
  for a frame (framedata.go:356) leaves such data behind.
* `conn_early_reuse`: Close acknowledges the final frame before it recycles
  (conn.go:793); a peer that reuses the ID at once, as README.md:176 allows, runs
  into the panic of conn.go:286.
* `conn_double_close`: Serve closes after a handler that has closed
  (conn.go:904, responsewriter.go:81); the second Close may hit the recycled Conn
  and sends a final frame that ends the client's next session. The client's answer
  recycles the server's Conn under the second Serve, and what that Serve still writes
  makes the client panic.
* `close_complete`: a request that passed the `paused` check dials after
  Client.Close has returned, against client.go:63. That is the trace; read from the
  code, Server.Close likewise misses a connection that is accepted but not yet tracked
  (server.go:146), against server.go:249.

Two more lie in the wire format, where `frames` passes because both ends are this code.
Numbers are written with the least significant group first and -1 as 1
(framedata.go:146-158), while README.md:114 and :119 describe the most significant group
first and another form for negative numbers. And requests carry `Host` and
`Content-Length` in their list of headers (framedata.go:339), which README.md:82 and :84
exclude; `RecordIntact` has them there, as the code does.

Seen while modelling, and not stated as a run: a Read that starts after Close may
acknowledge a frame and the ack reach the next session (conn.go:332; the parameter
`ReadAfterClose`); Muxer.Close, which "closes the Muxer immediately" (muxer.go:434),
waits for the source or sink of every copy on its Conns; Shutdown panics in NewTicker
when ReadTimeout is 0; Client.Shutdown leaves nil entries in `muxers`, on which a late
request panics; ReverseProxy does not return a transport after a failed RoundTrip.

## Fairness

In `RapConn` a goroutine that can run does run (weak fairness of the steps inside
an operation), and a Muxer that is not closed reads what TCP delivers. Locks are
contended, so the steps that need one and can be overtaken, Flush and CloseBegin,
are strongly fair: Go's mutexes do not starve a waiter, handlers return and
clients read to the end, after which both close by `defer`. For that reason Close is
only fair at an end that is in no call (`InNoCall`): nobody is assumed to close a Conn
from outside in order to free a call that blocks. A client that took a
Conn writes its request, and Serve reads its first frame. Sources deliver or end
and sinks accept, which is an assumption about the caller and not about this code:
nothing interrupts a blocked source, and Close waits for it. Nobody has to open a
session, read or write more, or abort.

In `RapMuxer` the Muxer's own goroutines run and the ticker fires. The reader of a
stream that was shut fails in the end (strong fairness of `ReadFails`), as its buffer is
finite. Nothing is asked of the peer (`Write`, which needs the peer to read, is not
fair) nor of a user that is in no call: a handler may hold its Conn for ever, and Close
must end all the same. Of a user inside `ReadFrom` or `WriteTo` it is asked that its
source delivers or ends and its sink accepts (weak fairness of `Copied`). This is an
assumption about the callers: Conn.Close waits for both locks (conn.go:781-784), Muxer.Close
waits for it, and without the assumption neither `CloseEnds` nor `ServeEnds` holds.

In `RapService` goroutines run, timers expire, `Client.mu` is given to every waiter
(strong fairness), and requests keep coming. Nobody has to close, crash or restart
anything: `Recovers` is about behaviours in which the Server stays up from some
moment on. In `ConnDeadline` time passes and callbacks run; in `ConnPool` a caller
inside NewConn runs and timers expire.

## Proofs

All proofs hold for every value of the constants that the ASSUMEs admit. Each
specification has an inductive invariant, TLC has checked it on a small instance
before it was proved, and the proof has one lemma per action or group of actions.
The constants are assumed to be what they stand for (sizes and bounds are natural
numbers, `Request` is finite). `WidthAssumption` of `FrameCodec` says that `More`,
which is `2^GroupBits`, is a number above one; it follows from `CodecAssumption`,
but not for provers that know nothing of `^`. `FrameWire` assumes that the largest
payload fits the 16 bits of a header's size (rap.go:21-23) and that a word has at
least two full groups of bits, of which the code has nine.

**A Conn under any use** (`RapConnProofs`). The invariant is `TypeOK`, `ConnInv`,
`SilentAfterFinal` and `RecycleAllowed` together. `TypeOK` needs `ConnInv` (the
frame to submit is there), and that recycling is allowed follows from who holds
which lock with which flag set. The theorems state the four invariants and
`RecycledAfterFinals`, with handlers that close and hijacked Conns included.

**A Conn used as it should be** (`RapConnUseProofs`). The theorems have the
hypothesis `Disciplined`: data is flushed before Close, a Conn is neither read nor
closed again after it, and an ID serves a second session only if the client waits
for the server's final frame before it closes. Without the first, a part of the
second and the last, `conn_unflushed`, `conn_double_close` and `conn_early_reuse` are
counterexamples; what a Read after Close does is under "Seen while modelling". Window
size, number of sessions and frames, deadlines, copying, the closing of either Muxer
at any time and, in a single session, early closing at both ends are free. What is
inductive is a picture of both links:

* *control*: sessions follow each other on a link and a final frame is the last
  one of its session; the server is in the client's session or in the one before;
  a frame for the receiver's session finds it in that session and without a final
  frame; a Conn outside a session is as new; a server whose client has gone has
  sent its final frame and gets the client's before anything of the next session,
  or gets nothing of the next session: a Muxer that dropped a final frame is closed,
  and the first select of writeFrame stops every later write.
* *data*: the frames of a session on a link, in the queue and being read are
  numbered without a gap from the last one that was read to the last one that was
  sent, or to the number in the final frame; and the units of a window add up.

From this follow `NoPanic` (each panic is a queue that is full or a frame in the
wrong session), `WindowConserved`, `PipeIntact`, `SessionIsolation`,
`FinalAckAnswers` and `RecycledQuietly`.

**A session is a pipe** (`RapConnUseProofs`). `ImplementsPipe`, the refinement of
`ConnPipe`, is proved in full: `Init` maps to its `Init`, and every action, under the
invariant above and the fact that an end that was never opened is untouched, to a
step or to a stutter. `MaxSessions = 1`, since the mapping describes one session, as
in the run `conn_close`. `Disciplined` then leaves early closing at both ends and
closed Muxers free. Most actions change nothing that `ConnPipe` sees; the
interesting ones are SubmitFinal on an empty queue and the reading of a last frame,
where the end of the pipe is seen and all data must have been.

**Deadlines** (`ConnDeadlineProofs`). `TimerOwnsChannel` is the key and is a theorem
of its own: a running timer or a started callback owns an open channel.

**Conn pool** (`ConnPoolProofs`). `OneOwner` with where a caller may hold a Conn, and
a count: `connLastID` is the length of the channel plus the number of holders. The
caller's own Conn is not in the channel, so there is room for it. AvailableConns reads
the channel's length and `connLastID` one after the other (muxer.go:504-505); the model
reads both in one step, so that `AvailableExact` is about a call that nobody overtakes.

**Muxer** (`RapMuxerProofs`). `FinalComplete` speaks of the network, where frames
arrive in the order in which the writer took them. The invariant says where they
are before: what waits, and at whom; that a data frame which ConnWrite accepted is
in the buffer or written (a count over the positions of the buffer); that a final
frame, once submitted, is the last one of its Conn to wait and has no data frame
after it in the buffer. `NoNilConn` needs what the peer can still write to a Conn
that is taken out of `connLookup`: nothing, or nobody reads it any more, as `doneChan`
is closed and the reader has returned or has not begun (`ReaderOver`).

**Client and Server** (`RapServiceProofs`). `ConnsAccounted` is about living Muxers,
but a request may hold and give back a Conn of a dead one, and names of links are
used again: what is inductive bounds the pool of every link, dead or alive, says
that nobody knows a link that was never dialed, and that `Client.mu` is held once.

**Headers and fields** (`FrameProofs`). For every header and its full widths, each
setter sets what it should and leaves the rest and the payload alone, also where
flags and ID share a byte, the getters tell the kinds of frames apart, and a
frame from the pool is clean. For every word width, lengths, strings, unsigned and
signed numbers are read as they were written, at either end of their range, and no
byte of the next field is taken (`LenRoundTrip`, `StringRoundTrip`, `UintRoundTrip`,
`IntRoundTrip`). `UintNeverWraps` is about any bytes, not only those that WriteUint64
writes: ReadUint64 returns the number they stand for, or panics.

**Frames on the wire** (`FrameWireProofs`). All five invariants of `FrameWire` are
proved, for every word width, payload size, number of frames and of fields. What is
inductive is `WireInv`:

* the buffer in the pool, whatever was in its header, is as long as it says;
* the frame that is being filled *carries* what was made: ID, flags and size are
  in its header, and its payload consists of the bytes of its fields, in order;
* what is in the network are exactly the frames that were sent and not read, one
  after the other, each of which carries its message and tells its own size;
* the frames that have arrived are the first ones that were sent, and carry them.

`FramesInSync` alone is not inductive: it says nothing of the bytes that are still to
be read, nor of the frame that is still being written. With `WireInv` a step of the
sender appends a part to a payload or a frame to the network, a step of the reader
cuts off the first frame, and a step of the parser is a round trip of a field.

`RecordIntact` rests on `RequestRoundTrip` and `ResponseRoundTrip`, which hold for all
requests and responses without a string that is too long, whatever follows them in
the frame: the strings of a list and the keys and lists of a map are read back from
the bytes that were written for them, every header gets its values back in order, and
the Content-Length that travels as a number becomes a header again where it should and
replaces none where it should not. `ReadStrings` and `ReadMap` recurse to the right, towards the
end of the bytes, and the proofs show first that such a function has exactly one
value at every position.

What recursive functions compute needs induction over numbers and bytes, and the
library's induction theorems take an operator as a parameter, which the provers cannot
instantiate. The proofs go through sets instead: a set of natural numbers that is not
empty has a least element, so the set of counterexamples, written out in the proof, is
empty (`Least`, `Induct`, `StrongInduct`, `Iterates`).

Every invariant and every action property of the passing runs is stated by a theorem,
and so is the refinement of `ConnPipe`.

Only model-checked: the liveness properties of all modules (`SessionEnds`,
`CloseUnblocks`, `Expires`, `SetReturns`, `NewConnReturns`, `CloseEnds`, `ServeEnds`,
`RequestEnds`, `Recovers`, `ClosersReturn`). They rest on fairness and so on ENABLED,
which is out of the prover's reach.

## Not modelled

* Ownership of frame buffers: a buffer freed twice would need a reader of the model
  to see two users of one buffer, and each holder frees in one place.
* ReverseProxy: its state is that of net/http's transports.
* ResponseWriter's own flags, which only keep WriteHeader and Close from running
  twice; what it writes is in `FrameWire`, its Flush is a handler that closes.
* WriteResponse (conn.go:870), which nothing calls, and which blocks on its own
  lock when the response has a length.
* The commands, statistics, latency, text formatting and record type names.
