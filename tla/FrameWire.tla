----------------------------- MODULE FrameWire -----------------------------
(***************************************************************************)
(* Frames on their way from one Muxer to the other: a frame is taken from  *)
(* the pool (src/framepool.go), filled (src/framedata.go), written to the  *)
(* network, read from it and parsed.  The network carries bytes, without   *)
(* marks between frames: ReadFrom finds the end of a frame by its header.  *)
(*                                                                         *)
(* The bytes of a header have 8 bits, those of a payload GroupBits + 1.    *)
(***************************************************************************)
EXTENDS FrameHeader, FrameRecord

CONSTANTS
    ID,              \* the Conn IDs that are used
    StringLen,       \* bound: lengths of the strings that are written
    MaxFields,       \* bound: fields written, over all frames
    MaxBodies,       \* bound: bodies written, over all frames
    MaxFrames,       \* bound: frames written
    MaxRaw,          \* bound: bytes in a body
    FrameMaxPayload  \* FrameMaxPayloadSize

ASSUME WireAssumption ==
    /\ ID \subseteq 0..(MuxerConnID - 1)
    /\ StringLen \subseteq Nat
    /\ MaxFields \in Nat /\ MaxBodies \in Nat
    /\ MaxFrames \in Nat /\ MaxRaw \in Nat
    /\ FrameMaxPayload \in Nat
    /\ FrameMaxPayload < 65536   \* the Size of a header has 16 bits
    /\ LastGroup >= 2            \* the lengths written below are numbers

VARIABLES
    fd,      \* the frame that is being filled, or <<>>
    made,    \* what has been put into it
    pool,    \* the header of the frame that FrameDataAlloc takes next
    wire,    \* the bytes in the network
    sent,    \* what was put into each frame that was written to the network
    got      \* the frames that ReadFrom has read

vars == <<fd, made, pool, wire, sent, got>>

\* NewFrameData, up to its header's end
NewFrameData == <<0, 0, 0, 0>>

HeaderOf(f) == SubSeq(f, 1, FrameHeaderSize)
Payload(f) == Drop(f, FrameHeaderSize)

Nothing == [id |-> 0, flags |-> {}, fields |-> <<>>, size |-> 0]

Init ==
    /\ fd = <<>>
    /\ made = Nothing
    /\ pool = NewFrameData
    /\ wire = <<>>
    /\ sent = <<>>
    /\ got = <<>>

----------------------------------------------------------------------------
(* Filling a frame.                                                        *)

\* FrameDataAllocID: a frame of the pool keeps nothing of its last use.
FrameDataAllocID(id) ==
    /\ fd = <<>>
    /\ Len(sent) < MaxFrames
    /\ fd' = ClearID(pool, id)
    /\ made' = [Nothing EXCEPT !.id = id]
    /\ UNCHANGED <<pool, wire, sent, got>>

\* The fields of some kinds that have been written, over all frames.
Written(kinds) ==
    FoldLeft(LAMBDA n, m : n + Len(SelectSeq(m.fields, LAMBDA f : f.kind \in kinds)),
             0, Append(sent, made))

Bodies == Written({"body"})
Fields == Written({"uint", "int", "len", "string", "request", "response"})

Field(kind, value) == [kind |-> kind, value |-> value]

\* A field is appended, and a flag set.
Put(flag, field, bytes) ==
    /\ fd # <<>>
    /\ "Flow" \notin made.flags
    /\ made.id # MuxerConnID
    /\ IF flag = "Body" THEN Bodies < MaxBodies ELSE Fields < MaxFields
    /\ fd' = SetFlag(fd, flag) \o bytes
    /\ made' = [made EXCEPT !.flags = @ \cup {flag},
                            !.fields = Append(@, field),
                            !.size = @ + Len(bytes)]
    /\ UNCHANGED <<pool, wire, sent, got>>

NoBody == "Body" \notin made.flags

WriteUint64(x) == NoBody /\ Put("Head", Field("uint", x), UintBytes[x])

WriteInt64(x) == NoBody /\ Put("Head", Field("int", x), IntBytes(x))

WriteLen(n) == NoBody /\ Put("Head", Field("len", n), LenBytes(n))

WriteString(s) == NoBody /\ Put("Head", Field("string", s), StringBytes(s))

WriteStringNull == NoBody /\ Put("Head", Field("string", Null), NullBytes)

\* Write, for the body
Write(bytes) == NoBody /\ Put("Body", Field("body", bytes), bytes)

\* WriteRecordType and a record, the first thing in a frame
Record(kind, type, r, bytes) ==
    /\ made.fields = <<>>
    /\ Put("Head", Field(kind, r), <<type>> \o bytes)

WriteRequest(r) == Record("request", 3, r, RequestBytes(r))

WriteResponse(r) == Record("response", 4, r, ResponseBytes(r))

\* ResponseWriter.WriteHeader
WriteHeader(code, header) ==
    WriteResponse([code |-> code, header |-> header,
                   contentLength |-> GivenLength(header, -1)])

\* An ack, a final frame, or a final frame's ack
MakeFlow(flags) ==
    /\ fd # <<>>
    /\ made.flags = {}
    /\ fd' = [fd EXCEPT ![3] = Unmasked(@) + Control(flags)]
    /\ made' = [made EXCEPT !.flags = flags]
    /\ UNCHANGED <<pool, wire, sent, got>>

ToMuxer(flags, x) ==
    [id |-> MuxerConnID, flags |-> flags, fields |-> <<Field("int", x)>>,
     size |-> Len(IntBytes(x))]

\* Ping: FrameDataAlloc leaves the size that is in the header.
Ping(x) ==
    /\ fd = <<>>
    /\ Len(sent) < MaxFrames
    /\ Fields < MaxFields
    /\ LET f == SetMuxerControl(pool, {"Body"}) \o IntBytes(x)
       IN  fd' = SetSizeValue(f, Len(f) - FrameHeaderSize)
    /\ made' = ToMuxer({"Body"}, x)
    /\ UNCHANGED <<pool, wire, sent, got>>

\* muxerControlPingHandler answers with the frame that was read.
Pong ==
    /\ fd = <<>>
    /\ Len(sent) < MaxFrames
    /\ got # <<>>
    /\ IsMuxerControl(Last(got))
    /\ FrameControl(Last(got)) = {"Body"}
    /\ fd' = SetMuxerControl(Last(got), {"Body", "Head"})
    /\ made' = ToMuxer({"Body", "Head"}, ReadInt64(Payload(Last(got))).value)
    /\ UNCHANGED <<pool, wire, sent, got>>

----------------------------------------------------------------------------
(* The network.                                                            *)

\* WriteTo: the size is set if there is a payload.
WithSize(f) ==
    IF HasPayload(f) THEN SetSizeValue(f, Len(f) - FrameHeaderSize) ELSE f

\* WriteTo, and FrameDataFree.  A frame without flags has nothing in it and
\* is freed unwritten; one that is too big is an error.
WriteTo ==
    /\ fd # <<>>
    /\ IF Len(Payload(fd)) > FrameMaxPayload
       THEN UNCHANGED <<pool, wire, sent>>
       ELSE /\ pool' = HeaderOf(WithSize(fd))
            /\ IF made.flags = {}
               THEN UNCHANGED <<wire, sent>>
               ELSE wire' = wire \o WithSize(fd) /\ sent' = Append(sent, made)
    /\ fd' = <<>>
    /\ made' = Nothing
    /\ UNCHANGED got

\* ReadFrom: the header, and the payload if the header says there is one.
ReadFrom ==
    /\ Len(wire) >= FrameHeaderSize
    /\ LET size == IF HasPayload(wire) THEN SizeValue(wire) ELSE 0
       IN  /\ Len(wire) >= FrameHeaderSize + size
           /\ got' = Append(got, SubSeq(wire, 1, FrameHeaderSize + size))
           /\ wire' = Drop(wire, FrameHeaderSize + size)
    /\ UNCHANGED <<fd, made, pool, sent>>

----------------------------------------------------------------------------
(* The values that are written.                                            *)

\* Strings with different bytes in them.
Strings == {[i \in 1..n |-> (3 * i) % (2 * More)] : n \in StringLen}

Entry(key, values) == [key |-> key, values |-> values]

Maps ==
    {<<>>, <<Entry(<<3>>, <<>>)>>, <<Entry(<<>>, <<<<>>>>)>>,
     <<Entry(<<3>>, <<<<1>>, <<2, 0>>>>), Entry(<<0>>, <<<<>>, <<3>>>>)>>}

Headers ==
    Maps \cup {<<Entry(ContentLength, vs)>> :
               vs \in {<<<<2>>>>, <<<<3, 3>>>>, <<<<2>>, <<3>>>>}}
         \cup {<<Entry(Host, <<<<1>>>>), Entry(<<3>>, <<s>>)>> : s \in Strings}

Lengths == {-1, 0, 3}

Requests ==
    [method : {<<3, 3>>}, scheme : {<<>>}, path : {<<1>>}, query : Maps,
     header : {<<>>}, host : {<<2>>}, contentLength : Lengths]
    \cup
    [method : {<<3, 3>>}, scheme : {<<>>}, path : {<<1>>}, query : {<<>>},
     header : Headers, host : {<<>>, <<2>>}, contentLength : Lengths]

Codes == {1, More, MaxLen - 1}

Responses ==
    [code : Codes, header : {<<>>}, contentLength : Lengths]
    \cup [code : {1}, header : Headers, contentLength : Lengths]

\* Bytes around the limits of the encodings.
Contents ==
    UNION {[1..n -> {1, 2, 2 * More - 1}] : n \in 0..MaxRaw}

FlowFlags == {{"Flow"}, {"Flow", "Body"}, {"Flow", "Body", "Head"}}

Next ==
    \/ \E id \in ID : FrameDataAllocID(id)
    \/ \E x \in Uint : WriteUint64(x)
    \/ \E x \in Int64 : WriteInt64(x)
    \/ \E n \in 0..(MaxLen - 1) : WriteLen(n)
    \/ \E s \in Strings : Len(s) < MaxLen /\ WriteString(s)
    \/ WriteStringNull
    \/ \E bytes \in Contents : Write(bytes)
    \/ \E r \in Requests : WriteRequest(r)
    \/ \E r \in Responses : WriteResponse(r) \/ WriteHeader(r.code, r.header)
    \/ \E flags \in FlowFlags : MakeFlow(flags)
    \/ \E x \in Int64 : Ping(x)
    \/ Pong
    \/ WriteTo
    \/ ReadFrom

Spec == Init /\ [][Next]_vars

----------------------------------------------------------------------------
\* The frame that was read last.
Received == {Len(got)} \ {0}

\* The receiver never loses the frames' boundaries: every frame it reads has
\* the Conn ID and the flags of the frame that was written, in order, and no
\* other bytes than its payload; whatever was in the frame when it was taken
\* from the pool.
FramesInSync ==
    /\ Len(got) <= Len(sent)
    /\ \A i \in Received :
          /\ ConnID(got[i]) = sent[i].id
          /\ FrameControl(got[i]) = sent[i].flags
          /\ Len(Payload(got[i])) = sent[i].size
    /\ Len(got) = Len(sent) => wire = <<>>

\* A frame for a Conn is of one kind for SubmitFrame: an ack, a final frame or
\* one with a payload, and it is the kind its sender made; a final frame's ack
\* is final.
KindsApart ==
    \A i \in Received :
       LET h == got[i] IN
       ~IsMuxerControl(h) =>
           /\ HasPayload(h) <=> (sent[i].fields # <<>>)
           /\ IsAck(h) <=> sent[i].flags = {"Flow"}
           /\ IsFinal(h) <=> {"Flow", "Body"} \subseteq sent[i].flags
           /\ IsFinalAck(h) <=> sent[i].flags = Flag

Basic == {"uint", "int", "len", "string", "body"}

\* A parser that knows the kinds of the fields reads their values from b, does
\* not panic, and leaves no byte.
ReadsAll(fields, b) ==
    LET read == ReadFields([j \in DOMAIN fields |-> fields[j].kind], b)
    IN  /\ read.ok
        /\ read.value = [j \in DOMAIN fields |-> fields[j].value]
        /\ read.took = Len(b)

\* What was written is what is read: the fields of a frame have the values
\* they were written with, the parser does not panic, and no byte is left.
FieldsRoundTrip ==
    \A i \in Received :
       (\A j \in DOMAIN sent[i].fields : sent[i].fields[j].kind \in Basic) =>
           ReadsAll(sent[i].fields, Payload(got[i]))

\* ReadUint64 never returns a number that was cut to fit a word, whatever the
\* bytes: it returns the exact number they stand for, or panics.
NoSilentWrap ==
    \A i \in Received :
       LET u == ReadUint64(Payload(got[i]))
       IN  u.ok => u.value = Exact(Payload(got[i]), u.took)

\* No string of the header is too long for WriteString.
Short(header) ==
    \A i \in DOMAIN header : \A j \in DOMAIN header[i].values :
       Len(header[i].values[j]) < MaxLen

\* The header h has the keys of g and, for each, the same values in the same
\* order, but for Content-Length, which is n unless n is negative.
SameHeader(h, g, n) ==
    LET set == {k \in {ContentLength} : n >= 0}
    IN  /\ DOMAIN h = DOMAIN g \cup set
        /\ \A k \in set : h[k] = <<FormatInt(n)>>
        /\ \A k \in DOMAIN g \ set : h[k] = g[k]

\* ContentLength is that of r, or else the Content-Length of its header.
SameRequest(q, r) ==
    /\ q.method = r.method /\ q.scheme = r.scheme /\ q.path = r.path
    /\ q.query = AsMap(r.query)
    /\ q.host = IF r.host = <<>> /\ Entries(r.header, Host) # {}
                THEN First(r.header, Host) ELSE r.host
    /\ q.contentLength = IF r.contentLength >= 0 THEN r.contentLength
                         ELSE GivenLength(r.header, -1)
    /\ SameHeader(q.header, AsMap(r.header), q.contentLength)

\* A Content-Length in the header is left as the handler set it.
SameResponse(q, r) ==
    /\ q.code = r.code
    /\ SameHeader(q.header, AsMap(r.header),
                  IF Entries(r.header, ContentLength) = {} THEN r.contentLength ELSE -1)

\* A record that was read from b is as it should be, and so is what follows it.
Intact(read, b, fields, Same(_)) ==
    read.ok /\ Same(read.value) /\ ReadsAll(fields, Drop(b, read.took))

\* The server's http.Request is the one that the client was asked to send, and
\* the client's http.ResponseWriter gets the status and the header that the
\* handler set, in whatever order maps are visited: lists end where they
\* should, an empty string is not NULL, Content-Length has the values it had or
\* the number in the record, and the body that follows in the frame begins
\* where it should.
\* This needs every string to be shorter than MaxLen, since WriteRequest and
\* WriteResponse leave others out without an error.
RecordIntact ==
    \A i \in Received :
       sent[i].fields # <<>> =>
          LET f == Head(sent[i].fields)
              b == Drop(Payload(got[i]), 1)
          IN  /\ f.kind = "request" /\ Short(f.value.header) =>
                    Intact(ReadRequest(b), b, Tail(sent[i].fields),
                           LAMBDA q : SameRequest(q, f.value))
              /\ f.kind = "response" /\ Short(f.value.header) =>
                    Intact(ProxyResponse(b), b, Tail(sent[i].fields),
                           LAMBDA q : SameResponse(q, f.value))
=============================================================================
