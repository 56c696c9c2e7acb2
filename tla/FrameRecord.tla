---------------------------- MODULE FrameRecord ----------------------------
(***************************************************************************)
(* The records a frame begins with: a HTTP request, from WriteRequest of   *)
(* FrameData to ReadRequest of FrameParser, and a HTTP response, from the  *)
(* WriteHeader of ResponseWriter to ProxyResponse of FrameParser           *)
(* (src/framedata.go, src/frameparser.go, src/responsewriter.go).          *)
(*                                                                         *)
(* Strings are short sequences of bytes.  A http.Header and an url.Values  *)
(* are sequences of [key, values] when they are written, in the order in   *)
(* which Go's map iteration happens to visit them, and functions when they *)
(* have been read.  A path is clean already, not empty, and has none of    *)
(* the characters that mean something to url.Parse.                        *)
(***************************************************************************)
EXTENDS FrameCodec, SequencesExt

\* The two header names the code knows, and decimal numbers of one digit;
\* no other text is a number.
ContentLength == <<1>>
Host == <<2>>
FormatInt(n) == <<n>>
IsNumber(s) == Len(s) = 1
ParseInt(s) == s[1]

Entries(m, key) == {i \in DOMAIN m : m[i].key = key}

\* vv[0] of the key, which is there
First(m, key) == m[CHOOSE i \in Entries(m, key) : TRUE].values[1]

----------------------------------------------------------------------------
(* Writing.                                                                *)

StringsBytes(ss) == FlattenSeq([i \in DOMAIN ss |-> StringBytes(ss[i])])

\* Mutant: the list of values does not end with NULL.
MapBytes_Mutant(m) ==
    FlattenSeq([i \in DOMAIN m |-> StringBytes(m[i].key)
                                   \o StringsBytes(m[i].values)]) \o NullBytes

\* A key, its values and NULL, for every key; and NULL.
MapBytes(m) ==
    FlattenSeq([i \in DOMAIN m |-> StringBytes(m[i].key)
                                   \o StringsBytes(m[i].values)
                                   \o NullBytes]) \o NullBytes

\* The first value of Content-Length, if it is there and a number, or other
GivenLength(header, other) ==
    IF Entries(header, ContentLength) # {}
       /\ IsNumber(First(header, ContentLength))
    THEN ParseInt(First(header, ContentLength)) ELSE other

\* WriteRequest, after the record type.  The errors of WriteString are not
\* looked at.
RequestBytes(r) ==
    LET host == IF r.host = <<>> /\ Entries(r.header, Host) # {}
                THEN First(r.header, Host) ELSE r.host
        length == IF r.contentLength < 0 THEN GivenLength(r.header, -1)
                  ELSE r.contentLength
    IN  StringBytes(r.method) \o StringBytes(r.scheme)
        \o LenBytes(0) \o StringBytes(r.path)
        \o MapBytes(r.query) \o MapBytes(r.header)
        \o (IF host = <<>> THEN NullBytes ELSE StringBytes(host))
        \o IntBytes(length)

\* WriteResponse, after the record type
ResponseBytes(r) ==
    LenBytes(r.code) \o MapBytes(r.header) \o IntBytes(r.contentLength)

----------------------------------------------------------------------------
(* Reading.                                                                *)

\* Strings up to NULL
ReadStrings(b) ==
    LET from[i \in 0..Len(b)] ==
          Then(ReadString(Drop(b, i)), LAMBDA s :
               IF s.value = Null THEN Value(<<>>, i + s.took)
               ELSE Then(from[i + s.took], LAMBDA rest :
                         Value(<<s.value>> \o rest.value, rest.took)))
    IN  from[0]

\* Keys and their values up to NULL
ReadMap(b) ==
    LET entry(k, vs) == [key |-> k.value, values |-> vs.value]
        from[i \in 0..Len(b)] ==
          Then(ReadString(Drop(b, i)), LAMBDA k :
               IF k.value = Null THEN Value(<<>>, i + k.took)
               ELSE Then(ReadStrings(Drop(b, i + k.took)), LAMBDA vs :
                         Then(from[i + k.took + vs.took], LAMBDA rest :
                              Value(<<entry(k, vs)>> \o rest.value,
                                    rest.took))))
    IN  from[0]

\* ReadRoute: a route index, which must be 0, and a string
ReadRoute(b) ==
    Then(ReadLen(b), LAMBDA index :
         IF index.value # 0 THEN Panic
         ELSE Then(ReadString(Drop(b, index.took)), LAMBDA s :
                   Value(s.value, index.took + s.took)))

ReadField(kind, b) ==
    CASE kind = "uint"   -> ReadUint64(b)
      [] kind = "int"    -> ReadInt64(b)
      [] kind = "len"    -> ReadLen(b)
      [] kind = "string" -> ReadString(b)
      [] kind = "route"  -> ReadRoute(b)
      [] kind = "map"    -> ReadMap(b)
      [] kind = "body"   -> Value(b, Len(b))

\* Fields one after the other
ReadFields(kinds, b) ==
    LET upto[i \in 0..Len(kinds)] ==
          IF i = 0 THEN Value(<<>>, 0)
          ELSE Then(upto[i - 1], LAMBDA done :
                    Then(ReadField(kinds[i], Drop(b, done.took)), LAMBDA f :
                         Value(Append(done.value, f.value),
                               done.took + f.took)))
    IN  upto[Len(kinds)]

\* What Header.Add and Values.Add make of it: a key without values is gone.
AsMap(m) ==
    LET keys == {m[i].key : i \in {j \in DOMAIN m : m[j].values # <<>>}}
    IN  [k \in keys |-> FlattenSeq([i \in DOMAIN m |->
                           IF m[i].key = k THEN m[i].values ELSE <<>>])]

WithLength(header, n) ==
    [k \in DOMAIN header \cup {ContentLength} |->
        IF k = ContentLength THEN <<FormatInt(n)>> ELSE header[k]]

\* ReadRequest
ReadRequest(b) ==
    Then(ReadFields(<<"string", "string", "route", "map", "map", "string",
                      "int">>, b), LAMBDA f :
         Value([method |-> f.value[1], scheme |-> f.value[2],
                path   |-> f.value[3], query  |-> AsMap(f.value[4]),
                header |-> IF f.value[7] >= 0
                           THEN WithLength(AsMap(f.value[5]), f.value[7])
                           ELSE AsMap(f.value[5]),
                host   |-> IF f.value[6] = Null THEN <<>> ELSE f.value[6],
                contentLength |-> f.value[7]], f.took))

\* Mutant: the number in the record replaces a Content-Length of the header.
ProxyResponse_Mutant(b) ==
    Then(ReadFields(<<"len", "map", "int">>, b), LAMBDA f :
         Value([code |-> f.value[1],
                header |-> IF f.value[3] >= 0
                           THEN WithLength(AsMap(f.value[2]), f.value[3])
                           ELSE AsMap(f.value[2])], f.took))

\* ProxyResponse
ProxyResponse(b) ==
    Then(ReadFields(<<"len", "map", "int">>, b), LAMBDA f :
         Value([code |-> f.value[1],
                header |-> IF f.value[3] >= 0
                              /\ Entries(f.value[2], ContentLength) = {}
                           THEN WithLength(AsMap(f.value[2]), f.value[3])
                           ELSE AsMap(f.value[2])], f.took))
=============================================================================
