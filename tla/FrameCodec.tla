----------------------------- MODULE FrameCodec -----------------------------
(***************************************************************************)
(* The fields of a frame's payload, written by FrameData (src/framedata.go)*)
(* and read by FrameParser (src/frameparser.go): unsigned and signed       *)
(* 64-bit numbers in groups of 7 bits, lengths of one or two bytes, and    *)
(* strings with a length before them.  A payload has no tags: the parser   *)
(* must know the kind of every field and consume exactly its bytes.        *)
(* A writer is an operator from a value to bytes, a reader one from bytes  *)
(* to a value and the number of bytes it took, or to a panic.              *)
(*                                                                         *)
(* The widths are parameters, so that all values of a small word can be    *)
(* checked; the code has GroupBits = 7 and LastGroup = 9.                  *)
(***************************************************************************)
EXTENDS Integers, Sequences

CONSTANTS
    GroupBits,   \* bits of a number in a byte; the highest bit says "more"
    LastGroup    \* index of the last byte a number may have, counted from 0

ASSUME CodecAssumption ==
    /\ GroupBits \in Nat \ {0}
    /\ LastGroup \in Nat

More == 2^GroupBits                         \* 0x80
Byte == 0..(2 * More - 1)
MaxLen == More * 2 * More                   \* 0x8000

ASSUME WidthAssumption == More \in Nat \ {0, 1}

\* What a 1 in the byte at index i of a number stands for: 1 << (7 * i)
Weight[i \in 0..LastGroup] == IF i = 0 THEN 1 ELSE More * Weight[i - 1]

\* A word has one bit more than the groups before the last: 2^64
Word == 2 * Weight[LastGroup]

Uint == 0..(Word - 1)
Int64 == -(Word \div 2)..(Word \div 2 - 1)

----------------------------------------------------------------------------
(* FrameData: what each Write appends.                                     *)

\* WriteUint64
UintBytes[x \in Uint] ==
    IF x < More THEN <<x>>
    ELSE <<More + (x % More)>> \o UintBytes[x \div More]

\* WriteInt64: uint64(x) << 1, inverted if x is negative
ZigZag(x) == LET ux == (2 * x) % Word IN IF x < 0 THEN Word - 1 - ux ELSE ux

IntBytes(x) == UintBytes[ZigZag(x)]

\* Mutant: the limit of the short form is off by one.
LenBytes_Mutant(n) ==
    IF n \notin 0..(MaxLen - 1) THEN <<>>
    ELSE IF n <= More THEN <<n>>
    ELSE <<More + n \div (2 * More), n % (2 * More)>>

\* WriteLen.  Any other length is an error, and nothing is written.
LenBytes(n) ==
    IF n \notin 0..(MaxLen - 1) THEN <<>>
    ELSE IF n < More THEN <<n>>
    ELSE <<More + n \div (2 * More), n % (2 * More)>>

\* WriteString, which returns WriteLen's error, and WriteStringNull
StringBytes(s) ==
    IF s = <<>> THEN <<0, 1>>
    ELSE IF Len(s) < MaxLen THEN LenBytes(Len(s)) \o s ELSE <<>>

NullBytes == <<0, 0>>

----------------------------------------------------------------------------
(* FrameParser: the value read and the number of bytes it took.            *)

Null == <<-1>>    \* the NULL string, which is no sequence of bytes

Panic == [ok |-> FALSE]

Value(v, n) == [ok |-> TRUE, value |-> v, took |-> n]

\* The value of the first n bytes of b, at most LastGroup + 1, as a number,
\* without a word's limit.
Exact(b, n) ==
    LET sum[i \in 0..n] ==
          IF i = 0 THEN 0 ELSE sum[i - 1] + (b[i] % More) * Weight[i - 1]
    IN  sum[n]

\* Mutant: the last byte may hold any value.
Overflows_Mutant(i, b) == i > LastGroup

\* The byte b, the last of a number, at index i: i > 9 || i == 9 && b > 1
Overflows(i, b) == i > LastGroup \/ (i = LastGroup /\ b > 1)

\* What is read next, after r, if that did not panic.
Then(r, Next(_)) == IF r.ok THEN Next(r) ELSE Panic

Drop(b, n) == SubSeq(b, n + 1, Len(b))

\* ReadUint64: bits shifted out of the word are lost.
ReadUint64(b) ==
    LET ends == {i \in DOMAIN b : b[i] < More}
        n == CHOOSE i \in ends : \A j \in ends : i <= j
    IN  IF ends = {} \/ Overflows(n - 1, b[n])
        THEN Panic
        ELSE Value(Exact(b, n) % Word, n)

\* ReadInt64
ReadInt64(b) ==
    Then(ReadUint64(b), LAMBDA u :
         [u EXCEPT !.value = IF @ % 2 = 0 THEN @ \div 2 ELSE -(@ \div 2) - 1])

\* ReadLen
ReadLen(b) ==
    IF b = <<>> THEN Panic
    ELSE IF b[1] < More THEN Value(b[1], 1)
    ELSE IF Len(b) = 1 THEN Panic
    ELSE Value((b[1] % More) * 2 * More + b[2], 2)

\* ReadString: after a zero length a code tells NULL and the empty string.
ReadString(b) ==
    Then(ReadLen(b), LAMBDA n :
         IF n.value > 0
         THEN IF n.took + n.value > Len(b) THEN Panic
              ELSE Value(SubSeq(b, n.took + 1, n.took + n.value),
                         n.took + n.value)
         ELSE Then(ReadLen(Drop(b, n.took)), LAMBDA code :
                   IF code.value > 1 THEN Panic
                   ELSE Value(IF code.value = 0 THEN Null ELSE <<>>,
                              n.took + code.took)))
=============================================================================
