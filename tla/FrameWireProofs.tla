--------------------------- MODULE FrameWireProofs ---------------------------
(***************************************************************************)
(* The receiver of frames never loses their boundaries and reads what was  *)
(* written, fields, records and bodies, for every number of frames and     *)
(* fields and every width of a word.                                       *)
(***************************************************************************)
EXTENDS FrameProofs, FrameWire

----------------------------------------------------------------------------
(* Parts that follow one another in a sequence of bytes.                   *)

\* pos[j] is where the part q[j] ends in b.
Layout(b, q, pos) ==
    /\ pos \in [0..Len(q) -> Nat] /\ pos[0] = 0 /\ pos[Len(q)] = Len(b)
    /\ \A j \in 1..Len(q) :
          /\ pos[j] = pos[j - 1] + Len(q[j])
          /\ pos[j] <= Len(b)
          /\ \A i \in 1..Len(q[j]) : b[pos[j - 1] + i] = q[j][i]

\* b consists of the parts q, in this order.
Joined(b, q) ==
    /\ b \in Seq(Nat) /\ q \in Seq(Seq(Nat))
    /\ \E pos : Layout(b, q, pos)

\* Two sequences, one after the other.
LEMMA Concat ==
    ASSUME NEW a \in Seq(Nat), NEW c \in Seq(Nat)
    PROVE  /\ a \o c \in Seq(Nat) /\ Len(a \o c) = Len(a) + Len(c)
           /\ \A i \in 1..Len(a) : (a \o c)[i] = a[i]
           /\ \A i \in 1..Len(c) : (a \o c)[Len(a) + i] = c[i]
<1>1. Len(a) \in Nat /\ Len(c) \in Nat
  BY LenProperties
<1> QED
  BY <1>1, ConcatProperties

\* A part of a sequence of parts.
LEMMA PartType ==
    ASSUME NEW q \in Seq(Seq(Nat)), NEW j \in 1..Len(q)
    PROVE  q[j] \in Seq(Nat) /\ Len(q[j]) \in Nat
OBVIOUS

\* No parts make no bytes.
LEMMA JoinedNone == Joined(<<>>, <<>>)
<1> DEFINE pos == [i \in 0..0 |-> 0]
<1>1. <<>> \in Seq(Nat) /\ <<>> \in Seq(Seq(Nat)) /\ Len(<<>>) = 0
  OBVIOUS
<1>2. pos \in [0..0 -> Nat] /\ pos[0] = 0
  OBVIOUS
<1> HIDE DEF pos
<1>3. \A j \in 1..0 : FALSE
  OBVIOUS
<1>4. Layout(<<>>, <<>>, pos)
  BY <1>1, <1>2, <1>3 DEF Layout
<1> QED
  BY <1>1, <1>4 DEF Joined

\* Nothing is made of no parts.
LEMMA JoinedEmpty ==
    ASSUME NEW b, Joined(b, <<>>)
    PROVE  b = <<>>
<1>1. PICK pos : Layout(b, <<>>, pos)
  BY DEF Joined
<1>2. Len(b) = 0
  BY <1>1 DEF Layout
<1>3. b \in Seq(Nat)
  BY DEF Joined
<1> QED
  BY <1>2, <1>3, EmptySeq

\* A part is appended.
LEMMA JoinedAppend ==
    ASSUME NEW b, NEW q, Joined(b, q), NEW f \in Seq(Nat)
    PROVE  Joined(b \o f, Append(q, f))
<1> DEFINE c == b \o f
           r == Append(q, f)
<1>1. PICK pos : Layout(b, q, pos)
  BY DEF Joined
<1>2. b \in Seq(Nat) /\ q \in Seq(Seq(Nat)) /\ Len(b) \in Nat /\ Len(f) \in Nat /\ Len(q) \in Nat
  BY LenProperties DEF Joined
<1> DEFINE n == Len(q)
           p == [i \in 0..(n + 1) |-> IF i = n + 1 THEN Len(b) + Len(f) ELSE pos[i]]
<1>3. /\ c \in Seq(Nat) /\ Len(c) = Len(b) + Len(f)
      /\ \A i \in 1..Len(b) : c[i] = b[i]
      /\ \A i \in 1..Len(f) : c[Len(b) + i] = f[i]
  BY <1>2, Concat
<1>4. /\ r \in Seq(Seq(Nat)) /\ Len(r) = n + 1 /\ r[n + 1] = f
      /\ \A j \in 1..n : r[j] = q[j]
  BY <1>2, AppendProperties
<1>5. /\ pos \in [0..n -> Nat] /\ pos[0] = 0 /\ pos[n] = Len(b)
      /\ \A j \in 1..n : pos[j] = pos[j - 1] + Len(q[j])
      /\ \A j \in 1..n : pos[j] <= Len(b)
      /\ \A j \in 1..n : \A i \in 1..Len(q[j]) : b[pos[j - 1] + i] = q[j][i]
  BY <1>1 DEF Layout
<1>6. n \in Nat
  BY <1>2
<1>7. /\ p \in [0..(n + 1) -> Nat] /\ p[0] = 0 /\ p[n + 1] = Len(b) + Len(f)
      /\ \A j \in 0..n : p[j] = pos[j]
  BY <1>2, <1>5, <1>6
<1> HIDE DEF c, r, n, p
<1>8. ASSUME NEW j \in 1..(n + 1)
      PROVE  /\ p[j] = p[j - 1] + Len(r[j])
             /\ p[j] <= Len(c)
             /\ \A i \in 1..Len(r[j]) : c[p[j - 1] + i] = r[j][i]
  <2>1. CASE j = n + 1
    <3>1. j - 1 = n /\ n \in 0..n
      BY <1>6, <2>1
    <3>2. p[j - 1] = Len(b) /\ r[j] = f /\ p[j] = Len(b) + Len(f)
      BY <1>4, <1>5, <1>7, <2>1, <3>1
    <3>3. Len(b) + Len(f) <= Len(c)
      <4>1. Len(b) \in Nat /\ Len(f) \in Nat
        BY <1>2
      <4> QED
        BY <1>3, <4>1
    <3>4. \A i \in 1..Len(f) : c[Len(b) + i] = f[i]
      BY <1>3
    <3> QED
      BY <3>2, <3>3, <3>4
  <2>2. CASE j # n + 1
    <3>1. j \in 1..n /\ j \in 0..n /\ j - 1 \in 0..n
      BY <1>6, <2>2
    <3>2. p[j - 1] = pos[j - 1] /\ p[j] = pos[j] /\ r[j] = q[j]
      BY <1>4, <1>7, <3>1
    <3>3. pos[j - 1] \in Nat /\ pos[j] \in Nat /\ Len(q[j]) \in Nat
      <4>1. Len(q[j]) \in Nat
        BY <1>2, <3>1, PartType DEF n
      <4> QED
        BY <1>5, <3>1, <4>1
    <3>4. pos[j] = pos[j - 1] + Len(q[j]) /\ pos[j] <= Len(b)
      BY <1>5, <3>1
    <3>5. ASSUME NEW i \in 1..Len(q[j]) PROVE c[pos[j - 1] + i] = q[j][i]
      <4>1. pos[j - 1] + i \in 1..Len(b)
        <5>1. PICK x \in Nat, y \in Nat, l \in Nat, k \in Nat :
                  x = pos[j - 1] /\ y = pos[j] /\ l = Len(q[j]) /\ k = Len(b)
          BY <1>2, <3>3
        <5>2. y = x + l /\ y <= k /\ i \in 1..l
          BY <3>4, <5>1
        <5>3. x + i \in 1..k
          BY <5>2
        <5> QED
          BY <5>1, <5>3
      <4>2. b[pos[j - 1] + i] = q[j][i]
        BY <1>5, <3>1
      <4> QED
        BY <1>3, <4>1, <4>2
    <3>6. pos[j] <= Len(c)
      BY <1>2, <1>3, <3>3, <3>4
    <3> QED
      BY <3>2, <3>4, <3>5, <3>6
  <2> QED
    BY <2>1, <2>2
<1>9. Layout(c, r, p)
  BY <1>3, <1>4, <1>7, <1>8 DEF Layout
<1>10. Joined(c, r)
  BY <1>3, <1>4, <1>9 DEF Joined
<1> QED
  BY <1>10 DEF c, r

\* What Drop leaves.
LEMMA Dropped ==
    ASSUME NEW b \in Seq(Nat), NEW m \in Nat, m <= Len(b)
    PROVE  /\ Drop(b, m) \in Seq(Nat) /\ Len(Drop(b, m)) = Len(b) - m
           /\ \A i \in 1..(Len(b) - m) : Drop(b, m)[i] = b[m + i]
<1>1. PICK l \in Nat : l = Len(b)
  BY LenProperties
<1>2. Drop(b, m) = SubSeq(b, m + 1, l)
  BY <1>1 DEF Drop
<1>3. CASE m = l
  <2>1. SubSeq(b, m + 1, l) = <<>>
    BY <1>1, <1>3, SubSeqProperties
  <2>2. \A i \in 1..(l - m) : FALSE
    BY <1>3
  <2>3. l - m = 0 /\ <<>> \in Seq(Nat) /\ Len(<<>>) = 0
    BY <1>3
  <2> QED
    BY <1>1, <1>2, <2>1, <2>2, <2>3
<1>4. CASE m # l
  <2>1. PICK k \in Nat : k = m + 1 /\ 1 <= k /\ k <= l /\ l <= Len(b)
    BY <1>1, <1>4
  <2>2. /\ SubSeq(b, k, l) \in Seq(Nat)
        /\ Len(SubSeq(b, k, l)) = l - k + 1
        /\ \A i \in 1..(l - k + 1) : SubSeq(b, k, l)[i] = b[k + i - 1]
    BY <2>1, Slice, ZenonT(40)
  <2>3. l - k + 1 = l - m
    BY <2>1
  <2>4. \A i \in 1..(l - m) : k + i - 1 = m + i
    BY <2>1
  <2> QED
    BY <1>1, <1>2, <2>1, <2>2, <2>3, <2>4, Zenon
<1> QED
  BY <1>3, <1>4

\* The first part begins b, and the others follow it.
LEMMA JoinedFirst ==
    ASSUME NEW b, NEW q, Joined(b, q), q # <<>>
    PROVE  Prefix(q[1], b) /\ Joined(Drop(b, Len(q[1])), Tail(q))
<1>1. PICK pos : Layout(b, q, pos)
  BY DEF Joined
<1>2. b \in Seq(Nat) /\ q \in Seq(Seq(Nat)) /\ Len(b) \in Nat /\ Len(q) \in Nat
  BY LenProperties DEF Joined
<1>3. Len(q) >= 1 /\ 1 \in 1..Len(q)
  BY <1>2, EmptySeq
<1>4. PICK n \in Nat : n = Len(q) - 1
  <2>1. Len(q) \in Nat
    BY <1>2
  <2>2. Len(q) - 1 \in Nat
    BY <1>3, <2>1
  <2> QED
    BY <2>2
<1>5. /\ pos \in [0..(n + 1) -> Nat] /\ pos[0] = 0 /\ pos[n + 1] = Len(b)
      /\ \A j \in 1..(n + 1) : pos[j] = pos[j - 1] + Len(q[j])
      /\ \A j \in 1..(n + 1) : pos[j] <= Len(b)
      /\ \A j \in 1..(n + 1) : \A i \in 1..Len(q[j]) : b[pos[j - 1] + i] = q[j][i]
  <2>1. Len(q) = n + 1
    BY <1>2, <1>4
  <2> QED
    BY <1>1, <2>1 DEF Layout
<1>6. PICK m \in Nat : m = Len(q[1]) /\ pos[1] = m /\ m <= Len(b)
  <2>1. Len(q[1]) \in Nat
    BY <1>2, <1>3, PartType
  <2>2. 1 \in 1..(n + 1) /\ 1 - 1 = 0
    OBVIOUS
  <2>3. pos[1] = 0 + Len(q[1]) /\ pos[1] <= Len(b)
    BY <1>5, <2>2
  <2> QED
    BY <2>1, <2>3
<1>7. Prefix(q[1], b)
  <2>1. ASSUME NEW i \in 1..Len(q[1]) PROVE b[i] = q[1][i]
    <3>1. 1 \in 1..(n + 1) /\ 1 - 1 = 0
      OBVIOUS
    <3>2. b[0 + i] = q[1][i]
      BY <1>5, <2>1, <3>1
    <3>3. 0 + i = i
      BY <1>6
    <3> QED
      BY <3>2, <3>3
  <2> QED
    BY <1>6, <2>1 DEF Prefix
<1> DEFINE c == Drop(b, m)
           r == Tail(q)
           p == [j \in 0..n |-> pos[j + 1] - m]
<1>8. /\ c \in Seq(Nat) /\ Len(c) = Len(b) - m
      /\ \A i \in 1..(Len(b) - m) : c[i] = b[m + i]
  BY <1>2, <1>6, Dropped
<1>9. /\ r \in Seq(Seq(Nat)) /\ Len(r) = n
      /\ \A j \in 1..n : r[j] = q[j + 1]
  BY <1>2, <1>3, <1>4, HeadTailProperties
<1> HIDE DEF c, r
<1>10. ASSUME NEW j \in 0..n PROVE pos[j + 1] \in Nat /\ m <= pos[j + 1]
  <2> DEFINE S == {k \in 0..n : m <= pos[k + 1]}
  <2>1. 0 \in S
    BY <1>6
  <2>2. ASSUME NEW k \in 0..(n - 1), k \in S PROVE k + 1 \in S
    <3>1. (k + 1) + 1 \in 1..(n + 1) /\ ((k + 1) + 1) - 1 = k + 1 /\ k + 1 \in 0..n
          /\ k + 1 \in 0..(n + 1) /\ (k + 1) + 1 \in 1..Len(q)
      BY <1>4
    <3>2. Len(q[(k + 1) + 1]) \in Nat
      BY <1>2, <3>1, PartType
    <3>3. pos[(k + 1) + 1] = pos[k + 1] + Len(q[(k + 1) + 1]) /\ pos[k + 1] \in Nat
      BY <1>5, <3>1
    <3> QED
      BY <2>2, <3>1, <3>2, <3>3
  <2> HIDE DEF S
  <2>3. \A k \in 0..n : k \in S
    BY <2>1, <2>2, Induct
  <2>4. j + 1 \in 0..(n + 1)
    OBVIOUS
  <2> QED
    BY <1>5, <2>3, <2>4 DEF S
<1>11. p \in [0..n -> Nat] /\ p[0] = 0 /\ p[n] = Len(b) - m
  <2>1. \A j \in 0..n : pos[j + 1] - m \in Nat
    BY <1>10
  <2>2. p[0] = 0
    BY <1>6
  <2> QED
    BY <1>5, <2>1, <2>2
<1>12. ASSUME NEW j \in 1..n
       PROVE  /\ p[j] = p[j - 1] + Len(r[j])
              /\ p[j] <= Len(c)
              /\ \A i \in 1..Len(r[j]) : c[p[j - 1] + i] = r[j][i]
  <2>1. /\ j + 1 \in 1..(n + 1) /\ (j + 1) - 1 = j /\ j \in 0..n /\ j - 1 \in 0..n
        /\ (j - 1) + 1 = j /\ j + 1 \in 1..Len(q)
    BY <1>4
  <2>2. p[j] = pos[j + 1] - m /\ p[j - 1] = pos[j] - m /\ r[j] = q[j + 1]
    BY <1>9, <2>1
  <2>3. PICK x \in Nat, y \in Nat : x = pos[j] /\ y = pos[j + 1] /\ m <= x /\ m <= y /\ y <= Len(b)
    <3>1. pos[j + 1] \in Nat /\ m <= pos[j + 1]
      BY <1>10, <2>1
    <3>2. pos[(j - 1) + 1] \in Nat /\ m <= pos[(j - 1) + 1]
      BY <1>10, <2>1
    <3>3. pos[j + 1] <= Len(b)
      BY <1>5, <2>1
    <3> QED
      BY <2>1, <3>1, <3>2, <3>3
  <2>4. PICK l \in Nat : l = Len(q[j + 1]) /\ y = x + l
    <3>1. Len(q[j + 1]) \in Nat
      BY <1>2, <2>1, PartType
    <3> QED
      BY <1>5, <2>1, <2>3, <3>1
  <2> HIDE DEF p
  <2>5. p[j] = p[j - 1] + Len(r[j]) /\ p[j] <= Len(c)
    <3>1. Len(b) \in Nat /\ Len(c) = Len(b) - m
      BY <1>2, <1>8
    <3>2. y - m = (x - m) + l /\ y - m <= Len(b) - m
      BY <2>3, <2>4, <3>1, SMTT(40)
    <3> QED
      BY <2>2, <2>3, <2>4, <3>1, <3>2
  <2>6. ASSUME NEW i \in 1..Len(r[j]) PROVE c[p[j - 1] + i] = r[j][i]
    <3>1. i \in 1..l /\ p[j - 1] = x - m
      BY <2>2, <2>3, <2>4
    <3>2. (x - m) + i \in 1..(Len(b) - m) /\ m + ((x - m) + i) = x + i
      <4>1. PICK k \in Nat : k = Len(b) /\ y <= k
        BY <1>2, <2>3
      <4>2. y = x + l /\ m <= x /\ i \in Nat /\ 1 <= i /\ i <= l
        BY <2>3, <2>4, <3>1
      <4>3. (x - m) + i \in 1..(k - m) /\ m + ((x - m) + i) = x + i
        BY <4>1, <4>2
      <4> QED
        BY <4>1, <4>3
    <3>3. c[(x - m) + i] = b[x + i]
      BY <1>8, <3>2
    <3>4. b[x + i] = q[j + 1][i]
      BY <1>5, <2>1, <2>3, <2>4, <3>1
    <3> QED
      BY <2>2, <3>1, <3>3, <3>4
  <2> QED
    BY <2>5, <2>6
<1> HIDE DEF p
<1>13. Layout(c, r, p)
  BY <1>8, <1>9, <1>11, <1>12 DEF Layout
<1>14. Joined(c, r)
  BY <1>8, <1>9, <1>13 DEF Joined
<1> QED
  BY <1>6, <1>7, <1>14 DEF c, r

----------------------------------------------------------------------------
(* Frames as sequences of bytes.                                           *)

\* A frame with n bytes of payload.
Whole(f, n) == n \in Nat /\ f \in Frames(FrameHeaderSize + n)

\* A frame is a sequence of bytes that begins with its header.
LEMMA WholeSeq ==
    ASSUME NEW f, NEW n, Whole(f, n)
    PROVE  /\ n \in Nat /\ FrameHeaderSize + n \in Nat /\ FrameHeaderSize + n >= FrameHeaderSize
           /\ f \in Frames(FrameHeaderSize + n)
           /\ f \in Seq(Nat) /\ Len(f) = 4 + n /\ f \in [1..(4 + n) -> Nat]
           /\ \A i \in 1..4 : f[i] \in 0..255
           /\ f # <<>>
<1>1. n \in Nat /\ FrameHeaderSize = 4
  BY DEF Whole, FrameHeaderSize
<1>2. f \in [1..(4 + n) -> Nat] /\ \A i \in 1..4 : f[i] \in 0..255
  BY <1>1 DEF Whole, Frames
<1>3. PICK k \in Nat : k = 4 + n
  BY <1>1
<1>4. f \in Seq(Nat) /\ Len(f) = k
  BY <1>2, <1>3
<1>5. f # <<>>
  BY <1>1, <1>3, <1>4
<1> QED
  BY <1>1, <1>2, <1>3, <1>4, <1>5 DEF Whole

\* The four bytes of a header and what follows them are a frame.
LEMMA WholeMade ==
    ASSUME NEW f \in Seq(Nat), NEW n \in Nat, Len(f) = 4 + n, \A i \in 1..4 : f[i] \in 0..255
    PROVE  Whole(f, n)
<1>1. f \in [1..(4 + n) -> Nat]
  BY LenProperties
<1> QED
  BY <1>1 DEF Whole, Frames, FrameHeaderSize

\* The payload is what comes after the header.
LEMMA PayloadIs ==
    ASSUME NEW f, NEW n, Whole(f, n)
    PROVE  /\ Payload(f) \in Seq(Nat) /\ Len(Payload(f)) = n
           /\ \A i \in 1..n : Payload(f)[i] = f[4 + i]
<1>1. n \in Nat /\ f \in Seq(Nat) /\ Len(f) = 4 + n
  BY WholeSeq
<1>2. 4 <= Len(f) /\ Len(f) - 4 = n /\ 4 \in Nat
  BY <1>1
<1>3. /\ Drop(f, 4) \in Seq(Nat) /\ Len(Drop(f, 4)) = Len(f) - 4
      /\ \A i \in 1..(Len(f) - 4) : Drop(f, 4)[i] = f[4 + i]
  BY <1>1, <1>2, Dropped, Zenon
<1>4. Payload(f) = Drop(f, 4)
  BY DEF Payload, FrameHeaderSize
<1> QED
  BY <1>2, <1>3, <1>4, Zenon

\* A setter leaves the payload.
LEMMA PayloadSame ==
    ASSUME NEW f, NEW n, Whole(f, n), NEW g, SamePayload(g, f, FrameHeaderSize + n)
    PROVE  Whole(g, n) /\ Payload(g) = Payload(f)
<1>1. Whole(g, n) /\ n \in Nat
  BY DEF Whole, SamePayload
<1>2. /\ Payload(f) \in Seq(Nat) /\ Len(Payload(f)) = n
      /\ \A i \in 1..n : Payload(f)[i] = f[4 + i]
  BY PayloadIs
<1>3. /\ Payload(g) \in Seq(Nat) /\ Len(Payload(g)) = n
      /\ \A i \in 1..n : Payload(g)[i] = g[4 + i]
  BY <1>1, PayloadIs
<1>4. \A i \in 5..(4 + n) : g[i] = f[i]
  BY DEF SamePayload, FrameHeaderSize
<1>5. ASSUME NEW i \in 1..n PROVE Payload(g)[i] = Payload(f)[i]
  <2>1. 4 + i \in 5..(4 + n)
    BY <1>1
  <2> QED
    BY <1>2, <1>3, <1>4, <2>1
<1> QED
  BY <1>1, <1>2, <1>3, <1>5, SeqEqual

\* Two frames with the same four bytes say the same.
LEMMA HeaderSame ==
    ASSUME NEW f, NEW g, \A i \in 1..4 : g[i] = f[i]
    PROVE  /\ ConnID(g) = ConnID(f) /\ FrameControl(g) = FrameControl(f)
           /\ SizeValue(g) = SizeValue(f) /\ HasPayload(g) = HasPayload(f)
<1>1. g[1] = f[1] /\ g[2] = f[2] /\ g[3] = f[3] /\ g[4] = f[4]
  OBVIOUS
<1> QED
  BY <1>1, Zenon DEF ConnID, FrameControl, SizeValue, HasPayload

\* Bytes that are appended are appended to the payload.
LEMMA Longer ==
    ASSUME NEW f, NEW n, Whole(f, n), NEW bytes \in Seq(Nat)
    PROVE  /\ Whole(f \o bytes, n + Len(bytes))
           /\ Payload(f \o bytes) = Payload(f) \o bytes
           /\ ConnID(f \o bytes) = ConnID(f) /\ FrameControl(f \o bytes) = FrameControl(f)
           /\ SizeValue(f \o bytes) = SizeValue(f)
<1> DEFINE g == f \o bytes
           p == Payload(f) \o bytes
<1>1. PICK l \in Nat : l = Len(bytes)
  BY LenProperties
<1>2. /\ n \in Nat /\ f \in Seq(Nat) /\ Len(f) = 4 + n
      /\ \A i \in 1..4 : f[i] \in 0..255
  BY WholeSeq
<1>3. /\ g \in Seq(Nat) /\ Len(g) = 4 + n + l
      /\ \A i \in 1..(4 + n) : g[i] = f[i]
      /\ \A i \in 1..l : g[4 + n + i] = bytes[i]
  <2>1. /\ g \in Seq(Nat) /\ Len(g) = Len(f) + Len(bytes)
        /\ \A i \in 1..Len(f) : g[i] = f[i]
        /\ \A i \in 1..Len(bytes) : g[Len(f) + i] = bytes[i]
    BY <1>2, Concat
  <2> QED
    BY <1>1, <1>2, <2>1, Zenon
<1>4. /\ Payload(f) \in Seq(Nat) /\ Len(Payload(f)) = n
      /\ \A i \in 1..n : Payload(f)[i] = f[4 + i]
  BY PayloadIs
<1>5. /\ p \in Seq(Nat) /\ Len(p) = n + l
      /\ \A i \in 1..n : p[i] = Payload(f)[i]
      /\ \A i \in 1..l : p[n + i] = bytes[i]
  <2>1. /\ p \in Seq(Nat) /\ Len(p) = Len(Payload(f)) + Len(bytes)
        /\ \A i \in 1..Len(Payload(f)) : p[i] = Payload(f)[i]
        /\ \A i \in 1..Len(bytes) : p[Len(Payload(f)) + i] = bytes[i]
    BY <1>4, Concat
  <2> QED
    BY <1>1, <1>4, <2>1, Zenon
<1> HIDE DEF g, p
<1>6. \A i \in 1..4 : g[i] = f[i]
  <2>1. \A i \in 1..4 : i \in 1..(4 + n)
    BY <1>2
  <2> QED
    BY <1>3, <2>1
<1>7. Whole(g, n + l)
  <2>1. Len(g) = 4 + (n + l) /\ n + l \in Nat
    BY <1>2, <1>3
  <2>2. \A i \in 1..4 : g[i] \in 0..255
    BY <1>2, <1>6
  <2> QED
    BY <1>3, <2>1, <2>2, WholeMade
<1>8. /\ Payload(g) \in Seq(Nat) /\ Len(Payload(g)) = n + l
      /\ \A i \in 1..(n + l) : Payload(g)[i] = g[4 + i]
  BY <1>7, PayloadIs
<1>9. ASSUME NEW i \in 1..(n + l) PROVE Payload(g)[i] = p[i]
  <2>1. Payload(g)[i] = g[4 + i]
    BY <1>8
  <2>2. CASE i <= n
    <3>1. i \in 1..n /\ 4 + i \in 1..(4 + n)
      BY <1>2, <2>2
    <3>2. g[4 + i] = f[4 + i] /\ p[i] = f[4 + i]
      BY <1>3, <1>4, <1>5, <3>1
    <3> QED
      BY <2>1, <3>2
  <2>3. CASE i > n
    <3>1. PICK j \in 1..l : j = i - n
      BY <1>2, <2>3
    <3>2. 4 + n + j = 4 + i /\ n + j = i
      BY <1>2, <3>1
    <3>3. g[4 + n + j] = bytes[j] /\ p[n + j] = bytes[j]
      BY <1>3, <1>5
    <3> QED
      BY <2>1, <3>2, <3>3
  <2> QED
    BY <1>2, <2>2, <2>3
<1>10. Payload(g) = p
  BY <1>5, <1>8, <1>9, SeqEqual
<1>11. /\ ConnID(g) = ConnID(f) /\ FrameControl(g) = FrameControl(f)
       /\ SizeValue(g) = SizeValue(f)
  BY <1>6, HeaderSame
<1> QED
  BY <1>1, <1>7, <1>10, <1>11 DEF g, p

----------------------------------------------------------------------------
(* What the writers append are bytes.                                      *)

\* One part alone.
LEMMA JoinedOne ==
    ASSUME NEW f \in Seq(Nat)
    PROVE  Joined(f, <<f>>)
<1>1. Joined(<<>> \o f, Append(<<>>, f))
  BY JoinedNone, JoinedAppend
<1>2. <<>> \o f = f /\ Append(<<>>, f) = <<f>>
  BY ConcatEmptySeq
<1> QED
  BY <1>1, <1>2

\* FlattenSeq puts parts one after another.
LEMMA Flattened ==
    ASSUME NEW ss \in Seq(Seq(Nat))
    PROVE  Joined(FlattenSeq(ss), ss)
<1>1. PICK l \in Nat : l = Len(ss)
  BY LenProperties
<1>2. CASE l = 0
  <2>1. ss = <<>>
    BY <1>1, <1>2, EmptySeq
  <2>2. FlattenSeq(ss) = ss
    BY <1>1, <1>2 DEF FlattenSeq
  <2> QED
    BY <2>1, <2>2, JoinedNone
<1>3. CASE l # 0
  <2>1. PICK n \in Nat : l = n + 1
    <3>1. l - 1 \in Nat /\ l = (l - 1) + 1
      BY <1>3
    <3> QED
      BY <3>1
  <2>2. \A i \in 1..l : ss[i] \in Seq(Nat)
    BY <1>1, PartType
  <2> DEFINE E(f) == f = [i \in 1..l |-> IF i = 1 THEN ss[i] ELSE f[i - 1] \o ss[i]]
  <2>3. PICK g \in [0..n -> Seq(Nat)] :
            g[0] = ss[1] /\ \A i \in 1..n : g[i] = g[i - 1] \o ss[i + 1]
    <3> DEFINE F == [p \in (1..n) \X Seq(Nat) |-> p[2] \o ss[p[1] + 1]]
    <3>1. F \in [(1..n) \X Seq(Nat) -> Seq(Nat)]
      <4> SUFFICES ASSUME NEW i \in 1..n, NEW v \in Seq(Nat) PROVE v \o ss[i + 1] \in Seq(Nat)
        OBVIOUS
      <4>1. ss[i + 1] \in Seq(Nat)
        BY <2>1, <2>2
      <4> QED
        BY <4>1, Concat
    <3>2. \A i \in 1..n, v \in Seq(Nat) : F[<<i, v>>] = v \o ss[i + 1]
      OBVIOUS
    <3> HIDE DEF F
    <3>3. PICK g \in [0..n -> Seq(Nat)] : Iteration(g, ss[1], n, F)
      <4>1. ss[1] \in Seq(Nat)
        BY <2>1, <2>2
      <4> QED
        BY <3>1, <4>1, Iterates, Zenon
    <3>4. \A i \in 1..n : g[i - 1] \in Seq(Nat)
      BY <3>3
    <3> QED
      BY <3>2, <3>3, <3>4 DEF Iteration
  <2> DEFINE h == [i \in 1..l |-> g[i - 1]]
  <2>4. E(h)
    <3>1. ASSUME NEW i \in 1..l
          PROVE  h[i] = IF i = 1 THEN ss[i] ELSE h[i - 1] \o ss[i]
      <4>1. CASE i = 1
        BY <2>3, <4>1
      <4>2. CASE i # 1
        <5>1. i - 1 \in 1..n /\ i - 1 \in 1..l /\ (i - 1) + 1 = i
          BY <2>1, <4>2
        <5>2. g[i - 1] = g[(i - 1) - 1] \o ss[i]
          BY <2>3, <5>1
        <5>3. h[i] = g[i - 1] /\ h[i - 1] = g[(i - 1) - 1]
          BY <5>1
        <5> HIDE DEF h
        <5> QED
          BY <4>2, <5>2, <5>3
      <4> QED
        BY <4>1, <4>2
    <3>2. h = [i \in 1..l |-> h[i]]
      OBVIOUS
    <3> HIDE DEF h
    <3> QED
      BY <3>1, <3>2
  <2>5. FlattenSeq(ss) = (CHOOSE f : E(f))[l]
    <3>1. Len(ss) # 0
      BY <1>1, <1>3
    <3> QED
      BY <1>1, <3>1, Zenon DEF FlattenSeq
  <2> HIDE DEF h
  <2>6. PICK f : E(f) /\ FlattenSeq(ss) = f[l]
    <3> HIDE DEF E
    <3> QED
      BY <2>4, <2>5, Zenon
  <2>7. \A i \in 1..l : f[i] = IF i = 1 THEN ss[i] ELSE f[i - 1] \o ss[i]
    BY <2>6
  <2> HIDE DEF E
  <2> DEFINE S == {i \in 0..n : Joined(f[i + 1], SubSeq(ss, 1, i + 1))}
  <2>8. 0 \in S
    <3>1. f[1] = ss[1] /\ ss[1] \in Seq(Nat)
      BY <2>1, <2>2, <2>7
    <3>2. SubSeq(ss, 1, 1) = <<ss[1]>>
      <4>1. 1 \in 1..Len(ss) /\ 1 <= Len(ss)
        BY <1>1, <2>1
      <4>2. SubSeq(ss, 1, 1) \in Seq(Seq(Nat)) /\ Len(SubSeq(ss, 1, 1)) = 1
            /\ SubSeq(ss, 1, 1)[1] = ss[1]
        BY <4>1
      <4>3. <<ss[1]>> \in Seq(Seq(Nat)) /\ Len(<<ss[1]>>) = 1 /\ <<ss[1]>>[1] = ss[1]
        BY <3>1
      <4>4. \A i \in 1..Len(SubSeq(ss, 1, 1)) : SubSeq(ss, 1, 1)[i] = <<ss[1]>>[i]
        BY <4>2, <4>3
      <4> QED
        BY <4>2, <4>3, <4>4, SeqEqual, Zenon
    <3>3. Joined(f[0 + 1], SubSeq(ss, 1, 0 + 1))
      <4>1. 0 + 1 = 1
        OBVIOUS
      <4>2. Joined(f[1], SubSeq(ss, 1, 1))
        BY <3>1, <3>2, JoinedOne
      <4> QED
        BY <4>1, <4>2
    <3> QED
      BY <3>3
  <2>9. ASSUME NEW i \in 0..(n - 1), i \in S PROVE i + 1 \in S
    <3>1. PICK k \in Nat : k = i + 1 /\ k >= 1 /\ k < l
      BY <2>1
    <3>2. f[k + 1] = f[k] \o ss[k + 1] /\ ss[k + 1] \in Seq(Nat)
      <4>1. k + 1 \in 1..l /\ k + 1 # 1 /\ (k + 1) - 1 = k
        BY <3>1
      <4> QED
        BY <2>2, <2>7, <4>1
    <3>3. SubSeq(ss, 1, k + 1) = Append(SubSeq(ss, 1, k), ss[k + 1])
      BY <1>1, <3>1
    <3>4. Joined(f[k], SubSeq(ss, 1, k))
      BY <2>9, <3>1
    <3>5. Joined(f[k] \o ss[k + 1], Append(SubSeq(ss, 1, k), ss[k + 1]))
      BY <3>2, <3>4, JoinedAppend
    <3>6. k \in 0..n
      BY <2>1, <3>1
    <3> QED
      BY <3>1, <3>2, <3>3, <3>5, <3>6
  <2> HIDE DEF S
  <2>10. n \in S
    <3>1. \A i \in 0..n : i \in S
      BY <2>8, <2>9, Induct
    <3> QED
      BY <3>1
  <2>11. SubSeq(ss, 1, l) = ss
    BY <1>1
  <2> QED
    BY <2>1, <2>6, <2>10, <2>11 DEF S
<1> QED
  BY <1>2, <1>3

\* FlattenSeq makes bytes of parts.
LEMMA FlattenType ==
    ASSUME NEW ss \in Seq(Seq(Nat))
    PROVE  FlattenSeq(ss) \in Seq(Nat)
BY Flattened DEF Joined

----------------------------------------------------------------------------
(* What is written into frames.                                            *)

Str == {s \in Seq(Nat) : Len(s) < MaxLen}

\* A http.Header or an url.Values; the two names the code knows have a value,
\* and a Content-Length that is a number is one of a word.
HeaderType ==
    {h \in Seq([key : Str, values : Seq(Seq(Nat))]) :
        \A i \in DOMAIN h :
           /\ h[i].key \in {ContentLength, Host} => h[i].values # <<>>
           /\ h[i].key = ContentLength /\ IsNumber(h[i].values[1])
              => ParseInt(h[i].values[1]) \in Int64}

RequestType ==
    [method : Str, scheme : Str, path : Str, query : {m \in HeaderType : Short(m)},
     header : HeaderType, host : Str, contentLength : Int64]

ResponseType ==
    [code : 0..(MaxLen - 1), header : HeaderType, contentLength : Int64]

FieldType ==
    [kind : {"uint"}, value : Uint] \cup [kind : {"int"}, value : Int64]
    \cup [kind : {"len"}, value : 0..(MaxLen - 1)]
    \cup [kind : {"string"}, value : Str \cup {Null}]
    \cup [kind : {"body"}, value : Seq(Nat)]
    \cup [kind : {"request"}, value : RequestType]
    \cup [kind : {"response"}, value : ResponseType]

FieldBytes(f) ==
    CASE f.kind = "uint"     -> UintBytes[f.value]
      [] f.kind = "int"      -> IntBytes(f.value)
      [] f.kind = "len"      -> LenBytes(f.value)
      [] f.kind = "string"   -> IF f.value = Null THEN NullBytes ELSE StringBytes(f.value)
      [] f.kind = "body"     -> f.value
      [] f.kind = "request"  -> <<3>> \o RequestBytes(f.value)
      [] f.kind = "response" -> <<4>> \o ResponseBytes(f.value)

MsgType == [id : Nat, flags : SUBSET Flag, fields : Seq(FieldType), size : Nat]

\* Every number is written as bytes, also one that does not fit a word.
LEMMA IntBytesType ==
    ASSUME NEW x \in Int
    PROVE  IntBytes(x) \in Seq(Nat) /\ Len(IntBytes(x)) >= 1
<1>1. PICK w \in Nat \ {0} : w = Word
  BY WordParts
<1>2. PICK u : u = (2 * x) % w
  OBVIOUS
<1>3. u \in 0..(w - 1)
  <2>1. 2 * x \in Int
    OBVIOUS
  <2> QED
    BY <1>1, <1>2, <2>1
<1>4. ZigZag(x) = IF x < 0 THEN w - 1 - u ELSE u
  BY <1>1, <1>2 DEF ZigZag
<1>5. ZigZag(x) \in 0..(w - 1)
  BY <1>1, <1>3, <1>4
<1>6. ZigZag(x) \in Uint
  BY <1>1, <1>5 DEF Uint
<1> QED
  BY <1>6, UintType DEF IntBytes

\* The names and codes of the model are shorter than MaxLen.
LEMMA MaxLenBig == MaxLen \in Nat /\ MaxLen >= 8
<1>1. PICK m \in Nat : m = More /\ m >= 2
  BY MoreType
<1>2. MaxLen = m * 2 * m
  BY <1>1 DEF MaxLen
<1>3. m * 2 * m >= 8 /\ m * 2 * m \in Nat
  <2>1. PICK k \in Nat : m = k + 2
    <3>1. m - 2 \in Nat /\ m = (m - 2) + 2
      BY <1>1
    <3> QED
      BY <3>1
  <2>2. (k + 2) * 2 * (k + 2) = 2 * (k * k) + 8 * k + 8
    OBVIOUS
  <2>3. k * k \in Nat
    OBVIOUS
  <2> QED
    BY <2>1, <2>2, <2>3
<1> QED
  BY <1>2, <1>3

\* WriteString writes bytes, or nothing if the string is too long.
LEMMA StringType ==
    ASSUME NEW s \in Seq(Nat)
    PROVE  StringBytes(s) \in Seq(Nat)
<1>1. Len(s) \in Nat
  BY LenProperties
<1>2. CASE s = <<>>
  <2>1. StringBytes(s) = <<0, 1>>
    BY <1>2 DEF StringBytes
  <2> QED
    BY <2>1
<1>3. CASE s # <<>> /\ Len(s) < MaxLen
  <2>1. LenBytes(Len(s)) \in Seq(Nat)
    BY <1>1, <1>3, LenType
  <2>2. StringBytes(s) = LenBytes(Len(s)) \o s
    BY <1>3 DEF StringBytes
  <2> QED
    BY <2>1, <2>2, Concat
<1>4. CASE s # <<>> /\ ~(Len(s) < MaxLen)
  <2>1. StringBytes(s) = <<>>
    BY <1>4 DEF StringBytes
  <2> QED
    BY <2>1
<1> QED
  BY <1>2, <1>3, <1>4

\* WriteStringNull writes two bytes.
LEMMA NullType == NullBytes \in Seq(Nat) /\ Len(NullBytes) = 2
BY DEF NullBytes

\* A function on 1..n is a sequence.
LEMMA MadeSeq ==
    ASSUME NEW S, NEW n \in Nat, NEW f \in [1..n -> S]
    PROVE  f \in Seq(S) /\ Len(f) = n
OBVIOUS

\* A list of strings is written as bytes.
LEMMA StringsType ==
    ASSUME NEW ss \in Seq(Seq(Nat))
    PROVE  StringsBytes(ss) \in Seq(Nat)
<1> DEFINE bs == [i \in DOMAIN ss |-> StringBytes(ss[i])]
<1>1. DOMAIN ss = 1..Len(ss) /\ Len(ss) \in Nat
  BY LenProperties
<1>2. \A i \in 1..Len(ss) : ss[i] \in Seq(Nat)
  BY PartType
<1>3. \A i \in 1..Len(ss) : StringBytes(ss[i]) \in Seq(Nat)
  BY <1>2, StringType
<1>4. bs \in Seq(Seq(Nat))
  <2>1. bs \in [1..Len(ss) -> Seq(Nat)]
    BY <1>1, <1>3
  <2> HIDE DEF bs
  <2> QED
    BY <1>1, <2>1, MadeSeq
<1> HIDE DEF bs
<1>5. FlattenSeq(bs) \in Seq(Nat)
  BY <1>4, FlattenType
<1> QED
  BY <1>5 DEF StringsBytes, bs

\* An entry of a map has a key and values.
LEMMA EntryParts ==
    ASSUME NEW m \in HeaderType, NEW i \in 1..Len(m)
    PROVE  m[i].key \in Str /\ m[i].key \in Seq(Nat) /\ m[i].values \in Seq(Seq(Nat))
<1>1. m \in Seq([key : Str, values : Seq(Seq(Nat))])
  BY DEF HeaderType
<1>2. m[i] \in [key : Str, values : Seq(Seq(Nat))]
  BY <1>1, ElementOfSeq, Zenon
<1> QED
  BY <1>2 DEF Str

\* A map is a sequence of entries.
LEMMA MapLen ==
    ASSUME NEW m \in HeaderType
    PROVE  Len(m) \in Nat /\ DOMAIN m = 1..Len(m)
BY LenProperties DEF HeaderType

\* The bytes of an entry.
EntryBytes(e) == StringBytes(e.key) \o StringsBytes(e.values) \o NullBytes

\* An entry is written as bytes.
LEMMA EntryType ==
    ASSUME NEW m \in HeaderType, NEW i \in 1..Len(m)
    PROVE  EntryBytes(m[i]) \in Seq(Nat)
<1>1. StringBytes(m[i].key) \in Seq(Nat) /\ StringsBytes(m[i].values) \in Seq(Nat)
  BY EntryParts, StringType, StringsType
<1>2. StringBytes(m[i].key) \o StringsBytes(m[i].values) \in Seq(Nat)
  BY <1>1, Concat
<1>3. NullBytes \in Seq(Nat)
  BY NullType
<1> QED
  BY <1>2, <1>3, Concat DEF EntryBytes

\* The entries of a map are parts of its bytes.
LEMMA EntriesType ==
    ASSUME NEW m \in HeaderType
    PROVE  [i \in DOMAIN m |-> EntryBytes(m[i])] \in Seq(Seq(Nat))
           /\ Len([i \in DOMAIN m |-> EntryBytes(m[i])]) = Len(m)
<1> DEFINE bs == [i \in DOMAIN m |-> EntryBytes(m[i])]
<1>1. Len(m) \in Nat /\ DOMAIN m = 1..Len(m)
  BY MapLen
<1>2. bs \in [1..Len(m) -> Seq(Nat)]
  BY <1>1, EntryType
<1> HIDE DEF bs
<1>3. bs \in Seq(Seq(Nat)) /\ Len(bs) = Len(m)
  BY <1>1, <1>2, MadeSeq
<1> QED
  BY <1>3 DEF bs

\* A map is written as its entries and NULL.
LEMMA MapType ==
    ASSUME NEW m \in HeaderType
    PROVE  /\ MapBytes(m) \in Seq(Nat)
           /\ MapBytes(m) = FlattenSeq([i \in DOMAIN m |-> EntryBytes(m[i])]) \o NullBytes
<1>1. MapBytes(m) = FlattenSeq([i \in DOMAIN m |-> EntryBytes(m[i])]) \o NullBytes
  BY Zenon DEF MapBytes, EntryBytes
<1>2. FlattenSeq([i \in DOMAIN m |-> EntryBytes(m[i])]) \in Seq(Nat)
  BY EntriesType, FlattenType
<1>3. NullBytes \in Seq(Nat)
  BY NullType
<1> QED
  BY <1>1, <1>2, <1>3, Concat

\* GivenLength is a number.
LEMMA FirstOf ==
    ASSUME NEW m \in HeaderType, NEW key \in {ContentLength, Host}, Entries(m, key) # {}
    PROVE  \E i \in 1..Len(m) : /\ m[i].key = key /\ m[i].values # <<>>
                                /\ First(m, key) = m[i].values[1]
<1> DEFINE i == CHOOSE i \in Entries(m, key) : TRUE
<1>1. i \in Entries(m, key)
  OBVIOUS
<1>2. First(m, key) = m[i].values[1]
  BY DEF First
<1> HIDE DEF i
<1>3. i \in 1..Len(m) /\ m[i].key = key
  BY <1>1, MapLen DEF Entries
<1>4. m[i].values # <<>>
  BY <1>3, MapLen DEF HeaderType
<1> QED
  BY <1>2, <1>3, <1>4

\* GivenLength is a number of a word.
LEMMA SomeLength ==
    ASSUME NEW m \in HeaderType, NEW x \in Int64
    PROVE  GivenLength(m, x) \in Int64
<1>1. CASE Entries(m, ContentLength) # {} /\ IsNumber(First(m, ContentLength))
  <2>1. PICK i \in 1..Len(m) : m[i].key = ContentLength /\ First(m, ContentLength) = m[i].values[1]
    BY <1>1, FirstOf, Zenon
  <2>2. ParseInt(m[i].values[1]) \in Int64
    BY <1>1, <2>1, MapLen DEF HeaderType
  <2> QED
    BY <1>1, <2>1, <2>2 DEF GivenLength
<1>2. CASE ~(Entries(m, ContentLength) # {} /\ IsNumber(First(m, ContentLength)))
  BY <1>2 DEF GivenLength
<1> QED
  BY <1>1, <1>2

\* Words hold small numbers of either sign.
LEMMA Int64Is ==
    /\ Int64 \subseteq Int /\ Int64 # {}
    /\ \A x \in -4..3 : x \in Int64
<1>1. PICK w \in Nat : w = Weight[LastGroup] /\ Word \div 2 = w
  BY WordParts
<1>2. Int64 = -w..(w - 1)
  BY <1>1 DEF Int64
<1>3. w >= 4
  <2>1. LastGroup \in Nat /\ LastGroup >= 2
    <3>1. LastGroup >= 2
      BY WireAssumption
    <3> QED
      BY <3>1, CodecAssumption
  <2>2. PICK m \in Nat : m = More /\ m >= 2
    BY MoreType
  <2>3. Weight[1] = m /\ Weight[2] = m * m
    <3>1. 1 \in 1..LastGroup /\ 2 \in 1..LastGroup /\ 1 - 1 = 0 /\ 2 - 1 = 1
      BY <2>1
    <3>2. Weight[1] = m * 1
      BY <2>2, <3>1, WeightDef
    <3>3. Weight[1] = m
      BY <3>2
    <3> QED
      BY <2>2, <3>1, <3>3, WeightDef
  <2>4. m * m >= 4
    <3>1. PICK k \in Nat : m = k + 2
      <4>1. m - 2 \in Nat /\ m = (m - 2) + 2
        BY <2>2
      <4> QED
        BY <4>1
    <3>2. (k + 2) * (k + 2) = k * k + 4 * k + 4 /\ k * k \in Nat
      OBVIOUS
    <3> QED
      BY <3>1, <3>2
  <2>5. Weight[2] <= w
    BY <1>1, <2>1, WeightBounds
  <2>6. m * m \in Nat
    BY <2>2
  <2> QED
    BY <2>3, <2>4, <2>5, <2>6
<1> QED
  BY <1>2, <1>3

\* WriteRequest writes bytes, also if it leaves long strings out.
LEMMA RequestBytesType ==
    ASSUME NEW r \in RequestType
    PROVE  RequestBytes(r) \in Seq(Nat)
<1> DEFINE host == IF r.host = <<>> /\ Entries(r.header, Host) # {}
                   THEN First(r.header, Host) ELSE r.host
           length == IF r.contentLength < 0 THEN GivenLength(r.header, -1)
                     ELSE r.contentLength
           hb == IF host = <<>> THEN NullBytes ELSE StringBytes(host)
<1>1. /\ r.method \in Seq(Nat) /\ r.scheme \in Seq(Nat) /\ r.path \in Seq(Nat) /\ r.host \in Seq(Nat)
      /\ r.query \in HeaderType /\ r.header \in HeaderType /\ r.contentLength \in Int64
  BY DEF RequestType, Str
<1>2. host \in Seq(Nat)
  <2>1. CASE r.host = <<>> /\ Entries(r.header, Host) # {}
    <3>1. PICK i \in 1..Len(r.header) : /\ r.header[i].key = Host /\ r.header[i].values # <<>>
                                        /\ First(r.header, Host) = r.header[i].values[1]
      BY <1>1, <2>1, FirstOf, Zenon
    <3>2. r.header[i].values \in Seq(Seq(Nat))
      BY <1>1, EntryParts
    <3>3. 1 \in 1..Len(r.header[i].values)
      BY <3>1, <3>2, EmptySeq
    <3>4. r.header[i].values[1] \in Seq(Nat)
      BY <3>2, <3>3, PartType
    <3> QED
      BY <2>1, <3>1, <3>4
  <2>2. CASE ~(r.host = <<>> /\ Entries(r.header, Host) # {})
    BY <1>1, <2>2
  <2> QED
    BY <2>1, <2>2
<1>3. length \in Int
  <2>1. -1 \in Int64 /\ Int64 \subseteq Int
    BY Int64Is
  <2>2. GivenLength(r.header, -1) \in Int64
    BY <1>1, <2>1, SomeLength
  <2> QED
    BY <1>1, <2>1, <2>2
<1> HIDE DEF host, length
<1>4. hb \in Seq(Nat)
  BY <1>2, NullType, StringType
<1> HIDE DEF hb
<1>5. IntBytes(length) \in Seq(Nat)
  BY <1>3, IntBytesType
<1>6. LenBytes(0) \in Seq(Nat)
  BY LenType, MaxLenBig
<1>7. StringBytes(r.method) \o StringBytes(r.scheme) \in Seq(Nat)
  BY <1>1, StringType, Concat
<1>8. StringBytes(r.method) \o StringBytes(r.scheme) \o LenBytes(0) \in Seq(Nat)
  BY <1>6, <1>7, Concat
<1>9. StringBytes(r.method) \o StringBytes(r.scheme) \o LenBytes(0) \o StringBytes(r.path) \in Seq(Nat)
  BY <1>1, <1>8, StringType, Concat
<1>10. StringBytes(r.method) \o StringBytes(r.scheme) \o LenBytes(0) \o StringBytes(r.path)
       \o MapBytes(r.query) \in Seq(Nat)
  BY <1>1, <1>9, MapType, Concat
<1>11. StringBytes(r.method) \o StringBytes(r.scheme) \o LenBytes(0) \o StringBytes(r.path)
       \o MapBytes(r.query) \o MapBytes(r.header) \in Seq(Nat)
  BY <1>1, <1>10, MapType, Concat
<1>12. StringBytes(r.method) \o StringBytes(r.scheme) \o LenBytes(0) \o StringBytes(r.path)
       \o MapBytes(r.query) \o MapBytes(r.header) \o hb \in Seq(Nat)
  BY <1>4, <1>11, Concat
<1>13. StringBytes(r.method) \o StringBytes(r.scheme) \o LenBytes(0) \o StringBytes(r.path)
       \o MapBytes(r.query) \o MapBytes(r.header) \o hb \o IntBytes(length) \in Seq(Nat)
  BY <1>5, <1>12, Concat
<1> QED
  BY <1>13, Zenon DEF RequestBytes, host, length, hb

\* WriteResponse writes bytes.
LEMMA ResponseBytesType ==
    ASSUME NEW r \in ResponseType
    PROVE  ResponseBytes(r) \in Seq(Nat)
<1>1. r.code \in 0..(MaxLen - 1) /\ r.header \in HeaderType /\ r.contentLength \in Int64
  BY DEF ResponseType
<1>2. LenBytes(r.code) \in Seq(Nat)
  <2>1. r.code \in Nat /\ r.code < MaxLen
    BY <1>1, MaxLenBig
  <2> QED
    BY <2>1, LenType
<1>3. MapBytes(r.header) \in Seq(Nat)
  BY <1>1, MapType
<1>4. IntBytes(r.contentLength) \in Seq(Nat)
  BY <1>1, IntBytesType, Int64Is
<1>5. LenBytes(r.code) \o MapBytes(r.header) \in Seq(Nat)
  BY <1>2, <1>3, Concat
<1> QED
  BY <1>4, <1>5, Concat DEF ResponseBytes

\* The fields, kind by kind.
LEMMA FieldKinds ==
    ASSUME NEW f \in FieldType
    PROVE  \/ f.kind = "uint" /\ f.value \in Uint /\ FieldBytes(f) = UintBytes[f.value]
           \/ f.kind = "int" /\ f.value \in Int64 /\ FieldBytes(f) = IntBytes(f.value)
           \/ f.kind = "len" /\ f.value \in 0..(MaxLen - 1) /\ FieldBytes(f) = LenBytes(f.value)
           \/ f.kind = "string" /\ f.value = Null /\ FieldBytes(f) = NullBytes
           \/ f.kind = "string" /\ f.value # Null /\ f.value \in Str
              /\ FieldBytes(f) = StringBytes(f.value)
           \/ f.kind = "body" /\ f.value \in Seq(Nat) /\ FieldBytes(f) = f.value
           \/ f.kind = "request" /\ f.value \in RequestType
              /\ FieldBytes(f) = <<3>> \o RequestBytes(f.value)
           \/ f.kind = "response" /\ f.value \in ResponseType
              /\ FieldBytes(f) = <<4>> \o ResponseBytes(f.value)
<1>1. \/ f.kind = "uint" /\ f.value \in Uint
      \/ f.kind = "int" /\ f.value \in Int64
      \/ f.kind = "len" /\ f.value \in 0..(MaxLen - 1)
      \/ f.kind = "string" /\ f.value \in Str \cup {Null}
      \/ f.kind = "body" /\ f.value \in Seq(Nat)
      \/ f.kind = "request" /\ f.value \in RequestType
      \/ f.kind = "response" /\ f.value \in ResponseType
  BY DEF FieldType
<1>2. CASE f.kind = "uint" /\ f.value \in Uint
  BY <1>2 DEF FieldBytes
<1>3. CASE f.kind = "int" /\ f.value \in Int64
  BY <1>3 DEF FieldBytes
<1>4. CASE f.kind = "len" /\ f.value \in 0..(MaxLen - 1)
  BY <1>4 DEF FieldBytes
<1>5. CASE f.kind = "string" /\ f.value \in Str \cup {Null}
  BY <1>5 DEF FieldBytes
<1>6. CASE f.kind = "body" /\ f.value \in Seq(Nat)
  BY <1>6 DEF FieldBytes
<1>7. CASE f.kind = "request" /\ f.value \in RequestType
  BY <1>7 DEF FieldBytes
<1>8. CASE f.kind = "response" /\ f.value \in ResponseType
  BY <1>8 DEF FieldBytes
<1> QED
  BY <1>1, <1>2, <1>3, <1>4, <1>5, <1>6, <1>7, <1>8

\* Every field is written as bytes.
LEMMA FieldBytesType ==
    ASSUME NEW f \in FieldType
    PROVE  FieldBytes(f) \in Seq(Nat)
<1>1. CASE f.kind = "uint" /\ f.value \in Uint /\ FieldBytes(f) = UintBytes[f.value]
  BY <1>1, UintType
<1>2. CASE f.kind = "int" /\ f.value \in Int64 /\ FieldBytes(f) = IntBytes(f.value)
  BY <1>2, IntType
<1>3. CASE f.kind = "len" /\ f.value \in 0..(MaxLen - 1) /\ FieldBytes(f) = LenBytes(f.value)
  <2>1. f.value \in Nat /\ f.value < MaxLen
    BY <1>3, MaxLenBig
  <2> QED
    BY <1>3, <2>1, LenType
<1>4. CASE f.kind = "string" /\ f.value = Null /\ FieldBytes(f) = NullBytes
  BY <1>4, NullType
<1>5. CASE f.kind = "string" /\ f.value \in Str /\ FieldBytes(f) = StringBytes(f.value)
  <2>1. f.value \in Seq(Nat)
    BY <1>5 DEF Str
  <2> QED
    BY <1>5, <2>1, StringType
<1>6. CASE f.kind = "body" /\ f.value \in Seq(Nat) /\ FieldBytes(f) = f.value
  BY <1>6
<1>7. CASE f.kind = "request" /\ f.value \in RequestType
           /\ FieldBytes(f) = <<3>> \o RequestBytes(f.value)
  <2>1. <<3>> \in Seq(Nat) /\ RequestBytes(f.value) \in Seq(Nat)
    BY <1>7, RequestBytesType
  <2> QED
    BY <1>7, <2>1, Concat
<1>8. CASE f.kind = "response" /\ f.value \in ResponseType
           /\ FieldBytes(f) = <<4>> \o ResponseBytes(f.value)
  <2>1. <<4>> \in Seq(Nat) /\ ResponseBytes(f.value) \in Seq(Nat)
    BY <1>8, ResponseBytesType
  <2> QED
    BY <1>8, <2>1, Concat
<1> QED
  BY <1>1, <1>2, <1>3, <1>4, <1>5, <1>6, <1>7, <1>8, FieldKinds

----------------------------------------------------------------------------
(* The values that Next writes are of these types.                         *)

\* A string of at most two bytes is not too long.
LEMMA ShortStr ==
    ASSUME NEW s \in Seq(Nat), Len(s) <= 2
    PROVE  s \in Str
BY MaxLenBig, LenProperties DEF Str

\* No string of bytes is NULL.
LEMMA NotNull ==
    ASSUME NEW s \in Seq(Nat)
    PROVE  s # Null
<1> SUFFICES ASSUME s = <<-1>> PROVE FALSE
  BY DEF Null
<1>1. Len(s) = 1 /\ s[1] = -1
  OBVIOUS
<1>2. s[1] \in Nat
  BY <1>1
<1> QED
  BY <1>1, <1>2

\* The strings that WriteString is given.
LEMMA StringsAre ==
    ASSUME NEW s \in Strings
    PROVE  s \in Seq(Nat)
<1>1. PICK n \in StringLen : s = [i \in 1..n |-> (3 * i) % (2 * More)]
  BY DEF Strings
<1>2. n \in Nat
  BY WireAssumption
<1>3. PICK m \in Nat \ {0} : m = 2 * More
  BY Widths
<1>4. \A i \in 1..n : (3 * i) % m \in Nat
  <2> SUFFICES ASSUME NEW i \in 1..n PROVE (3 * i) % m \in Nat
    OBVIOUS
  <2>1. PICK k \in Nat : k = 3 * i
    BY <1>2
  <2>2. k % m \in Nat
    OBVIOUS
  <2> QED
    BY <2>1, <2>2
<1>5. s \in [1..n -> Nat]
  BY <1>1, <1>3, <1>4
<1> QED
  BY <1>2, <1>5, MadeSeq

\* A header of one or two entries.
LEMMA OneEntry ==
    ASSUME NEW k \in Str, NEW vs \in Seq(Seq(Nat)),
           k \in {ContentLength, Host} => vs # <<>>,
           k = ContentLength /\ IsNumber(vs[1]) => ParseInt(vs[1]) \in Int64
    PROVE  <<Entry(k, vs)>> \in HeaderType
<1> DEFINE e == Entry(k, vs)
           h == <<e>>
           T == [key : Str, values : Seq(Seq(Nat))]
<1>1. e \in T /\ e.key = k /\ e.values = vs
  BY DEF Entry
<1> HIDE DEF e, T
<1>2. h \in Seq(T) /\ DOMAIN h = {1} /\ h[1] = e
  BY <1>1
<1> HIDE DEF h
<1> QED
  BY <1>1, <1>2 DEF HeaderType, T, h, e

\* A map of two entries.
LEMMA TwoEntries ==
    ASSUME NEW k \in Str, NEW vs \in Seq(Seq(Nat)), NEW l \in Str, NEW ws \in Seq(Seq(Nat)),
           k \in {ContentLength, Host} => vs # <<>>, k # ContentLength,
           l \notin {ContentLength, Host}
    PROVE  <<Entry(k, vs), Entry(l, ws)>> \in HeaderType
<1> DEFINE e == Entry(k, vs)
           d == Entry(l, ws)
           h == <<e, d>>
           T == [key : Str, values : Seq(Seq(Nat))]
<1>1. e \in T /\ e.key = k /\ e.values = vs /\ d \in T /\ d.key = l /\ d.values = ws
  BY DEF Entry
<1> HIDE DEF e, d, T
<1>2. h \in Seq(T) /\ DOMAIN h = {1, 2} /\ h[1] = e /\ h[2] = d
  BY <1>1
<1> HIDE DEF h
<1> QED
  BY <1>1, <1>2 DEF HeaderType, T, h, e, d

\* The strings that maps and requests are made of.
LEMMA Literals ==
    /\ <<>> \in Str /\ <<0>> \in Str /\ <<1>> \in Str /\ <<2>> \in Str /\ <<3>> \in Str
    /\ <<3, 3>> \in Str /\ <<2, 0>> \in Str
    /\ ContentLength = <<1>> /\ Host = <<2>>
    /\ ContentLength \in Str /\ Host \in Str /\ ContentLength # Host
    /\ \A s \in {<<>>, <<0>>, <<3>>} : s \notin {ContentLength, Host}
<1>1. /\ <<>> \in Seq(Nat) /\ <<0>> \in Seq(Nat) /\ <<1>> \in Seq(Nat) /\ <<2>> \in Seq(Nat)
      /\ <<3>> \in Seq(Nat) /\ <<3, 3>> \in Seq(Nat) /\ <<2, 0>> \in Seq(Nat)
  OBVIOUS
<1>2. /\ Len(<<>>) <= 2 /\ Len(<<0>>) <= 2 /\ Len(<<1>>) <= 2 /\ Len(<<2>>) <= 2
      /\ Len(<<3>>) <= 2 /\ Len(<<3, 3>>) <= 2 /\ Len(<<2, 0>>) <= 2
  OBVIOUS
<1>3. ContentLength = <<1>> /\ Host = <<2>>
  BY DEF ContentLength, Host
<1>4. /\ <<1>> # <<2>> /\ <<>> # <<1>> /\ <<>> # <<2>> /\ <<0>> # <<1>> /\ <<0>> # <<2>>
      /\ <<3>> # <<1>> /\ <<3>> # <<2>>
  <2>1. <<1>>[1] = 1 /\ <<2>>[1] = 2 /\ <<0>>[1] = 0 /\ <<3>>[1] = 3
    OBVIOUS
  <2>2. Len(<<>>) = 0 /\ Len(<<1>>) = 1 /\ Len(<<2>>) = 1
    OBVIOUS
  <2> QED
    BY <2>1, <2>2
<1> QED
  BY <1>1, <1>2, <1>3, <1>4, ShortStr

\* The maps that are written.
LEMMA MapsAre ==
    ASSUME NEW m \in Maps
    PROVE  m \in HeaderType /\ Short(m)
<1>1. \/ m = <<>> \/ m = <<Entry(<<3>>, <<>>)>> \/ m = <<Entry(<<>>, <<<<>>>>)>>
      \/ m = <<Entry(<<3>>, <<<<1>>, <<2, 0>>>>), Entry(<<0>>, <<<<>>, <<3>>>>)>>
  BY DEF Maps
<1>2. CASE m = <<>>
  BY <1>2 DEF HeaderType, Short
<1>3. CASE m = <<Entry(<<3>>, <<>>)>>
  <2>1. <<>> \in Seq(Seq(Nat))
    OBVIOUS
  <2>2. m \in HeaderType
    BY <1>3, <2>1, Literals, OneEntry
  <2>3. DOMAIN m = {1} /\ m[1].values = <<>> /\ DOMAIN <<>> = {}
    BY <1>3 DEF Entry
  <2> QED
    BY <2>2, <2>3 DEF Short
<1>4. CASE m = <<Entry(<<>>, <<<<>>>>)>>
  <2>1. <<<<>>>> \in Seq(Seq(Nat))
    OBVIOUS
  <2>2. m \in HeaderType
    BY <1>4, <2>1, Literals, OneEntry
  <2>3. DOMAIN m = {1} /\ m[1].values = <<<<>>>>
    BY <1>4 DEF Entry
  <2>4. DOMAIN <<<<>>>> = {1} /\ <<<<>>>>[1] = <<>>
    OBVIOUS
  <2>5. Len(<<>>) < MaxLen
    BY Literals DEF Str
  <2> QED
    BY <2>2, <2>3, <2>4, <2>5 DEF Short
<1>5. CASE m = <<Entry(<<3>>, <<<<1>>, <<2, 0>>>>), Entry(<<0>>, <<<<>>, <<3>>>>)>>
  <2>1. <<<<1>>, <<2, 0>>>> \in Seq(Seq(Nat)) /\ <<<<>>, <<3>>>> \in Seq(Seq(Nat))
    OBVIOUS
  <2>2. m \in HeaderType
    <3>1. <<3>> \notin {ContentLength, Host} /\ <<0>> \notin {ContentLength, Host}
      BY Literals
    <3> QED
      BY <1>5, <2>1, <3>1, Literals, TwoEntries
  <2>3. DOMAIN m = {1, 2} /\ m[1].values = <<<<1>>, <<2, 0>>>> /\ m[2].values = <<<<>>, <<3>>>>
    BY <1>5 DEF Entry
  <2>4. /\ DOMAIN <<<<1>>, <<2, 0>>>> = {1, 2} /\ DOMAIN <<<<>>, <<3>>>> = {1, 2}
        /\ <<<<1>>, <<2, 0>>>>[1] = <<1>> /\ <<<<1>>, <<2, 0>>>>[2] = <<2, 0>>
        /\ <<<<>>, <<3>>>>[1] = <<>> /\ <<<<>>, <<3>>>>[2] = <<3>>
    OBVIOUS
  <2>5. Len(<<>>) < MaxLen /\ Len(<<1>>) < MaxLen /\ Len(<<2, 0>>) < MaxLen /\ Len(<<3>>) < MaxLen
    BY Literals DEF Str
  <2> QED
    BY <2>2, <2>3, <2>4, <2>5 DEF Short
<1> QED
  BY <1>1, <1>2, <1>3, <1>4, <1>5

\* The headers that are written.
LEMMA HeadersAre ==
    ASSUME NEW h \in Headers
    PROVE  h \in HeaderType
<1>1. \/ h \in Maps
      \/ \E vs \in {<<<<2>>>>, <<<<3, 3>>>>, <<<<2>>, <<3>>>>} : h = <<Entry(ContentLength, vs)>>
      \/ \E s \in Strings : h = <<Entry(Host, <<<<1>>>>), Entry(<<3>>, <<s>>)>>
  BY DEF Headers
<1>2. CASE h \in Maps
  BY <1>2, MapsAre
<1>3. CASE \E vs \in {<<<<2>>>>, <<<<3, 3>>>>, <<<<2>>, <<3>>>>} : h = <<Entry(ContentLength, vs)>>
  <2>1. PICK vs \in {<<<<2>>>>, <<<<3, 3>>>>, <<<<2>>, <<3>>>>} : h = <<Entry(ContentLength, vs)>>
    BY <1>3
  <2>2. vs \in Seq(Seq(Nat)) /\ vs # <<>> /\ vs[1] \in {<<2>>, <<3, 3>>}
    <3>1. CASE vs = <<<<2>>>>
      BY <3>1
    <3>2. CASE vs = <<<<3, 3>>>>
      BY <3>2
    <3>3. CASE vs = <<<<2>>, <<3>>>>
      BY <3>3
    <3> QED
      BY <2>1, <3>1, <3>2, <3>3
  <2>3. IsNumber(vs[1]) => ParseInt(vs[1]) \in Int64
    <3>1. CASE vs[1] = <<2>>
      BY <3>1, Int64Is DEF ParseInt
    <3>2. CASE vs[1] = <<3, 3>>
      BY <3>2 DEF IsNumber
    <3> QED
      BY <2>2, <3>1, <3>2
  <2> QED
    BY <2>1, <2>2, <2>3, Literals, OneEntry
<1>4. CASE \E s \in Strings : h = <<Entry(Host, <<<<1>>>>), Entry(<<3>>, <<s>>)>>
  <2>1. PICK s \in Strings : h = <<Entry(Host, <<<<1>>>>), Entry(<<3>>, <<s>>)>>
    BY <1>4
  <2>2. s \in Seq(Nat)
    BY StringsAre
  <2>3. <<s>> \in Seq(Seq(Nat)) /\ <<<<1>>>> \in Seq(Seq(Nat)) /\ <<<<1>>>> # <<>>
    BY <2>2
  <2>4. Host \in Str /\ <<3>> \in Str /\ Host # ContentLength /\ <<3>> \notin {ContentLength, Host}
    BY Literals
  <2> QED
    BY <2>1, <2>3, <2>4, TwoEntries
<1> QED
  BY <1>1, <1>2, <1>3, <1>4

\* The requests that are written.
LEMMA RequestsAre ==
    ASSUME NEW r \in Requests
    PROVE  r \in RequestType
<1>1. \A x \in Lengths : x \in Int64
  BY Int64Is DEF Lengths
<1>2. \A m \in Maps : m \in HeaderType /\ Short(m)
  BY MapsAre
<1>3. \A h \in Headers : h \in HeaderType
  BY HeadersAre
<1>4. <<>> \in Maps /\ <<>> \in Headers
  BY DEF Maps, Headers
<1>5. /\ <<>> \in Str /\ <<1>> \in Str /\ <<2>> \in Str /\ <<3, 3>> \in Str
  BY Literals
<1>6. /\ r.method = <<3, 3>> /\ r.scheme = <<>> /\ r.path = <<1>> /\ r.query \in Maps
      /\ r.header \in Headers /\ r.host \in {<<>>, <<2>>} /\ r.contentLength \in Lengths
      /\ r = [method |-> r.method, scheme |-> r.scheme, path |-> r.path, query |-> r.query,
              header |-> r.header, host |-> r.host, contentLength |-> r.contentLength]
  BY <1>4 DEF Requests
<1> QED
  BY <1>1, <1>2, <1>3, <1>5, <1>6 DEF RequestType

\* The responses that are written.
LEMMA ResponsesAre ==
    ASSUME NEW r \in Responses
    PROVE  r \in ResponseType /\ r.code \in 0..(MaxLen - 1) /\ r.header \in HeaderType
<1>1. \A x \in Lengths : x \in Int64
  BY Int64Is DEF Lengths
<1>2. \A h \in Headers : h \in HeaderType
  BY HeadersAre
<1>3. <<>> \in Headers
  BY DEF Maps, Headers
<1>4. Codes \subseteq 0..(MaxLen - 1) /\ 1 \in Codes
  <2>1. PICK m \in Nat : m = More /\ m >= 2
    BY MoreType
  <2>2. MaxLen = (2 * m) * m
    BY <2>1, Widths
  <2>3. m < (2 * m) * m
    <3>1. m * m \in Nat /\ m <= m * m
      BY <2>1
    <3>2. (2 * m) * m = 2 * (m * m)
      OBVIOUS
    <3> QED
      BY <2>1, <3>1, <3>2
  <2> QED
    BY <2>1, <2>2, <2>3, MaxLenBig DEF Codes
<1>5. /\ r.code \in Codes /\ r.header \in Headers /\ r.contentLength \in Lengths
      /\ r = [code |-> r.code, header |-> r.header, contentLength |-> r.contentLength]
  BY <1>3, <1>4 DEF Responses
<1> QED
  BY <1>1, <1>2, <1>4, <1>5 DEF ResponseType

\* The bodies that are written.
LEMMA ContentsAre ==
    ASSUME NEW b \in Contents
    PROVE  b \in Seq(Nat)
<1>1. PICK n \in 0..MaxRaw : b \in [1..n -> {1, 2, More, 2 * More - 1}]
  BY DEF Contents
<1>2. n \in Nat
  BY WireAssumption
<1>3. \A x \in {1, 2, More, 2 * More - 1} : x \in Nat
  <2>1. PICK m \in Nat : m = More /\ m >= 2
    BY MoreType
  <2> QED
    BY <2>1
<1>4. b \in [1..n -> Nat]
  BY <1>1, <1>3
<1> QED
  BY <1>2, <1>4, MadeSeq

----------------------------------------------------------------------------
(* The inductive invariant.                                                *)

\* q are the bytes of the fields.
Parts(q, fields) ==
    Len(q) = Len(fields) /\ \A j \in 1..Len(fields) : q[j] = FieldBytes(fields[j])

\* A frame has fields if its flags say so.  A record is the first of them and
\* a body the last; a ping has a number.
Sound(m) ==
    /\ m.fields # <<>> <=> ("Flow" \notin m.flags /\ m.flags # {})
    /\ m.id = MuxerConnID /\ m.flags = {"Body"} =>
          \E x \in Int64 : m.fields = <<Field("int", x)>>
    /\ "Body" \notin m.flags => \A j \in 1..Len(m.fields) : m.fields[j].kind # "body"
    /\ \A j \in 1..Len(m.fields) : m.fields[j].kind = "body" => j = Len(m.fields)
    /\ \A j \in 1..Len(m.fields) : m.fields[j].kind \notin Basic => j = 1

\* The frame f is what was made as m.
Carries(f, m) ==
    /\ m \in MsgType /\ Whole(f, m.size) /\ Sound(m)
    /\ ConnID(f) = m.id /\ FrameControl(f) = m.flags
    /\ \E q : Joined(Payload(f), q) /\ Parts(q, m.fields)

\* Its header says how long it is.
Delivers(f, m) == Carries(f, m) /\ (HasPayload(f) => SizeValue(f) = m.size)

Filling == fd = <<>> \/ Carries(fd, made)

Arrived ==
    /\ sent \in Seq(MsgType) /\ got \in Seq(Seq(Nat)) /\ Len(got) <= Len(sent)
    /\ \A i \in 1..Len(got) : Carries(got[i], sent[i])

\* What is in the network are the frames that have been sent and not read.
UnderWay(w, n, ms) ==
    \E q : /\ Joined(w, q) /\ Len(q) = Len(ms) - n
           /\ \A j \in 1..Len(q) : Delivers(q[j], ms[n + j])

WireInv ==
    /\ Whole(pool, 0)
    /\ Filling
    /\ Arrived
    /\ UnderWay(wire, Len(got), sent)

\* The parts of a Carries.
LEMMA Carried ==
    ASSUME NEW f, NEW m, Carries(f, m)
    PROVE  /\ m \in MsgType /\ m.id \in Nat /\ m.flags \in SUBSET Flag
           /\ m.fields \in Seq(FieldType) /\ m.size \in Nat
           /\ Whole(f, m.size) /\ f \in Seq(Nat) /\ f # <<>> /\ Len(f) = 4 + m.size
           /\ Payload(f) \in Seq(Nat) /\ Len(Payload(f)) = m.size
<1>1. m \in MsgType /\ Whole(f, m.size)
  BY DEF Carries
<1>2. m.id \in Nat /\ m.flags \in SUBSET Flag /\ m.fields \in Seq(FieldType) /\ m.size \in Nat
  BY <1>1 DEF MsgType
<1>3. f \in Seq(Nat) /\ f # <<>> /\ Len(f) = 4 + m.size
  BY <1>1, WholeSeq
<1>4. Payload(f) \in Seq(Nat) /\ Len(Payload(f)) = m.size
  BY <1>1, PayloadIs
<1> QED
  BY <1>1, <1>2, <1>3, <1>4

\* Put: bytes are appended, and a flag set.
LEMMA CarriesPut ==
    ASSUME NEW f, NEW m, Carries(f, m),
           "Flow" \notin m.flags, "Body" \notin m.flags, m.id # MuxerConnID,
           NEW x \in FieldType, NEW flag \in {"Head", "Body"},
           x.kind = "body" => flag = "Body", x.kind \notin Basic => m.fields = <<>>,
           NEW n, n \in MsgType, n.id = m.id, n.flags = m.flags \cup {flag},
           n.fields = Append(m.fields, x), n.size = m.size + Len(FieldBytes(x))
    PROVE  Carries(SetFlag(f, flag) \o FieldBytes(x), n)
<1> DEFINE b == FieldBytes(x)
           g == SetFlag(f, flag)
<1>1. /\ m.fields \in Seq(FieldType) /\ Whole(f, m.size) /\ Sound(m)
      /\ ConnID(f) = m.id /\ FrameControl(f) = m.flags /\ m.size \in Nat
  BY Carried DEF Carries
<1>2. b \in Seq(Nat)
  BY FieldBytesType
<1>3. /\ SamePayload(g, f, FrameHeaderSize + m.size)
      /\ FrameControl(g) = FrameControl(f) \cup {flag} /\ ConnID(g) = ConnID(f)
  <2>1. flag \in Flag
    BY DEF Flag
  <2>2. /\ FrameHeaderSize + m.size \in Nat /\ FrameHeaderSize + m.size >= FrameHeaderSize
        /\ f \in Frames(FrameHeaderSize + m.size)
    BY <1>1, WholeSeq
  <2> QED
    BY <2>1, <2>2, FlagApart
<1> HIDE DEF b, g
<1>4. Whole(g, m.size) /\ Payload(g) = Payload(f)
  BY <1>1, <1>3, PayloadSame
<1>5. /\ Whole(g \o b, m.size + Len(b)) /\ Payload(g \o b) = Payload(g) \o b
      /\ ConnID(g \o b) = ConnID(g) /\ FrameControl(g \o b) = FrameControl(g)
  BY <1>2, <1>4, Longer
<1>6. PICK q : Joined(Payload(f), q) /\ Parts(q, m.fields)
  BY DEF Carries
<1>7. Joined(Payload(g \o b), Append(q, b))
  BY <1>2, <1>4, <1>5, <1>6, JoinedAppend
<1>8. PICK k \in Nat : k = Len(m.fields)
  BY <1>1, LenProperties
<1>9. /\ n.fields \in Seq(FieldType) /\ Len(n.fields) = k + 1 /\ n.fields[k + 1] = x
      /\ \A j \in 1..k : n.fields[j] = m.fields[j]
  BY <1>1, <1>8, AppendProperties
<1>10. Parts(Append(q, b), n.fields)
  <2>1. q \in Seq(Seq(Nat)) /\ Len(q) = k /\ \A j \in 1..k : q[j] = FieldBytes(m.fields[j])
    BY <1>6, <1>8 DEF Joined, Parts
  <2>2. /\ Len(Append(q, b)) = k + 1 /\ Append(q, b)[k + 1] = b
        /\ \A j \in 1..k : Append(q, b)[j] = q[j]
    BY <1>2, <2>1, AppendProperties
  <2>3. ASSUME NEW j \in 1..(k + 1) PROVE Append(q, b)[j] = FieldBytes(n.fields[j])
    <3>1. CASE j = k + 1
      BY <1>9, <2>2, <3>1 DEF b
    <3>2. CASE j # k + 1
      <4>1. j \in 1..k
        BY <3>2
      <4> QED
        BY <1>9, <2>1, <2>2, <4>1
    <3> QED
      BY <3>1, <3>2
  <2> QED
    BY <1>9, <2>2, <2>3 DEF Parts
<1>11. Sound(n)
  <2>1. n.fields # <<>> /\ "Flow" \notin n.flags /\ n.flags # {} /\ n.id # MuxerConnID
    BY <1>9
  <2>2. ASSUME "Body" \notin n.flags, NEW j \in 1..Len(n.fields) PROVE n.fields[j].kind # "body"
    <3>1. CASE j = k + 1
      BY <1>9, <2>2, <3>1
    <3>2. CASE j # k + 1
      <4>1. j \in 1..k
        BY <1>9, <3>2
      <4> QED
        BY <1>1, <1>8, <1>9, <4>1 DEF Sound
    <3> QED
      BY <3>1, <3>2
  <2>3. ASSUME NEW j \in 1..Len(n.fields), n.fields[j].kind = "body" PROVE j = Len(n.fields)
    <3>1. SUFFICES ASSUME j # k + 1 PROVE FALSE
      BY <1>9
    <3>2. j \in 1..k
      BY <1>9, <3>1
    <3> QED
      BY <1>1, <1>8, <1>9, <2>3, <3>2 DEF Sound
  <2>4. ASSUME NEW j \in 1..Len(n.fields), n.fields[j].kind \notin Basic PROVE j = 1
    <3>1. CASE j = k + 1
      <4>1. m.fields = <<>>
        BY <1>9, <2>4, <3>1
      <4>2. k = 0
        BY <1>8, <4>1
      <4> QED
        BY <3>1, <4>2
    <3>2. CASE j # k + 1
      <4>1. j \in 1..k
        BY <1>9, <3>2
      <4> QED
        BY <1>1, <1>8, <1>9, <2>4, <4>1 DEF Sound
    <3> QED
      BY <3>1, <3>2
  <2> QED
    BY <2>1, <2>2, <2>3, <2>4 DEF Sound
<1>12. Carries(g \o b, n)
  <2>1. ConnID(g \o b) = n.id /\ FrameControl(g \o b) = n.flags
    BY <1>1, <1>3, <1>5
  <2>2. Whole(g \o b, n.size)
    BY <1>5 DEF b
  <2> QED
    BY <1>7, <1>10, <1>11, <2>1, <2>2 DEF Carries
<1> QED
  BY <1>12 DEF g, b

\* FrameDataAllocID: whatever frame the pool had, nothing of it is left.
LEMMA CarriesAlloc ==
    ASSUME NEW p, Whole(p, 0), NEW id \in ID,
           NEW n, n \in MsgType, n.id = id, n.flags = {}, n.fields = <<>>, n.size = 0
    PROVE  Carries(ClearID(p, id), n)
<1> DEFINE g == ClearID(p, id)
<1>1. id \in 0..MuxerConnID /\ id # MuxerConnID
  <2>1. ID \subseteq 0..(MuxerConnID - 1)
    BY WireAssumption
  <2>2. id \in 0..(MuxerConnID - 1)
    BY <2>1, Zenon
  <2>3. MuxerConnID \in Nat
    BY DEF MuxerConnID
  <2> QED
    BY <2>2, <2>3
<1>2. /\ FrameHeaderSize + 0 \in Nat /\ FrameHeaderSize + 0 >= FrameHeaderSize
      /\ p \in Frames(FrameHeaderSize + 0)
  BY WholeSeq
<1>3. g \in Frames(FrameHeaderSize + 0) /\ ConnID(g) = id /\ FrameControl(g) = {}
  BY <1>1, <1>2, AllocIsClean
<1> HIDE DEF g
<1>4. Whole(g, 0)
  BY <1>3 DEF Whole
<1>5. Payload(g) = <<>>
  BY <1>4, PayloadIs, EmptySeq
<1>6. Joined(Payload(g), <<>>)
  BY <1>5, JoinedNone
<1>7. Len(<<>>) = 0 /\ \A j \in 1..0 : FALSE
  OBVIOUS
<1>8. Parts(<<>>, n.fields)
  BY <1>7 DEF Parts
<1>9. Sound(n)
  BY <1>1, <1>7 DEF Sound
<1>10. Carries(g, n)
  BY <1>3, <1>4, <1>6, <1>8, <1>9 DEF Carries
<1> QED
  BY <1>10 DEF g

\* A frame without flags has no payload.
LEMMA NoPayload ==
    ASSUME NEW f, NEW m, Carries(f, m), m.fields = <<>>
    PROVE  m.size = 0
<1>1. PICK q : Joined(Payload(f), q) /\ Parts(q, m.fields)
  BY DEF Carries
<1>2. q = <<>>
  <2>1. Len(q) = 0 /\ q \in Seq(Seq(Nat))
    BY <1>1 DEF Joined, Parts
  <2> QED
    BY <2>1, EmptySeq
<1>3. Payload(f) = <<>>
  BY <1>1, <1>2, JoinedEmpty
<1> QED
  BY <1>3, Carried

\* MakeFlow: the flags replace none.
LEMMA CarriesFlow ==
    ASSUME NEW f, NEW m, Carries(f, m), m.flags = {}, NEW flags \in FlowFlags,
           NEW n, n \in MsgType, n.id = m.id, n.flags = flags, n.fields = m.fields, n.size = m.size
    PROVE  Carries([f EXCEPT ![3] = Unmasked(@) + Control(flags)], n)
<1> DEFINE c == Unmasked(f[3]) + Control(flags)
           g == [f EXCEPT ![3] = c]
<1>1. Whole(f, m.size) /\ Sound(m) /\ ConnID(f) = m.id /\ m.size \in Nat
  BY Carried DEF Carries
<1>2. /\ FrameHeaderSize + m.size \in Nat /\ FrameHeaderSize + m.size >= FrameHeaderSize
      /\ f \in Frames(FrameHeaderSize + m.size) /\ f[3] \in 0..255
  BY <1>1, WholeSeq
<1>3. flags \in SUBSET Flag /\ "Flow" \in flags
  BY DEF FlowFlags, Flag
<1>4. PICK x, y, z \in 0..1 : /\ IsByte(Control(flags), x, y, z, 0)
                              /\ x = 1 <=> "Flow" \in flags
                              /\ y = 1 <=> "Body" \in flags
                              /\ z = 1 <=> "Head" \in flags
  BY <1>3, ControlBits
<1>5. PICK r \in 0..31 : r = Unmasked(f[3])
  BY <1>2 DEF Unmasked
<1>6. c \in Nat /\ IsByte(c, x, y, z, r)
  BY <1>4, <1>5 DEF IsByte
<1> HIDE DEF c
<1>7. /\ Has(c, "Flow") <=> x = 1
      /\ Has(c, "Body") <=> y = 1
      /\ Has(c, "Head") <=> z = 1
      /\ Unmasked(c) = r /\ c \in 0..255
  <2>1. Shows(c, x, y, z, r)
    BY <1>6, BitsOf, Zenon
  <2> QED
    BY <2>1 DEF Shows
<1>8. {t \in Flag : Has(c, t)} = flags
  BY <1>3, <1>4, <1>7 DEF Flag
<1>9. /\ SamePayload(g, f, FrameHeaderSize + m.size) /\ FrameControl(g) = flags
      /\ ConnID(g) = ConnID(f)
  BY <1>2, <1>5, <1>7, <1>8, ThirdByte, ZenonT(40)
<1> HIDE DEF g
<1>10. Whole(g, m.size) /\ Payload(g) = Payload(f)
  BY <1>1, <1>9, PayloadSame
<1>11. m.fields = <<>> /\ Len(<<>>) = 0 /\ \A j \in 1..0 : FALSE
  BY <1>1 DEF Sound
<1>12. Sound(n)
  <2>1. n.flags # {"Body"} /\ n.fields = <<>> /\ "Flow" \in n.flags
    BY <1>3, <1>11
  <2> QED
    BY <1>11, <2>1 DEF Sound
<1>13. \E q : Joined(Payload(g), q) /\ Parts(q, n.fields)
  BY <1>10 DEF Carries
<1>14. Carries(g, n)
  BY <1>1, <1>9, <1>10, <1>12, <1>13 DEF Carries
<1> QED
  BY <1>14 DEF g, c

\* A frame with one number, to the Muxer.
LEMMA CarriesNumber ==
    ASSUME NEW f, NEW x \in Int64, Whole(f, Len(IntBytes(x))), Payload(f) = IntBytes(x),
           NEW fs \in {{"Body"}, {"Body", "Head"}}, IsMuxerControl(f), FrameControl(f) = fs
    PROVE  Carries(f, ToMuxer(fs, x))
<1> DEFINE m == ToMuxer(fs, x)
           d == Field("int", x)
<1>1. IntBytes(x) \in Seq(Nat) /\ Len(IntBytes(x)) \in Nat
  BY IntType, LenProperties
<1>2. d \in FieldType /\ d.kind = "int" /\ d.value = x
  BY DEF Field, FieldType
<1>3. FieldBytes(d) = IntBytes(x)
  BY <1>2 DEF FieldBytes
<1>4. /\ m.id = MuxerConnID /\ m.flags = fs /\ m.fields = <<d>> /\ m.size = Len(IntBytes(x))
      /\ m = [id |-> m.id, flags |-> m.flags, fields |-> m.fields, size |-> m.size]
  BY DEF ToMuxer
<1> HIDE DEF m, d
<1>5. /\ <<d>> \in Seq(FieldType) /\ Len(<<d>>) = 1 /\ <<d>>[1] = d /\ <<d>> # <<>>
  BY <1>2
<1>6. m \in MsgType
  <2>1. MuxerConnID \in Nat /\ fs \in SUBSET Flag
    BY DEF MuxerConnID, Flag
  <2> QED
    BY <1>1, <1>4, <1>5, <2>1 DEF MsgType
<1>7. Sound(m)
  <2>1. \E y \in Int64 : m.fields = <<Field("int", y)>>
    BY <1>4 DEF d
  <2>2. \A j \in 1..Len(m.fields) : j = 1 /\ m.fields[j].kind = "int"
    BY <1>2, <1>4, <1>5
  <2>3. m.fields # <<>> /\ "Flow" \notin m.flags /\ m.flags # {}
    BY <1>4, <1>5, SMTT(40)
  <2>4. "int" \in Basic /\ "int" # "body"
    BY DEF Basic
  <2> QED
    BY <2>1, <2>2, <2>3, <2>4, Zenon DEF Sound
<1>8. Joined(Payload(f), <<IntBytes(x)>>)
  BY <1>1, JoinedOne
<1>9. Parts(<<IntBytes(x)>>, m.fields)
  <2>1. Len(<<IntBytes(x)>>) = 1 /\ <<IntBytes(x)>>[1] = IntBytes(x)
    OBVIOUS
  <2> QED
    BY <1>3, <1>4, <1>5, <2>1 DEF Parts
<1>10. ConnID(f) = m.id
  BY <1>4 DEF IsMuxerControl
<1>11. Carries(f, m)
  BY <1>4, <1>6, <1>7, <1>8, <1>9, <1>10 DEF Carries
<1> QED
  BY <1>11 DEF m

\* SetSizeValue changes the Size only.
LEMMA SizeSet ==
    ASSUME NEW f, NEW n, Whole(f, n), NEW k \in Nat
    PROVE  /\ Whole(SetSizeValue(f, k), n) /\ Payload(SetSizeValue(f, k)) = Payload(f)
           /\ ConnID(SetSizeValue(f, k)) = ConnID(f)
           /\ FrameControl(SetSizeValue(f, k)) = FrameControl(f)
           /\ SizeValue(SetSizeValue(f, k)) = k % 65536
<1> DEFINE g == SetSizeValue(f, k)
<1>1. /\ FrameHeaderSize + n \in Nat /\ FrameHeaderSize + n >= FrameHeaderSize
      /\ f \in Frames(FrameHeaderSize + n)
  BY WholeSeq
<1>2. /\ SamePayload(g, f, FrameHeaderSize + n) /\ SizeValue(g) = k % 65536
      /\ ConnID(g) = ConnID(f) /\ FrameControl(g) = FrameControl(f)
  BY <1>1, SizeApart
<1> HIDE DEF g
<1>3. Whole(g, n) /\ Payload(g) = Payload(f)
  BY <1>2, PayloadSame
<1> QED
  BY <1>2, <1>3 DEF g

\* SetMuxerControl leaves everything but ID and flags.
LEMMA MuxerSet ==
    ASSUME NEW f, NEW n, Whole(f, n), NEW fs \in SUBSET Flag
    PROVE  /\ Whole(SetMuxerControl(f, fs), n) /\ Payload(SetMuxerControl(f, fs)) = Payload(f)
           /\ IsMuxerControl(SetMuxerControl(f, fs))
           /\ FrameControl(SetMuxerControl(f, fs)) = fs
<1> DEFINE g == SetMuxerControl(f, fs)
<1>1. /\ FrameHeaderSize + n \in Nat /\ FrameHeaderSize + n >= FrameHeaderSize
      /\ f \in Frames(FrameHeaderSize + n)
  BY WholeSeq
<1>2. /\ SamePayload(g, f, FrameHeaderSize + n) /\ IsMuxerControl(g) /\ FrameControl(g) = fs
  BY <1>1, MuxerControlSet
<1> HIDE DEF g
<1>3. Whole(g, n) /\ Payload(g) = Payload(f)
  BY <1>2, PayloadSame
<1> QED
  BY <1>2, <1>3 DEF g

\* Ping: the frame has the number, whatever the pool's header was.
LEMMA CarriesPing ==
    ASSUME NEW p, Whole(p, 0), NEW x \in Int64, NEW f, f = SetMuxerControl(p, {"Body"}) \o IntBytes(x)
    PROVE  Carries(SetSizeValue(f, Len(f) - FrameHeaderSize), ToMuxer({"Body"}, x))
<1> DEFINE g == SetMuxerControl(p, {"Body"})
<1>1. {"Body"} \in SUBSET Flag
  BY DEF Flag
<1>2. /\ Whole(g, 0) /\ Payload(g) = Payload(p) /\ IsMuxerControl(g) /\ FrameControl(g) = {"Body"}
  BY <1>1, MuxerSet
<1>3. PICK b \in Seq(Nat) : b = IntBytes(x)
  BY IntType
<1>4. PICK l \in Nat : l = Len(b)
  BY LenProperties
<1>5. f = g \o b
  BY <1>3
<1> HIDE DEF g
<1>6. /\ Whole(f, 0 + l) /\ Payload(f) = Payload(g) \o b
      /\ ConnID(f) = ConnID(g) /\ FrameControl(f) = FrameControl(g)
  BY <1>2, <1>4, <1>5, Longer
<1>7. Whole(f, l) /\ Payload(f) = b
  <2>1. 0 + l = l
    OBVIOUS
  <2>2. Payload(g) = <<>>
    BY <1>2, PayloadIs, EmptySeq
  <2>3. <<>> \o b = b
    BY ConcatEmptySeq
  <2> QED
    BY <1>6, <2>1, <2>2, <2>3
<1>8. PICK k \in Nat : k = Len(f) - FrameHeaderSize
  <2>1. Len(f) = 4 + l
    BY <1>7, WholeSeq
  <2> QED
    BY <2>1 DEF FrameHeaderSize
<1> DEFINE h == SetSizeValue(f, k)
<1>9. /\ Whole(h, l) /\ Payload(h) = Payload(f)
      /\ ConnID(h) = ConnID(f) /\ FrameControl(h) = FrameControl(f)
  BY <1>7, SizeSet
<1> HIDE DEF h
<1>10. IsMuxerControl(h) /\ FrameControl(h) = {"Body"}
  BY <1>2, <1>6, <1>9 DEF IsMuxerControl
<1>11. Carries(h, ToMuxer({"Body"}, x))
  BY <1>3, <1>4, <1>7, <1>9, <1>10, CarriesNumber
<1> QED
  BY <1>8, <1>11 DEF h

\* One part is all there is.
LEMMA JoinedSingle ==
    ASSUME NEW b, NEW q, Joined(b, q), Len(q) = 1
    PROVE  b = q[1]
<1>1. b \in Seq(Nat) /\ q \in Seq(Seq(Nat)) /\ q # <<>>
  <2>1. b \in Seq(Nat) /\ q \in Seq(Seq(Nat))
    BY DEF Joined
  <2>2. ASSUME q = <<>> PROVE FALSE
    <3>1. Len(q) = 0
      BY <2>2
    <3> QED
      BY <3>1
  <2> QED
    BY <2>1, <2>2
<1>2. Prefix(q[1], b) /\ Joined(Drop(b, Len(q[1])), Tail(q))
  BY <1>1, JoinedFirst
<1>3. q[1] \in Seq(Nat) /\ Len(q[1]) \in Nat
  BY <1>1, PartType
<1>4. Tail(q) = <<>>
  <2>1. Tail(q) \in Seq(Seq(Nat)) /\ Len(Tail(q)) = Len(q) - 1
    BY <1>1, HeadTailProperties
  <2>2. Len(Tail(q)) = 0
    BY <2>1
  <2> QED
    BY <2>1, <2>2, EmptySeq
<1>5. Drop(b, Len(q[1])) = <<>>
  BY <1>2, <1>4, JoinedEmpty
<1>6. PICK l \in Nat : l = Len(b)
  BY <1>1, LenProperties
<1>7. PICK k \in Nat : k = Len(q[1]) /\ k <= l
  BY <1>2, <1>3, <1>6 DEF Prefix
<1>8. l - k = 0
  <2>1. Len(Drop(b, k)) = l - k
    BY <1>1, <1>6, <1>7, Dropped
  <2>2. Len(Drop(b, k)) = 0
    BY <1>5, <1>7
  <2> QED
    BY <2>1, <2>2
<1>9. Len(b) = Len(q[1])
  BY <1>6, <1>7, <1>8
<1>10. \A i \in 1..Len(b) : b[i] = q[1][i]
  BY <1>2, <1>9 DEF Prefix
<1> QED
  BY <1>1, <1>3, <1>9, <1>10, SeqEqual

\* muxerControlPingHandler answers with the number of the ping.
LEMMA CarriesPong ==
    ASSUME NEW f, NEW m, Carries(f, m), IsMuxerControl(f), FrameControl(f) = {"Body"}
    PROVE  Carries(SetMuxerControl(f, {"Body", "Head"}),
                   ToMuxer({"Body", "Head"}, ReadInt64(Payload(f)).value))
<1> DEFINE g == SetMuxerControl(f, {"Body", "Head"})
<1>1. Whole(f, m.size) /\ Sound(m) /\ m.id = MuxerConnID /\ m.flags = {"Body"}
  BY DEF Carries, IsMuxerControl
<1>2. PICK x \in Int64 : m.fields = <<Field("int", x)>>
  BY <1>1 DEF Sound
<1>3. PICK b \in Seq(Nat) : b = IntBytes(x)
  BY IntType
<1>4. Payload(f) = b
  <2>1. PICK q : Joined(Payload(f), q) /\ Parts(q, m.fields)
    BY DEF Carries
  <2>2. Len(m.fields) = 1 /\ m.fields[1].kind = "int" /\ m.fields[1].value = x
    BY <1>2 DEF Field
  <2>3. Len(q) = 1 /\ q[1] = FieldBytes(m.fields[1])
    BY <2>1, <2>2 DEF Parts
  <2>4. FieldBytes(m.fields[1]) = IntBytes(x)
    BY <2>2 DEF FieldBytes
  <2> QED
    BY <1>3, <2>1, <2>3, <2>4, JoinedSingle
<1>5. ReadInt64(Payload(f)).value = x
  <2>1. Prefix(IntBytes(x), b)
    BY <1>3, LenProperties DEF Prefix
  <2>2. ZigZag(x) \in Uint
    BY ZigZagParts
  <2>3. ReadUint64(b) = Value(ZigZag(x), Len(UintBytes[ZigZag(x)]))
    BY <2>1, <2>2, UintRead DEF IntBytes
  <2>4. Len(UintBytes[ZigZag(x)]) \in Nat
    BY <1>3, LenProperties DEF IntBytes
  <2>5. ReadInt64(b).value = x
    BY <2>3, <2>4, SignRead
  <2> QED
    BY <1>4, <2>5
<1>6. m.size = Len(b)
  BY <1>1, <1>4, PayloadIs
<1>7. {"Body", "Head"} \in SUBSET Flag
  BY DEF Flag
<1>8. /\ Whole(g, m.size) /\ Payload(g) = Payload(f) /\ IsMuxerControl(g)
      /\ FrameControl(g) = {"Body", "Head"}
  BY <1>1, <1>7, MuxerSet
<1> HIDE DEF g
<1>9. Carries(g, ToMuxer({"Body", "Head"}, x))
  BY <1>3, <1>4, <1>6, <1>8, CarriesNumber
<1> QED
  BY <1>5, <1>9 DEF g

\* A frame has a payload if it has fields.
LEMMA PayloadSays ==
    ASSUME NEW f, NEW m, Carries(f, m)
    PROVE  HasPayload(f) <=> m.fields # <<>>
<1>1. /\ FrameHeaderSize + m.size \in Nat /\ FrameHeaderSize + m.size >= FrameHeaderSize
      /\ f \in Frames(FrameHeaderSize + m.size)
  BY WholeSeq DEF Carries
<1>2. HasPayload(f) <=> "Flow" \notin FrameControl(f) /\ FrameControl(f) # {}
  BY <1>1, KindsOfFrames
<1> QED
  BY <1>2 DEF Carries, Sound

\* WriteTo: the header says how long the frame is.
LEMMA DeliversSized ==
    ASSUME NEW f, NEW m, Carries(f, m), m.size <= FrameMaxPayload
    PROVE  Delivers(WithSize(f), m)
<1>1. m.size \in Nat /\ Whole(f, m.size) /\ Len(f) = 4 + m.size
  BY Carried
<1>2. CASE ~HasPayload(f)
  <2>1. WithSize(f) = f
    BY <1>2 DEF WithSize
  <2> QED
    BY <1>2, <2>1 DEF Delivers
<1>3. CASE HasPayload(f)
  <2> DEFINE g == SetSizeValue(f, m.size)
  <2>1. WithSize(f) = g
    <3>1. Len(f) - FrameHeaderSize = m.size
      BY <1>1 DEF FrameHeaderSize
    <3> QED
      BY <1>3, <3>1 DEF WithSize
  <2>2. /\ Whole(g, m.size) /\ Payload(g) = Payload(f) /\ ConnID(g) = ConnID(f)
        /\ FrameControl(g) = FrameControl(f) /\ SizeValue(g) = m.size % 65536
    BY <1>1, SizeSet
  <2> HIDE DEF g
  <2>3. m.size % 65536 = m.size
    <3>1. FrameMaxPayload \in Nat /\ FrameMaxPayload < 65536
      BY WireAssumption
    <3>2. m.size < 65536 /\ 65536 \in Nat
      BY <1>1, <3>1
    <3> QED
      BY <1>1, <3>2, SmallMod
  <2>4. Carries(g, m)
    BY <2>2 DEF Carries
  <2> QED
    BY <2>1, <2>2, <2>3, <2>4 DEF Delivers
<1> QED
  BY <1>2, <1>3

\* ReadFrom takes the frame's length from its header.
LEMMA SizeRead ==
    ASSUME NEW f, NEW m, Delivers(f, m)
    PROVE  m.size = IF HasPayload(f) THEN SizeValue(f) ELSE 0
<1>1. Carries(f, m)
  BY DEF Delivers
<1>2. CASE HasPayload(f)
  BY <1>2 DEF Delivers
<1>3. CASE ~HasPayload(f)
  <2>1. m.fields = <<>>
    BY <1>1, <1>3, PayloadSays
  <2> QED
    BY <1>1, <1>3, <2>1, NoPayload
<1> QED
  BY <1>2, <1>3

\* The header alone.
LEMMA HeaderWhole ==
    ASSUME NEW f, NEW n, Whole(f, n)
    PROVE  Whole(HeaderOf(f), 0)
<1>1. n \in Nat /\ f \in Seq(Nat) /\ Len(f) = 4 + n /\ \A i \in 1..4 : f[i] \in 0..255
  BY WholeSeq
<1> DEFINE h == HeaderOf(f)
<1>2. h = SubSeq(f, 1, 4)
  BY DEF HeaderOf, FrameHeaderSize
<1>3. 1 \in Nat /\ 4 \in Nat /\ 1 <= 1 /\ 1 <= 4 /\ 4 <= Len(f)
  BY <1>1
<1>4. /\ SubSeq(f, 1, 4) \in Seq(Nat) /\ Len(SubSeq(f, 1, 4)) = 4 - 1 + 1
      /\ \A i \in 1..(4 - 1 + 1) : SubSeq(f, 1, 4)[i] = f[1 + i - 1]
  BY <1>1, <1>3, Slice, ZenonT(40)
<1> HIDE DEF h
<1>5. h \in Seq(Nat) /\ Len(h) = 4 + 0
  BY <1>2, <1>4
<1>6. \A i \in 1..4 : h[i] \in 0..255
  <2> SUFFICES ASSUME NEW i \in 1..4 PROVE h[i] \in 0..255
    OBVIOUS
  <2>1. i \in 1..(4 - 1 + 1) /\ 1 + i - 1 = i
    OBVIOUS
  <2>2. h[i] = f[i]
    BY <1>2, <1>4, <2>1
  <2> QED
    BY <1>1, <2>2
<1>7. Whole(h, 0)
  BY <1>5, <1>6, WholeMade
<1> QED
  BY <1>7 DEF h

----------------------------------------------------------------------------
(* Every step keeps the invariant.                                         *)

\* A frame in which nothing has been put yet.
LEMMA NothingMade ==
    /\ Nothing.id = 0 /\ Nothing.flags = {} /\ Nothing.fields = <<>> /\ Nothing.size = 0
    /\ Nothing \in MsgType
<1>1. Nothing = [id |-> 0, flags |-> {}, fields |-> <<>>, size |-> 0]
  BY DEF Nothing
<1>2. <<>> \in Seq(FieldType) /\ {} \in SUBSET Flag
  OBVIOUS
<1> QED
  BY <1>1, <1>2 DEF MsgType

\* The invariant holds at the start.
LEMMA WireStart == Init => WireInv
<1> SUFFICES ASSUME Init PROVE WireInv
  OBVIOUS
<1>1. Whole(pool, 0)
  <2> DEFINE p == <<0, 0, 0, 0>>
  <2>1. pool = p
    BY DEF Init, NewFrameData
  <2>2. p \in Seq(Nat) /\ Len(p) = 4 + 0 /\ \A i \in 1..4 : p[i] \in 0..255
    OBVIOUS
  <2> HIDE DEF p
  <2> QED
    BY <2>1, <2>2, WholeMade
<1>2. Filling
  BY DEF Init, Filling
<1>3. \A j \in 1..0 : FALSE
  OBVIOUS
<1>4. Arrived
  BY <1>3 DEF Init, Arrived
<1>5. UnderWay(wire, Len(got), sent)
  <2>1. wire = <<>> /\ Len(got) = 0 /\ Len(sent) = 0
    BY DEF Init
  <2>2. Joined(<<>>, <<>>)
    BY JoinedNone
  <2>3. Len(<<>>) = 0
    OBVIOUS
  <2> QED
    BY <1>3, <2>1, <2>2, <2>3 DEF UnderWay
<1> QED
  BY <1>1, <1>2, <1>4, <1>5 DEF WireInv

\* FrameDataAllocID keeps the invariant.
LEMMA AllocKeeps ==
    ASSUME WireInv, NEW id \in ID, FrameDataAllocID(id)
    PROVE  WireInv'
<1>1. fd' = ClearID(pool, id) /\ made' = [Nothing EXCEPT !.id = id]
  BY DEF FrameDataAllocID
<1>2. UNCHANGED <<pool, wire, sent, got>>
  BY DEF FrameDataAllocID
<1>3. id \in Nat
  <2>1. ID \subseteq 0..(MuxerConnID - 1)
    BY WireAssumption
  <2>2. id \in 0..(MuxerConnID - 1)
    BY <2>1, Zenon
  <2>3. MuxerConnID \in Nat
    BY DEF MuxerConnID
  <2> QED
    BY <2>2, <2>3
<1>4. /\ made'.id = id /\ made'.flags = {} /\ made'.fields = <<>> /\ made'.size = 0
      /\ made' = [id |-> id, flags |-> {}, fields |-> <<>>, size |-> 0]
  BY <1>1 DEF Nothing
<1>5. made' \in MsgType
  <2>1. <<>> \in Seq(FieldType) /\ {} \in SUBSET Flag
    OBVIOUS
  <2> QED
    BY <1>3, <1>4, <2>1 DEF MsgType
<1>6. Whole(pool, 0)
  BY DEF WireInv
<1>7. Carries(fd', made')
  BY <1>1, <1>4, <1>5, <1>6, CarriesAlloc
<1> QED
  BY <1>2, <1>7 DEF WireInv, Filling, Arrived

\* Put keeps the invariant.
LEMMA PutKeeps ==
    ASSUME WireInv, NEW flag \in {"Head", "Body"}, NEW x \in FieldType, "Body" \notin made.flags,
           Put(flag, x, FieldBytes(x)),
           x.kind = "body" => flag = "Body", x.kind \notin Basic => made.fields = <<>>
    PROVE  WireInv'
<1> DEFINE b == FieldBytes(x)
<1>1. /\ fd # <<>> /\ "Flow" \notin made.flags /\ made.id # MuxerConnID
      /\ fd' = SetFlag(fd, flag) \o b
      /\ made' = [made EXCEPT !.flags = @ \cup {flag}, !.fields = Append(@, x),
                              !.size = @ + Len(b)]
      /\ UNCHANGED <<pool, wire, sent, got>>
  BY DEF Put
<1>2. Carries(fd, made)
  BY <1>1 DEF WireInv, Filling
<1>3. /\ made \in MsgType /\ made.id \in Nat /\ made.flags \in SUBSET Flag
      /\ made.fields \in Seq(FieldType) /\ made.size \in Nat
  BY <1>2, Carried
<1>4. b \in Seq(Nat) /\ Len(b) \in Nat
  BY FieldBytesType, LenProperties
<1> HIDE DEF b
<1>5. /\ made'.id = made.id /\ made'.flags = made.flags \cup {flag}
      /\ made'.fields = Append(made.fields, x) /\ made'.size = made.size + Len(b)
      /\ made' = [id |-> made'.id, flags |-> made'.flags, fields |-> made'.fields,
                  size |-> made'.size]
  BY <1>1, <1>3 DEF MsgType
<1>6. made' \in MsgType
  <2>1. Append(made.fields, x) \in Seq(FieldType)
    BY <1>3, AppendProperties
  <2>2. made.flags \cup {flag} \in SUBSET Flag
    BY <1>3 DEF Flag
  <2>3. made.size + Len(b) \in Nat
    BY <1>3, <1>4
  <2> QED
    BY <1>3, <1>5, <2>1, <2>2, <2>3 DEF MsgType
<1>7. Carries(SetFlag(fd, flag) \o b, made')
  <2>1. PICK f, m, n : f = fd /\ m = made /\ n = made'
    OBVIOUS
  <2>2. /\ Carries(f, m) /\ "Flow" \notin m.flags /\ "Body" \notin m.flags
        /\ m.id # MuxerConnID /\ (x.kind \notin Basic => m.fields = <<>>)
    BY <1>1, <1>2, <2>1
  <2>3. /\ n \in MsgType /\ n.id = m.id /\ n.flags = m.flags \cup {flag}
        /\ n.fields = Append(m.fields, x) /\ n.size = m.size + Len(FieldBytes(x))
    BY <1>5, <1>6, <2>1 DEF b
  <2>4. Carries(SetFlag(f, flag) \o FieldBytes(x), n)
    BY <2>2, <2>3, CarriesPut
  <2> QED
    BY <2>1, <2>4 DEF b
<1>8. Carries(fd', made')
  BY <1>1, <1>7
<1> QED
  BY <1>1, <1>8 DEF WireInv, Filling, Arrived

\* A record is put into a frame that has nothing in it.
LEMMA RecordKeeps ==
    ASSUME WireInv, NEW x \in FieldType, made.fields = <<>>, x.kind # "body",
           Put("Head", x, FieldBytes(x))
    PROVE  WireInv'
<1>1. fd # <<>> /\ "Flow" \notin made.flags
  BY DEF Put
<1>2. Sound(made)
  BY <1>1 DEF WireInv, Filling, Carries
<1>3. made.flags = {}
  BY <1>1, <1>2 DEF Sound
<1>4. "Body" \notin made.flags
  BY <1>3
<1>5. "Head" \in {"Head", "Body"}
  OBVIOUS
<1> QED
  BY <1>4, <1>5, PutKeeps

\* MakeFlow keeps the invariant.
LEMMA FlowKeeps ==
    ASSUME WireInv, NEW flags \in FlowFlags, MakeFlow(flags)
    PROVE  WireInv'
<1>1. /\ fd # <<>> /\ made.flags = {}
      /\ fd' = [fd EXCEPT ![3] = Unmasked(@) + Control(flags)]
      /\ made' = [made EXCEPT !.flags = flags]
      /\ UNCHANGED <<pool, wire, sent, got>>
  BY DEF MakeFlow
<1>2. Carries(fd, made)
  BY <1>1 DEF WireInv, Filling
<1>3. /\ made \in MsgType /\ made.id \in Nat /\ made.flags \in SUBSET Flag
      /\ made.fields \in Seq(FieldType) /\ made.size \in Nat
  BY <1>2, Carried
<1>4. /\ made'.id = made.id /\ made'.flags = flags
      /\ made'.fields = made.fields /\ made'.size = made.size
      /\ made' = [id |-> made'.id, flags |-> made'.flags, fields |-> made'.fields,
                  size |-> made'.size]
  BY <1>1, <1>3 DEF MsgType
<1>5. made' \in MsgType
  <2>1. flags \in SUBSET Flag
    BY DEF FlowFlags, Flag
  <2> QED
    BY <1>3, <1>4, <2>1 DEF MsgType
<1>6. Carries([fd EXCEPT ![3] = Unmasked(@) + Control(flags)], made')
  <2>1. PICK f, m, n : f = fd /\ m = made /\ n = made'
    OBVIOUS
  <2>2. /\ Carries(f, m) /\ m.flags = {} /\ n \in MsgType /\ n.id = m.id /\ n.flags = flags
        /\ n.fields = m.fields /\ n.size = m.size
    BY <1>1, <1>2, <1>4, <1>5, <2>1
  <2>3. Carries([f EXCEPT ![3] = Unmasked(@) + Control(flags)], n)
    BY <2>2, CarriesFlow
  <2> QED
    BY <2>1, <2>3
<1>7. Carries(fd', made')
  BY <1>1, <1>6
<1> QED
  BY <1>1, <1>7 DEF WireInv, Filling, Arrived

\* Ping keeps the invariant.
LEMMA PingKeeps ==
    ASSUME WireInv, NEW x \in Int64, Ping(x)
    PROVE  WireInv'
<1> DEFINE f == SetMuxerControl(pool, {"Body"}) \o IntBytes(x)
<1>1. /\ fd' = SetSizeValue(f, Len(f) - FrameHeaderSize) /\ made' = ToMuxer({"Body"}, x)
      /\ UNCHANGED <<pool, wire, sent, got>>
  BY DEF Ping
<1>2. Whole(pool, 0)
  BY DEF WireInv
<1>3. Carries(SetSizeValue(f, Len(f) - FrameHeaderSize), ToMuxer({"Body"}, x))
  BY <1>2, CarriesPing
<1> HIDE DEF f
<1>4. Carries(fd', made')
  BY <1>1, <1>3
<1> QED
  BY <1>1, <1>4 DEF WireInv, Filling, Arrived

\* Pong keeps the invariant: the frame that was read is a ping.
LEMMA PongKeeps ==
    ASSUME WireInv, Pong
    PROVE  WireInv'
<1>1. /\ got # <<>> /\ IsMuxerControl(Last(got)) /\ FrameControl(Last(got)) = {"Body"}
      /\ fd' = SetMuxerControl(Last(got), {"Body", "Head"})
      /\ made' = ToMuxer({"Body", "Head"}, ReadInt64(Payload(Last(got))).value)
      /\ UNCHANGED <<pool, wire, sent, got>>
  BY DEF Pong
<1>2. PICK n \in Nat : n = Len(got) /\ n >= 1
  <2>1. got \in Seq(Seq(Nat)) /\ Len(got) \in Nat
    BY LenProperties DEF WireInv, Arrived
  <2>2. Len(got) # 0
    BY <1>1, <2>1, EmptySeq
  <2> QED
    BY <2>1, <2>2
<1>3. Last(got) = got[n]
  BY <1>2 DEF Last
<1>4. Carries(Last(got), sent[n])
  <2>1. n \in 1..Len(got)
    BY <1>2
  <2> QED
    BY <1>3, <2>1 DEF WireInv, Arrived
<1>5. Carries(fd', made')
  BY <1>1, <1>4, CarriesPong
<1> QED
  BY <1>1, <1>5 DEF WireInv, Filling, Arrived

\* WriteTo keeps the invariant: the frame is the last one on the way.
LEMMA WriteToKeeps ==
    ASSUME WireInv, WriteTo
    PROVE  WireInv'
<1>1. fd # <<>> /\ fd' = <<>> /\ got' = got
  BY DEF WriteTo
<1>2. Carries(fd, made)
  BY <1>1 DEF WireInv, Filling
<1>3. /\ Whole(pool, 0) /\ Arrived /\ UnderWay(wire, Len(got), sent)
      /\ sent \in Seq(MsgType) /\ got \in Seq(Seq(Nat)) /\ Len(got) <= Len(sent)
      /\ \A i \in 1..Len(got) : Carries(got[i], sent[i])
  BY DEF WireInv, Arrived
<1>4. Filling'
  BY <1>1 DEF Filling
<1>5. made.size \in Nat /\ made \in MsgType /\ Len(Payload(fd)) = made.size
  BY <1>2, Carried
<1>6. CASE UNCHANGED <<pool, wire, sent>>
  BY <1>1, <1>3, <1>4, <1>6 DEF WireInv, Arrived
<1>7. CASE /\ ~(Len(Payload(fd)) > FrameMaxPayload)
           /\ pool' = HeaderOf(WithSize(fd))
           /\ IF made.flags = {} THEN UNCHANGED <<wire, sent>>
              ELSE wire' = wire \o WithSize(fd) /\ sent' = Append(sent, made)
  <2>1. made.size <= FrameMaxPayload
    <3>1. FrameMaxPayload \in Nat
      BY WireAssumption
    <3> QED
      BY <1>5, <1>7, <3>1
  <2>2. Delivers(WithSize(fd), made)
    BY <1>2, <2>1, DeliversSized
  <2>3. PICK f : f = WithSize(fd) /\ Delivers(f, made) /\ Carries(f, made)
    BY <2>2 DEF Delivers
  <2>4. Whole(f, made.size) /\ f \in Seq(Nat)
    BY <2>3, Carried
  <2>5. Whole(pool', 0)
    BY <1>7, <2>3, <2>4, HeaderWhole
  <2>6. CASE made.flags = {}
    <3>1. UNCHANGED <<wire, sent>>
      BY <1>7, <2>6
    <3> QED
      BY <1>1, <1>3, <1>4, <2>5, <3>1 DEF WireInv, Arrived
  <2>7. CASE made.flags # {}
    <3>1. wire' = wire \o f /\ sent' = Append(sent, made)
      BY <1>7, <2>3, <2>7
    <3>2. PICK n \in Nat, k \in Nat : n = Len(sent) /\ k = Len(got) /\ k <= n
      BY <1>3, LenProperties
    <3>3. /\ sent' \in Seq(MsgType) /\ Len(sent') = n + 1 /\ sent'[n + 1] = made
          /\ \A i \in 1..n : sent'[i] = sent[i]
      BY <1>3, <1>5, <3>1, <3>2, AppendProperties
    <3>4. Arrived'
      <4>1. Len(got) <= Len(sent')
        BY <3>2, <3>3
      <4>2. ASSUME NEW i \in 1..k PROVE Carries(got[i], sent'[i])
        <5>1. i \in 1..n /\ i \in 1..Len(got)
          BY <3>2
        <5> QED
          BY <1>3, <3>3, <5>1
      <4> QED
        BY <1>1, <1>3, <3>2, <3>3, <4>1, <4>2 DEF Arrived
    <3>5. UnderWay(wire', Len(got), sent')
      <4>1. PICK q : /\ Joined(wire, q) /\ Len(q) = n - k
                     /\ \A j \in 1..Len(q) : Delivers(q[j], sent[k + j])
        BY <1>3, <3>2 DEF UnderWay
      <4>2. Joined(wire', Append(q, f))
        BY <2>4, <3>1, <4>1, JoinedAppend
      <4>3. q \in Seq(Seq(Nat))
        BY <4>1 DEF Joined
      <4>4. PICK l \in Nat : l = Len(q) /\ n = k + l
        BY <3>2, <4>1, SMTT(40)
      <4>5. /\ Len(Append(q, f)) = l + 1 /\ Append(q, f)[l + 1] = f
            /\ \A j \in 1..l : Append(q, f)[j] = q[j]
        BY <2>4, <4>3, <4>4, AppendProperties
      <4>6. ASSUME NEW j \in 1..(l + 1) PROVE Delivers(Append(q, f)[j], sent'[k + j])
        <5>1. CASE j = l + 1
          <6>1. k + j = n + 1
            BY <4>4, <5>1
          <6> QED
            BY <2>3, <3>3, <4>5, <5>1, <6>1
        <5>2. CASE j # l + 1
          <6>1. j \in 1..l /\ k + j \in 1..n
            BY <4>4, <5>2
          <6> QED
            BY <3>3, <4>1, <4>4, <4>5, <6>1
        <5> QED
          BY <5>1, <5>2
      <4>7. l + 1 = Len(sent') - k
        BY <3>3, <4>4
      <4>8. /\ Joined(wire', Append(q, f)) /\ Len(Append(q, f)) = Len(sent') - k
            /\ \A j \in 1..Len(Append(q, f)) : Delivers(Append(q, f)[j], sent'[k + j])
        BY <4>2, <4>5, <4>6, <4>7
      <4> QED
        BY <3>2, <4>8 DEF UnderWay
    <3>6. UnderWay(wire', Len(got'), sent')
      BY <1>1, <3>5
    <3> QED
      BY <1>4, <2>5, <3>4, <3>6 DEF WireInv
  <2> QED
    BY <2>6, <2>7
<1>8. \/ UNCHANGED <<pool, wire, sent>>
      \/ /\ ~(Len(Payload(fd)) > FrameMaxPayload)
         /\ pool' = HeaderOf(WithSize(fd))
         /\ IF made.flags = {} THEN UNCHANGED <<wire, sent>>
            ELSE wire' = wire \o WithSize(fd) /\ sent' = Append(sent, made)
  BY DEF WriteTo
<1> QED
  BY <1>6, <1>7, <1>8

\* The header of what comes next is the header of the first frame.
LEMMA FirstFrame ==
    ASSUME NEW w, NEW q, Joined(w, q), NEW f, q # <<>>, f = q[1], NEW m, Delivers(f, m)
    PROVE  /\ m.size = IF HasPayload(w) THEN SizeValue(w) ELSE 0
           /\ SubSeq(w, 1, FrameHeaderSize + m.size) = f
           /\ Len(w) >= FrameHeaderSize + m.size
           /\ Len(f) = FrameHeaderSize + m.size
<1>1. m.size \in Nat /\ f \in Seq(Nat) /\ Len(f) = 4 + m.size
  BY Carried DEF Delivers
<1>2. w \in Seq(Nat) /\ Prefix(f, w)
  BY JoinedFirst DEF Joined
<1>3. PICK l \in Nat, k \in Nat : l = Len(w) /\ k = Len(f) /\ k = 4 + m.size /\ k <= l
  BY <1>1, <1>2, LenProperties DEF Prefix
<1>4. \A i \in 1..k : w[i] = f[i]
  BY <1>2, <1>3 DEF Prefix
<1>5. \A i \in 1..4 : w[i] = f[i]
  <2>1. \A i \in 1..4 : i \in 1..k
    BY <1>1, <1>3
  <2> QED
    BY <1>4, <2>1
<1>6. HasPayload(w) = HasPayload(f) /\ SizeValue(w) = SizeValue(f)
  BY <1>5, HeaderSame
<1>7. m.size = IF HasPayload(w) THEN SizeValue(w) ELSE 0
  BY <1>6, SizeRead
<1>8. FrameHeaderSize + m.size = k
  BY <1>3 DEF FrameHeaderSize
<1>9. SubSeq(w, 1, k) = f
  <2>1. 1 \in Nat /\ 1 <= 1 /\ 1 <= k
    BY <1>1, <1>3
  <2>2. /\ SubSeq(w, 1, k) \in Seq(Nat) /\ Len(SubSeq(w, 1, k)) = k - 1 + 1
        /\ \A i \in 1..(k - 1 + 1) : SubSeq(w, 1, k)[i] = w[1 + i - 1]
    BY <1>2, <1>3, <2>1, Slice, ZenonT(40)
  <2>3. k - 1 + 1 = k
    OBVIOUS
  <2>4. \A i \in 1..k : 1 + i - 1 = i
    OBVIOUS
  <2>5. \A i \in 1..k : SubSeq(w, 1, k)[i] = f[i]
    BY <1>4, <2>2, <2>3, <2>4
  <2>6. Len(SubSeq(w, 1, k)) = Len(f) /\ \A i \in 1..Len(SubSeq(w, 1, k)) : SubSeq(w, 1, k)[i] = f[i]
    BY <1>3, <2>2, <2>3, <2>5
  <2> QED
    BY <1>1, <2>2, <2>6, SeqEqual, Zenon
<1> QED
  BY <1>3, <1>7, <1>8, <1>9

\* ReadFrom keeps the invariant: it takes the first frame on the way.
LEMMA ReadFromKeeps ==
    ASSUME WireInv, ReadFrom
    PROVE  WireInv'
<1> DEFINE size == IF HasPayload(wire) THEN SizeValue(wire) ELSE 0
<1>1. /\ Len(wire) >= FrameHeaderSize
      /\ got' = Append(got, SubSeq(wire, 1, FrameHeaderSize + size))
      /\ wire' = Drop(wire, FrameHeaderSize + size)
      /\ UNCHANGED <<fd, made, pool, sent>>
  BY DEF ReadFrom
<1>2. /\ sent \in Seq(MsgType) /\ got \in Seq(Seq(Nat)) /\ Len(got) <= Len(sent)
      /\ \A i \in 1..Len(got) : Carries(got[i], sent[i])
      /\ UnderWay(wire, Len(got), sent)
  BY DEF WireInv, Arrived
<1>3. PICK n \in Nat, k \in Nat : n = Len(sent) /\ k = Len(got) /\ k <= n
  BY <1>2, LenProperties
<1>4. PICK q : /\ Joined(wire, q) /\ Len(q) = n - k
               /\ \A j \in 1..Len(q) : Delivers(q[j], sent[k + j])
  BY <1>2, <1>3 DEF UnderWay
<1>5. q \in Seq(Seq(Nat)) /\ q # <<>>
  <2>1. q \in Seq(Seq(Nat))
    BY <1>4 DEF Joined
  <2>2. ASSUME q = <<>> PROVE FALSE
    <3>1. wire = <<>>
      BY <1>4, <2>2, JoinedEmpty
    <3>2. Len(wire) = 0
      BY <3>1
    <3> QED
      BY <1>1, <3>2 DEF FrameHeaderSize
  <2> QED
    BY <2>1, <2>2
<1>6. PICK l \in Nat : l = Len(q) - 1 /\ n = k + l + 1
  <2>1. Len(q) \in Nat /\ Len(q) # 0
    BY <1>5, LenProperties, EmptySeq
  <2> QED
    BY <1>3, <1>4, <2>1
<1>7. Len(q) = l + 1 /\ 1 \in 1..Len(q)
  <2>1. Len(q) \in Nat
    BY <1>5, LenProperties
  <2> QED
    BY <1>6, <2>1
<1>8. PICK f : f = q[1]
  OBVIOUS
<1>9. PICK m : m = sent[k + 1]
  OBVIOUS
<1>10. Delivers(f, m)
  BY <1>4, <1>7, <1>8, <1>9
<1>11. size = m.size /\ SubSeq(wire, 1, FrameHeaderSize + m.size) = f /\ Len(f) = FrameHeaderSize + m.size
  <2>1. PICK w : w = wire
    OBVIOUS
  <2>2. Joined(w, q) /\ q # <<>>
    BY <1>4, <1>5, <2>1
  <2>3. /\ m.size = IF HasPayload(w) THEN SizeValue(w) ELSE 0
        /\ SubSeq(w, 1, FrameHeaderSize + m.size) = f
        /\ Len(f) = FrameHeaderSize + m.size
    BY <1>8, <1>10, <2>2, FirstFrame
  <2> QED
    BY <2>1, <2>3, Zenon
<1> HIDE DEF size
<1>12. got' = Append(got, f) /\ wire' = Drop(wire, Len(f)) /\ f \in Seq(Nat)
  <2>1. f \in Seq(Nat)
    BY <1>10, Carried DEF Delivers
  <2> QED
    BY <1>1, <1>11, <2>1
<1>13. /\ got' \in Seq(Seq(Nat)) /\ Len(got') = k + 1 /\ got'[k + 1] = f
       /\ \A i \in 1..k : got'[i] = got[i]
  BY <1>2, <1>3, <1>12, AppendProperties
<1>14. Arrived'
  <2>1. Len(got') <= Len(sent)
    BY <1>3, <1>6, <1>13
  <2>2. ASSUME NEW i \in 1..(k + 1) PROVE Carries(got'[i], sent[i])
    <3>1. CASE i = k + 1
      BY <1>9, <1>10, <1>13, <3>1 DEF Delivers
    <3>2. CASE i # k + 1
      <4>1. i \in 1..k
        BY <3>2
      <4> QED
        BY <1>2, <1>3, <1>13, <4>1
    <3> QED
      BY <3>1, <3>2
  <2>3. sent' = sent
    BY <1>1
  <2> QED
    BY <1>2, <1>13, <2>1, <2>2, <2>3 DEF Arrived
<1>15. UnderWay(wire', Len(got'), sent')
  <2>1. Joined(wire', Tail(q))
    BY <1>4, <1>5, <1>8, <1>12, JoinedFirst
  <2>2. Len(Tail(q)) = l /\ \A j \in 1..l : Tail(q)[j] = q[j + 1]
    BY <1>5, <1>7, HeadTailProperties
  <2>3. ASSUME NEW j \in 1..l PROVE Delivers(Tail(q)[j], sent[(k + 1) + j])
    <3>1. j + 1 \in 1..Len(q) /\ k + (j + 1) = (k + 1) + j
      BY <1>7
    <3> QED
      BY <1>4, <2>2, <3>1
  <2>4. l = Len(sent) - (k + 1)
    BY <1>3, <1>6
  <2>5. /\ Joined(wire', Tail(q)) /\ Len(Tail(q)) = Len(sent) - (k + 1)
        /\ \A j \in 1..Len(Tail(q)) : Delivers(Tail(q)[j], sent[(k + 1) + j])
    BY <2>1, <2>2, <2>3, <2>4
  <2>6. UnderWay(wire', k + 1, sent)
    BY <2>5 DEF UnderWay
  <2> QED
    BY <1>1, <1>13, <2>6
<1>16. Filling' /\ Whole(pool', 0)
  BY <1>1 DEF WireInv, Filling
<1> QED
  BY <1>14, <1>15, <1>16 DEF WireInv

\* A record of a type that FieldType has.
LEMMA ResponseKeeps ==
    ASSUME WireInv, NEW r \in ResponseType, WriteResponse(r)
    PROVE  WireInv'
<1>1. made.fields = <<>> /\ Put("Head", Field("response", r), <<4>> \o ResponseBytes(r))
  BY DEF WriteResponse, Record
<1>2. PICK x : x = Field("response", r)
  OBVIOUS
<1>3. x \in FieldType /\ x.kind = "response" /\ x.value = r
  BY <1>2 DEF Field, FieldType
<1>4. FieldBytes(x) = <<4>> \o ResponseBytes(r)
  BY <1>3 DEF FieldBytes
<1>5. Put("Head", x, FieldBytes(x))
  BY <1>1, <1>2, <1>4
<1> QED
  BY <1>1, <1>3, <1>5, RecordKeeps

\* WriteRequest keeps the invariant.
LEMMA RequestKeeps ==
    ASSUME WireInv, NEW r \in RequestType, WriteRequest(r)
    PROVE  WireInv'
<1>1. made.fields = <<>> /\ Put("Head", Field("request", r), <<3>> \o RequestBytes(r))
  BY DEF WriteRequest, Record
<1>2. PICK x : x = Field("request", r)
  OBVIOUS
<1>3. x \in FieldType /\ x.kind = "request" /\ x.value = r
  BY <1>2 DEF Field, FieldType
<1>4. FieldBytes(x) = <<3>> \o RequestBytes(r)
  BY <1>3 DEF FieldBytes
<1>5. Put("Head", x, FieldBytes(x))
  BY <1>1, <1>2, <1>4
<1> QED
  BY <1>1, <1>3, <1>5, RecordKeeps

\* A field of a basic kind.
LEMMA BasicKeeps ==
    ASSUME WireInv, NoBody, NEW flag \in {"Head", "Body"}, NEW x \in FieldType,
           x.kind \in Basic, x.kind = "body" => flag = "Body", Put(flag, x, FieldBytes(x))
    PROVE  WireInv'
<1>1. "Body" \notin made.flags
  BY DEF NoBody
<1>2. x.kind \notin Basic => made.fields = <<>>
  OBVIOUS
<1> QED
  BY <1>1, <1>2, PutKeeps

\* Every step keeps the invariant.
LEMMA WireStep ==
    ASSUME WireInv, Next
    PROVE  WireInv'
<1>1. ASSUME NEW id \in ID, FrameDataAllocID(id) PROVE WireInv'
  BY <1>1, AllocKeeps
<1>2. ASSUME NEW v \in Uint, WriteUint64(v) PROVE WireInv'
  <2>1. PICK x : x = Field("uint", v)
    OBVIOUS
  <2>2. x \in FieldType /\ x.kind = "uint" /\ x.value = v
    BY <2>1 DEF Field, FieldType
  <2>3. FieldBytes(x) = UintBytes[v]
    BY <2>2 DEF FieldBytes
  <2>4. NoBody /\ Put("Head", x, FieldBytes(x))
    BY <1>2, <2>1, <2>3 DEF WriteUint64
  <2>5. x.kind \in Basic /\ x.kind # "body" /\ "Head" \in {"Head", "Body"}
    BY <2>2 DEF Basic
  <2> QED
    BY <2>2, <2>4, <2>5, BasicKeeps
<1>3. ASSUME NEW v \in Int64, WriteInt64(v) PROVE WireInv'
  <2>1. PICK x : x = Field("int", v)
    OBVIOUS
  <2>2. x \in FieldType /\ x.kind = "int" /\ x.value = v
    BY <2>1 DEF Field, FieldType
  <2>3. FieldBytes(x) = IntBytes(v)
    BY <2>2 DEF FieldBytes
  <2>4. NoBody /\ Put("Head", x, FieldBytes(x))
    BY <1>3, <2>1, <2>3 DEF WriteInt64
  <2>5. x.kind \in Basic /\ x.kind # "body" /\ "Head" \in {"Head", "Body"}
    BY <2>2 DEF Basic
  <2> QED
    BY <2>2, <2>4, <2>5, BasicKeeps
<1>4. ASSUME NEW v \in 0..(MaxLen - 1), WriteLen(v) PROVE WireInv'
  <2>1. PICK x : x = Field("len", v)
    OBVIOUS
  <2>2. x \in FieldType /\ x.kind = "len" /\ x.value = v
    BY <2>1 DEF Field, FieldType
  <2>3. FieldBytes(x) = LenBytes(v)
    BY <2>2 DEF FieldBytes
  <2>4. NoBody /\ Put("Head", x, FieldBytes(x))
    BY <1>4, <2>1, <2>3 DEF WriteLen
  <2>5. x.kind \in Basic /\ x.kind # "body" /\ "Head" \in {"Head", "Body"}
    BY <2>2 DEF Basic
  <2> QED
    BY <2>2, <2>4, <2>5, BasicKeeps
<1>5. ASSUME NEW v \in Strings, Len(v) < MaxLen, WriteString(v) PROVE WireInv'
  <2>1. PICK x : x = Field("string", v)
    OBVIOUS
  <2>2. v \in Str
    BY <1>5, StringsAre DEF Str
  <2>3. x \in FieldType /\ x.kind = "string" /\ x.value = v
    BY <2>1, <2>2 DEF Field, FieldType
  <2>4. v # Null
    BY <2>2, NotNull DEF Str
  <2>5. FieldBytes(x) = StringBytes(v)
    BY <2>3, <2>4 DEF FieldBytes
  <2>6. NoBody /\ Put("Head", x, FieldBytes(x))
    BY <1>5, <2>1, <2>5 DEF WriteString
  <2>7. x.kind \in Basic /\ x.kind # "body" /\ "Head" \in {"Head", "Body"}
    BY <2>3 DEF Basic
  <2> QED
    BY <2>3, <2>6, <2>7, BasicKeeps
<1>6. ASSUME WriteStringNull PROVE WireInv'
  <2>1. PICK x : x = Field("string", Null)
    OBVIOUS
  <2>2. x \in FieldType /\ x.kind = "string" /\ x.value = Null
    BY <2>1 DEF Field, FieldType
  <2>3. FieldBytes(x) = NullBytes
    BY <2>2 DEF FieldBytes
  <2>4. NoBody /\ Put("Head", x, FieldBytes(x))
    BY <1>6, <2>1, <2>3 DEF WriteStringNull
  <2>5. x.kind \in Basic /\ x.kind # "body" /\ "Head" \in {"Head", "Body"}
    BY <2>2 DEF Basic
  <2> QED
    BY <2>2, <2>4, <2>5, BasicKeeps
<1>7. ASSUME NEW v \in Contents, Write(v) PROVE WireInv'
  <2>1. PICK x : x = Field("body", v)
    OBVIOUS
  <2>2. v \in Seq(Nat)
    BY ContentsAre
  <2>3. x \in FieldType /\ x.kind = "body" /\ x.value = v
    BY <2>1, <2>2 DEF Field, FieldType
  <2>4. FieldBytes(x) = v
    BY <2>3 DEF FieldBytes
  <2>5. NoBody /\ Put("Body", x, FieldBytes(x))
    BY <1>7, <2>1, <2>4 DEF Write
  <2>6. x.kind \in Basic /\ "Body" \in {"Head", "Body"}
    BY <2>3 DEF Basic
  <2> QED
    BY <2>3, <2>5, <2>6, BasicKeeps
<1>8. ASSUME NEW r \in Requests, WriteRequest(r) PROVE WireInv'
  BY <1>8, RequestsAre, RequestKeeps
<1>9. ASSUME NEW r \in Responses, WriteResponse(r) PROVE WireInv'
  BY <1>9, ResponsesAre, ResponseKeeps
<1>10. ASSUME NEW r \in Responses, WriteHeader(r.code, r.header) PROVE WireInv'
  <2>1. PICK s : s = [code |-> r.code, header |-> r.header,
                      contentLength |-> GivenLength(r.header, -1)]
    OBVIOUS
  <2>2. r.code \in 0..(MaxLen - 1) /\ r.header \in HeaderType
    BY ResponsesAre
  <2>3. GivenLength(r.header, -1) \in Int64
    BY <2>2, Int64Is, SomeLength
  <2>4. s \in ResponseType
    BY <2>1, <2>2, <2>3 DEF ResponseType
  <2>5. WriteResponse(s)
    BY <1>10, <2>1 DEF WriteHeader
  <2> QED
    BY <2>4, <2>5, ResponseKeeps
<1>11. ASSUME NEW flags \in FlowFlags, MakeFlow(flags) PROVE WireInv'
  BY <1>11, FlowKeeps
<1>12. ASSUME NEW x \in Int64, Ping(x) PROVE WireInv'
  BY <1>12, PingKeeps
<1>13. CASE Pong
  BY <1>13, PongKeeps
<1>14. CASE WriteTo
  BY <1>14, WriteToKeeps
<1>15. CASE ReadFrom
  BY <1>15, ReadFromKeeps
<1> QED
  BY <1>1, <1>2, <1>3, <1>4, <1>5, <1>6, <1>7, <1>8, <1>9, <1>10, <1>11, <1>12, <1>13, <1>14,
     <1>15 DEF Next

\* The invariant holds always.
LEMMA WireInductive == Spec => []WireInv
<1>1. Init => WireInv
  BY WireStart
<1>2. WireInv /\ [Next]_vars => WireInv'
  <2> SUFFICES ASSUME WireInv, [Next]_vars PROVE WireInv'
    OBVIOUS
  <2>1. CASE Next
    BY <2>1, WireStep
  <2>2. CASE UNCHANGED vars
    BY <2>2 DEF vars, WireInv, Filling, Arrived
  <2> QED
    BY <2>1, <2>2
<1> QED
  BY <1>1, <1>2, PTL DEF Spec

----------------------------------------------------------------------------
(* What follows from it.                                                   *)

\* The frame that was read last.
LEMMA ReceivedFrame ==
    ASSUME WireInv, NEW i \in Received
    PROVE  i \in 1..Len(got) /\ Carries(got[i], sent[i])
<1>1. i = Len(got) /\ i # 0
  BY DEF Received
<1>2. Len(got) \in Nat
  BY LenProperties DEF WireInv, Arrived
<1>3. i \in 1..Len(got)
  BY <1>1, <1>2
<1> QED
  BY <1>3 DEF WireInv, Arrived

\* Whatever is written into frames, and whatever a frame of the pool was used
\* for before, ReadFrom cuts the bytes of the network where WriteTo joined them.
THEOREM BoundariesKept == Spec => []FramesInSync
<1>1. WireInv => FramesInSync
  <2> SUFFICES ASSUME WireInv PROVE FramesInSync
    OBVIOUS
  <2>1. Len(got) <= Len(sent) /\ UnderWay(wire, Len(got), sent)
    BY DEF WireInv, Arrived
  <2>2. ASSUME NEW i \in Received
        PROVE  /\ ConnID(got[i]) = sent[i].id
               /\ FrameControl(got[i]) = sent[i].flags
               /\ Len(Payload(got[i])) = sent[i].size
    <3>1. Carries(got[i], sent[i])
      BY ReceivedFrame
    <3>2. Len(Payload(got[i])) = sent[i].size
      BY <3>1, Carried
    <3> QED
      BY <3>1, <3>2 DEF Carries
  <2>3. ASSUME Len(got) = Len(sent) PROVE wire = <<>>
    <3>1. PICK q : Joined(wire, q) /\ Len(q) = Len(sent) - Len(got)
      BY <2>1 DEF UnderWay
    <3>2. Len(sent) \in Nat
      BY LenProperties DEF WireInv, Arrived
    <3>3. Len(q) = 0 /\ q \in Seq(Seq(Nat))
      BY <2>3, <3>1, <3>2 DEF Joined
    <3>4. q = <<>>
      BY <3>3, EmptySeq
    <3> QED
      BY <3>1, <3>4, JoinedEmpty
  <2> QED
    BY <2>1, <2>2, <2>3 DEF FramesInSync
<1> QED
  BY <1>1, WireInductive, PTL

\* The kind that SubmitFrame finds a frame to be is the kind that its sender
\* made it.
THEOREM KindsStayApart == Spec => []KindsApart
<1>1. WireInv => KindsApart
  <2> SUFFICES ASSUME WireInv, NEW i \in Received
               PROVE  /\ HasPayload(got[i]) <=> (sent[i].fields # <<>>)
                      /\ IsAck(got[i]) <=> sent[i].flags = {"Flow"}
                      /\ IsFinal(got[i]) <=> {"Flow", "Body"} \subseteq sent[i].flags
                      /\ IsFinalAck(got[i]) <=> sent[i].flags = Flag
    BY DEF KindsApart
  <2>1. PICK f, m : f = got[i] /\ m = sent[i] /\ Carries(f, m)
    BY ReceivedFrame
  <2>2. HasPayload(f) <=> m.fields # <<>>
    BY <2>1, PayloadSays
  <2>3. /\ FrameHeaderSize + m.size \in Nat /\ FrameHeaderSize + m.size >= FrameHeaderSize
        /\ f \in Frames(FrameHeaderSize + m.size)
    BY <2>1, WholeSeq DEF Carries
  <2>4. /\ IsAck(f) <=> FrameControl(f) = {"Flow"}
        /\ IsFinalAck(f) <=> FrameControl(f) = Flag
        /\ IsFinal(f) <=> {"Flow", "Body"} \subseteq FrameControl(f)
    BY <2>3, KindsOfFrames
  <2>5. FrameControl(f) = m.flags
    BY <2>1 DEF Carries
  <2> QED
    BY <2>1, <2>2, <2>4, <2>5
<1> QED
  BY <1>1, WireInductive, PTL

\* Whatever bytes arrive, ReadUint64 returns the number they stand for, or
\* panics.
THEOREM NumbersNeverCut == Spec => []NoSilentWrap
<1>1. WireInv => NoSilentWrap
  <2> SUFFICES ASSUME WireInv, NEW i \in Received, ReadUint64(Payload(got[i])).ok
               PROVE  ReadUint64(Payload(got[i])).value
                      = Exact(Payload(got[i]), ReadUint64(Payload(got[i])).took)
    BY DEF NoSilentWrap
  <2>1. PICK b : b = Payload(got[i])
    OBVIOUS
  <2>2. b \in Seq(Nat)
    BY <2>1, ReceivedFrame, Carried
  <2> QED
    BY <2>1, <2>2, UintNeverWraps
<1> QED
  BY <1>1, WireInductive, PTL

----------------------------------------------------------------------------
(* Reading the fields.                                                     *)

\* A reader returned v and took t bytes.
Reads(r, v, t) == r.ok /\ r.value = v /\ r.took = t

\* Value is a reader's result.
LEMMA ReadsValue ==
    ASSUME NEW v, NEW t, NEW r, r = Value(v, t)
    PROVE  Reads(r, v, t)
BY DEF Value, Reads

\* What begins with u is u and the rest.
LEMMA PrefixJoin ==
    ASSUME NEW u \in Seq(Nat), NEW b \in Seq(Nat), Prefix(u, b)
    PROVE  Drop(b, Len(u)) \in Seq(Nat) /\ b = u \o Drop(b, Len(u))
<1>1. PICK k \in Nat, l \in Nat : k = Len(u) /\ l = Len(b) /\ k <= l
  BY LenProperties DEF Prefix
<1> DEFINE d == Drop(b, k)
<1>2. d \in Seq(Nat) /\ Len(d) = l - k /\ \A i \in 1..(l - k) : d[i] = b[k + i]
  BY <1>1, Dropped
<1> HIDE DEF d
<1>3. /\ u \o d \in Seq(Nat) /\ Len(u \o d) = Len(u) + Len(d)
      /\ \A i \in 1..Len(u) : (u \o d)[i] = u[i]
      /\ \A i \in 1..Len(d) : (u \o d)[Len(u) + i] = d[i]
  BY <1>2, Concat
<1>4. ASSUME NEW i \in 1..l PROVE b[i] = (u \o d)[i]
  <2>1. CASE i <= k
    <3>1. i \in 1..Len(u)
      BY <1>1, <2>1
    <3> QED
      BY <1>3, <3>1 DEF Prefix
  <2>2. CASE i > k
    <3>1. PICK j \in 1..(l - k) : i = k + j
      <4>1. i - k \in 1..(l - k) /\ i = k + (i - k)
        BY <1>1, <2>2
      <4> QED
        BY <4>1
    <3>2. (u \o d)[k + j] = d[j] /\ d[j] = b[k + j]
      BY <1>1, <1>2, <1>3
    <3> QED
      BY <3>1, <3>2
  <2>3. i <= k \/ i > k
    BY <1>1
  <2> QED
    BY <2>1, <2>2, <2>3
<1>5. Len(u \o d) = Len(b)
  BY <1>1, <1>2, <1>3
<1>6. \A i \in 1..Len(b) : b[i] = (u \o d)[i]
  BY <1>1, <1>4
<1>7. b = u \o d
  BY <1>3, <1>5, <1>6, SeqEqual
<1> QED
  BY <1>1, <1>2, <1>7 DEF d

\* ReadString, at the bytes of a string.
LEMMA StringReads ==
    ASSUME NEW s \in Str, NEW b \in Seq(Nat), Prefix(StringBytes(s), b)
    PROVE  Reads(ReadString(b), s, Len(StringBytes(s)))
<1>1. s \in Seq(Nat) /\ Len(s) < MaxLen
  BY DEF Str
<1>2. PICK u \in Seq(Nat) : u = StringBytes(s)
  BY <1>1, StringType
<1>3. PICK d \in Seq(Nat) : b = u \o d
  BY <1>2, PrefixJoin
<1>4. ReadString(b) = Value(s, Len(StringBytes(s)))
  BY <1>1, <1>2, <1>3, StringRoundTrip
<1> QED
  BY <1>4, ReadsValue

\* A length of one byte.
LEMMA SmallLen ==
    ASSUME NEW b \in Seq(Nat), Len(b) >= 1, b[1] < More
    PROVE  Reads(ReadLen(b), b[1], 1)
<1>1. b # <<>>
  BY EmptySeq
<1>2. ReadLen(b) = Value(b[1], 1)
  BY <1>1 DEF ReadLen
<1> QED
  BY <1>2, ReadsValue

\* ReadString, at NULL.
LEMMA NullReads ==
    ASSUME NEW b \in Seq(Nat), Prefix(NullBytes, b)
    PROVE  Reads(ReadString(b), Null, Len(NullBytes))
<1>1. Len(NullBytes) = 2 /\ NullBytes[1] = 0 /\ NullBytes[2] = 0
  BY DEF NullBytes
<1>2. Len(b) \in Nat /\ Len(b) >= 2 /\ b[1] = 0 /\ b[2] = 0
  BY <1>1, LenProperties DEF Prefix
<1>3. More \in Nat /\ More >= 2
  BY MoreType
<1>4. Reads(ReadLen(b), 0, 1)
  BY <1>2, <1>3, SmallLen
<1>5. PICK c \in Seq(Nat) : c = Drop(b, 1) /\ Len(c) >= 1 /\ c[1] = 0
  <2>1. /\ Drop(b, 1) \in Seq(Nat) /\ Len(Drop(b, 1)) = Len(b) - 1
        /\ \A i \in 1..(Len(b) - 1) : Drop(b, 1)[i] = b[1 + i]
    <3>1. 1 \in Nat /\ 1 <= Len(b)
      BY <1>2
    <3> QED
      BY <3>1, Dropped, Zenon
  <2>2. 1 \in 1..(Len(b) - 1) /\ 1 + 1 = 2 /\ Len(b) - 1 >= 1
    BY <1>2
  <2>3. Drop(b, 1)[1] = b[2]
    BY <2>1, <2>2
  <2> QED
    BY <1>2, <2>1, <2>2, <2>3
<1>6. Reads(ReadLen(Drop(b, 1)), 0, 1)
  BY <1>3, <1>5, SmallLen
<1>7. ReadLen(b).ok /\ ReadLen(b).value = 0 /\ ReadLen(b).took = 1
  BY <1>4 DEF Reads
<1>8. /\ ReadLen(Drop(b, 1)).ok /\ ReadLen(Drop(b, 1)).value = 0
      /\ ReadLen(Drop(b, 1)).took = 1
  BY <1>6 DEF Reads
<1>9. ReadString(b) = Value(Null, 1 + 1)
  BY <1>7, <1>8 DEF ReadString, Then
<1>10. 1 + 1 = 2
  OBVIOUS
<1> QED
  BY <1>1, <1>9, <1>10, ReadsValue

\* ReadInt64, at the bytes of a number.
LEMMA IntReads ==
    ASSUME NEW x \in Int64, NEW b \in Seq(Nat), Prefix(IntBytes(x), b)
    PROVE  Reads(ReadInt64(b), x, Len(IntBytes(x)))
<1>1. ZigZag(x) \in Uint
  BY ZigZagParts
<1>2. ReadUint64(b) = Value(ZigZag(x), Len(UintBytes[ZigZag(x)]))
  BY <1>1, UintRead DEF IntBytes
<1>3. PICK t \in Nat : t = Len(IntBytes(x))
  BY IntType, LenProperties
<1>4. ReadUint64(b) = Value(ZigZag(x), t)
  BY <1>2, <1>3 DEF IntBytes
<1>5. ReadInt64(b).ok /\ ReadInt64(b).value = x /\ ReadInt64(b).took = t
  BY <1>4, SignRead
<1> QED
  BY <1>3, <1>5 DEF Reads

\* ReadLen, at the bytes of a length.
LEMMA LenReads ==
    ASSUME NEW n \in 0..(MaxLen - 1), NEW b \in Seq(Nat), Prefix(LenBytes(n), b)
    PROVE  Reads(ReadLen(b), n, Len(LenBytes(n)))
<1>1. n \in Nat /\ n < MaxLen
  BY MaxLenBig
<1>2. PICK l \in Nat, k \in Nat : l = Len(LenBytes(n)) /\ k = Len(b)
  BY <1>1, LenType, LenProperties
<1>3. Len(b) >= Len(LenBytes(n)) /\ \A i \in 1..Len(LenBytes(n)) : b[i] = LenBytes(n)[i]
  <2>1. l <= k
    BY <1>2 DEF Prefix
  <2>2. k >= l
    BY <2>1
  <2> QED
    BY <1>2, <2>2 DEF Prefix
<1>4. ReadLen(b) = Value(n, Len(LenBytes(n)))
  BY <1>1, <1>3, LenRead
<1> QED
  BY <1>4, ReadsValue

\* Each kind of field.
LEMMA FieldReads ==
    ASSUME NEW f \in FieldType, f.kind \in Basic, NEW b \in Seq(Nat), Prefix(FieldBytes(f), b),
           f.kind = "body" => Len(b) = Len(FieldBytes(f))
    PROVE  Reads(ReadField(f.kind, b), f.value, Len(FieldBytes(f)))
<1>1. CASE f.kind = "uint" /\ f.value \in Uint /\ FieldBytes(f) = UintBytes[f.value]
  <2>1. ReadField(f.kind, b) = ReadUint64(b)
    BY <1>1 DEF ReadField
  <2>2. ReadUint64(b) = Value(f.value, Len(UintBytes[f.value]))
    BY <1>1, UintRead
  <2> QED
    BY <1>1, <2>1, <2>2, ReadsValue
<1>2. CASE f.kind = "int" /\ f.value \in Int64 /\ FieldBytes(f) = IntBytes(f.value)
  <2>1. ReadField(f.kind, b) = ReadInt64(b)
    BY <1>2 DEF ReadField
  <2> QED
    BY <1>2, <2>1, IntReads
<1>3. CASE f.kind = "len" /\ f.value \in 0..(MaxLen - 1) /\ FieldBytes(f) = LenBytes(f.value)
  <2>1. ReadField(f.kind, b) = ReadLen(b)
    BY <1>3 DEF ReadField
  <2> QED
    BY <1>3, <2>1, LenReads
<1>4. CASE f.kind = "string" /\ f.value = Null /\ FieldBytes(f) = NullBytes
  <2>1. ReadField(f.kind, b) = ReadString(b)
    BY <1>4 DEF ReadField
  <2> QED
    BY <1>4, <2>1, NullReads
<1>5. CASE f.kind = "string" /\ f.value \in Str /\ FieldBytes(f) = StringBytes(f.value)
  <2>1. ReadField(f.kind, b) = ReadString(b)
    BY <1>5 DEF ReadField
  <2> QED
    BY <1>5, <2>1, StringReads
<1>6. CASE f.kind = "body" /\ f.value \in Seq(Nat) /\ FieldBytes(f) = f.value
  <2>1. ReadField(f.kind, b) = Value(b, Len(b))
    BY <1>6 DEF ReadField
  <2>2. Len(b) = Len(f.value) /\ \A i \in 1..Len(b) : b[i] = f.value[i]
    BY <1>6 DEF Prefix
  <2>3. b = f.value
    BY <1>6, <2>2, SeqEqual
  <2> QED
    BY <1>6, <2>1, <2>3, ReadsValue
<1>7. f.kind # "request" /\ f.kind # "response"
  BY DEF Basic
<1> QED
  BY <1>1, <1>2, <1>3, <1>4, <1>5, <1>6, <1>7, FieldKinds

\* The part q[i] is where the layout says.
LEMMA PartAt ==
    ASSUME NEW b, NEW q, Joined(b, q), NEW pos, Layout(b, q, pos), NEW i \in 1..Len(q)
    PROVE  /\ pos[i - 1] \in Nat /\ pos[i - 1] <= Len(b)
           /\ Drop(b, pos[i - 1]) \in Seq(Nat) /\ Prefix(q[i], Drop(b, pos[i - 1]))
           /\ pos[i] = pos[i - 1] + Len(q[i])
           /\ i = Len(q) => Len(Drop(b, pos[i - 1])) = Len(q[i])
<1>1. b \in Seq(Nat) /\ q \in Seq(Seq(Nat)) /\ Len(q) \in Nat
  BY LenProperties DEF Joined
<1>2. PICK l \in Nat, k \in Nat : l = Len(b) /\ k = Len(q[i])
  BY <1>1, PartType, LenProperties
<1>3. i - 1 \in 0..Len(q)
  BY <1>1
<1>4. pos[i - 1] \in Nat
  BY <1>3 DEF Layout
<1>5. PICK p \in Nat : p = pos[i - 1]
  BY <1>4
<1>6. pos[i] = p + k /\ p + k <= l /\ \A j \in 1..k : b[p + j] = q[i][j]
  BY <1>2, <1>5 DEF Layout
<1> DEFINE d == Drop(b, p)
<1>7. d \in Seq(Nat) /\ Len(d) = l - p /\ \A j \in 1..(l - p) : d[j] = b[p + j]
  <2>1. p <= Len(b)
    BY <1>2, <1>6
  <2> QED
    BY <1>1, <1>2, <2>1, Dropped
<1> HIDE DEF d
<1>8. Prefix(q[i], d)
  <2>1. k <= l - p
    BY <1>6
  <2>2. \A j \in 1..k : j \in 1..(l - p)
    BY <2>1
  <2>3. \A j \in 1..k : d[j] = q[i][j]
    BY <1>6, <1>7, <2>2
  <2> QED
    BY <1>2, <1>7, <2>1, <2>3 DEF Prefix
<1>9. ASSUME i = Len(q) PROVE Len(d) = k
  <2>1. p + k = l
    BY <1>2, <1>6, <1>9 DEF Layout
  <2> QED
    BY <1>7, <2>1
<1>10. p <= l
  BY <1>6
<1> QED
  BY <1>2, <1>5, <1>6, <1>7, <1>8, <1>9, <1>10 DEF d

\* The fields are read one after the other, the field i up to pos[i].
InTurn(kinds, vals, pos, b, n) ==
    /\ pos \in [0..n -> Nat] /\ pos[0] = 0
    /\ \A i \in 1..n : \E t \in Nat :
          /\ Reads(ReadField(kinds[i], Drop(b, pos[i - 1])), vals[i], t)
          /\ pos[i] = pos[i - 1] + t

\* If every field is read in turn, ReadFields returns them all.
LEMMA FieldsRead ==
    ASSUME NEW n \in Nat, NEW kinds, Len(kinds) = n, NEW b,
           NEW V, NEW vals \in Seq(V), Len(vals) = n,
           NEW pos, InTurn(kinds, vals, pos, b, n)
    PROVE  ReadFields(kinds, b) = Value(vals, pos[n])
<1> DEFINE Up(p, i) ==
              IF i = 0 THEN Value(<<>>, 0)
              ELSE Then(p, LAMBDA done :
                        Then(ReadField(kinds[i], Drop(b, done.took)), LAMBDA f :
                             Value(Append(done.value, f.value), done.took + f.took)))
           E(u) == u = [i \in 0..n |-> Up(u[i - 1], i)]
           val(i) == Value(SubSeq(vals, 1, i), pos[i])
<1>1. \A p : Up(p, 0) = val(0)
  <2>1. SubSeq(vals, 1, 0) = <<>>
    BY SubSeqProperties
  <2>2. pos[0] = 0
    BY DEF InTurn
  <2> QED
    BY <2>1, <2>2
<1>2. ASSUME NEW i \in 1..n PROVE Up(val(i - 1), i) = val(i)
  <2>1. PICK t \in Nat : /\ Reads(ReadField(kinds[i], Drop(b, pos[i - 1])), vals[i], t)
                         /\ pos[i] = pos[i - 1] + t
    BY DEF InTurn
  <2>2. PICK r : r = ReadField(kinds[i], Drop(b, pos[i - 1]))
    OBVIOUS
  <2>3. r.ok /\ r.value = vals[i] /\ r.took = t
    BY <2>1, <2>2 DEF Reads
  <2>4. PICK p : p = val(i - 1)
    OBVIOUS
  <2>5. p.ok /\ p.value = SubSeq(vals, 1, i - 1) /\ p.took = pos[i - 1]
    BY <2>4 DEF Value
  <2>6. Up(p, i) = Value(Append(p.value, r.value), p.took + r.took)
    <3>1. i # 0
      OBVIOUS
    <3>2. ReadField(kinds[i], Drop(b, p.took)) = r
      BY <2>2, <2>5
    <3> QED
      BY <2>3, <2>5, <3>1, <3>2 DEF Then
  <2>7. SubSeq(vals, 1, i) = Append(SubSeq(vals, 1, i - 1), vals[i])
    <3>1. PICK k \in Nat : i = k + 1 /\ k < n
      <4>1. i - 1 \in Nat /\ i = (i - 1) + 1 /\ i - 1 < n
        OBVIOUS
      <4> QED
        BY <4>1
    <3>2. SubSeq(vals, 1, k + 1) = Append(SubSeq(vals, 1, k), vals[k + 1])
      BY <3>1
    <3>3. k = i - 1
      BY <3>1
    <3> QED
      BY <3>1, <3>2, <3>3
  <2> QED
    BY <2>1, <2>3, <2>4, <2>5, <2>6, <2>7, Zenon
<1> HIDE DEF Up, val
<1>3. \E u : E(u)
  <2> DEFINE u == [i \in 0..n |-> val(i)]
  <2>1. ASSUME NEW i \in 0..n PROVE u[i] = Up(u[i - 1], i)
    <3>1. CASE i = 0
      BY <1>1, <3>1
    <3>2. CASE i # 0
      <4>1. i \in 1..n /\ i - 1 \in 0..n
        BY <3>2
      <4> QED
        BY <1>2, <4>1
    <3> QED
      BY <3>1, <3>2
  <2>2. u = [i \in 0..n |-> u[i]]
    OBVIOUS
  <2> HIDE DEF u
  <2>3. E(u)
    BY <2>1, <2>2
  <2> QED
    BY <2>3
<1>4. ReadFields(kinds, b) = (CHOOSE u : E(u))[n]
  BY Zenon DEF ReadFields, Up
<1>5. PICK u : E(u) /\ ReadFields(kinds, b) = u[n]
  <2> HIDE DEF E
  <2> QED
    BY <1>3, <1>4, Zenon
<1>6. \A i \in 0..n : u[i] = Up(u[i - 1], i)
  BY <1>5
<1> HIDE DEF E
<1> DEFINE S == {i \in 0..n : u[i] = val(i)}
<1>7. 0 \in S
  BY <1>1, <1>6
<1>8. ASSUME NEW i \in 0..(n - 1), i \in S PROVE i + 1 \in S
  <2>1. i + 1 \in 1..n /\ i + 1 \in 0..n /\ (i + 1) - 1 = i
    OBVIOUS
  <2>2. u[i + 1] = Up(u[i], i + 1) /\ u[i] = val(i)
    BY <1>6, <1>8, <2>1
  <2>3. Up(val(i), i + 1) = val(i + 1)
    BY <1>2, <2>1
  <2> QED
    BY <2>1, <2>2, <2>3
<1> HIDE DEF S
<1>9. \A i \in 0..n : i \in S
  BY <1>7, <1>8, Induct
<1>10. u[n] = val(n)
  BY <1>9 DEF S
<1>11. SubSeq(vals, 1, n) = vals
  OBVIOUS
<1> QED
  BY <1>5, <1>10, <1>11 DEF val

\* All the fields are read, and nothing is left.
LEMMA AllRead ==
    ASSUME NEW fields \in Seq(FieldType), NEW b, NEW q, Joined(b, q), Parts(q, fields),
           \A j \in 1..Len(fields) : fields[j].kind \in Basic,
           \A j \in 1..Len(fields) : fields[j].kind = "body" => j = Len(fields)
    PROVE  ReadsAll(fields, b)
<1> DEFINE kinds == [j \in DOMAIN fields |-> fields[j].kind]
           vals == [j \in DOMAIN fields |-> fields[j].value]
           V == {fields[j].value : j \in DOMAIN fields}
<1>1. PICK n \in Nat : n = Len(fields) /\ DOMAIN fields = 1..n
  BY LenProperties
<1>2. PICK pos : Layout(b, q, pos)
  BY DEF Joined
<1>3. Len(kinds) = n /\ \A j \in 1..n : kinds[j] = fields[j].kind
  BY <1>1
<1>4. /\ vals \in Seq(V) /\ Len(vals) = n /\ \A j \in 1..n : vals[j] = fields[j].value
  <2>1. vals \in [1..n -> V] /\ \A j \in 1..n : vals[j] = fields[j].value
    BY <1>1
  <2> HIDE DEF vals, V
  <2> QED
    BY <2>1, MadeSeq
<1> HIDE DEF kinds, vals, V
<1>5. Len(q) = n /\ \A j \in 1..n : q[j] = FieldBytes(fields[j])
  BY <1>1 DEF Parts
<1>6. pos \in [0..n -> Nat] /\ pos[0] = 0 /\ pos[n] = Len(b)
  BY <1>2, <1>5 DEF Layout
<1>7. ASSUME NEW i \in 1..n
      PROVE  \E t \in Nat : /\ Reads(ReadField(kinds[i], Drop(b, pos[i - 1])), vals[i], t)
                            /\ pos[i] = pos[i - 1] + t
  <2>1. PICK f \in FieldType : f = fields[i]
    BY <1>1, ElementOfSeq
  <2>2. PICK c \in Seq(Nat) : /\ c = Drop(b, pos[i - 1]) /\ Prefix(FieldBytes(f), c)
                              /\ pos[i] = pos[i - 1] + Len(FieldBytes(f))
                              /\ i = n => Len(c) = Len(FieldBytes(f))
    <3>1. i \in 1..Len(q) /\ q[i] = FieldBytes(f)
      BY <1>5, <2>1
    <3>2. /\ Drop(b, pos[i - 1]) \in Seq(Nat) /\ Prefix(q[i], Drop(b, pos[i - 1]))
          /\ pos[i] = pos[i - 1] + Len(q[i])
          /\ i = Len(q) => Len(Drop(b, pos[i - 1])) = Len(q[i])
      BY <1>2, <3>1, PartAt
    <3> QED
      BY <1>5, <3>1, <3>2
  <2>3. f.kind \in Basic /\ (f.kind = "body" => i = n)
    BY <1>1, <2>1
  <2>4. f.kind = "body" => Len(c) = Len(FieldBytes(f))
    BY <2>2, <2>3
  <2>5. Reads(ReadField(f.kind, c), f.value, Len(FieldBytes(f)))
    BY <2>2, <2>3, <2>4, FieldReads
  <2>6. Len(FieldBytes(f)) \in Nat
    BY FieldBytesType, LenProperties
  <2>7. kinds[i] = f.kind /\ vals[i] = f.value
    BY <1>3, <1>4, <2>1
  <2> QED
    BY <2>2, <2>5, <2>6, <2>7
<1>8. ReadFields(kinds, b) = Value(vals, pos[n])
  <2>1. InTurn(kinds, vals, pos, b, n)
    BY <1>6, <1>7 DEF InTurn
  <2> QED
    BY <1>3, <1>4, <2>1, FieldsRead
<1>9. /\ ReadFields(kinds, b).ok /\ ReadFields(kinds, b).value = vals
      /\ ReadFields(kinds, b).took = Len(b)
  BY <1>6, <1>8 DEF Value
<1> QED
  BY <1>9, Zenon DEF ReadsAll, kinds, vals

\* The parser reads from a frame the fields that were written into it, and
\* takes every byte.
THEOREM FieldsAreRead == Spec => []FieldsRoundTrip
<1>1. WireInv => FieldsRoundTrip
  <2> SUFFICES ASSUME WireInv, NEW i \in Received,
                      \A j \in DOMAIN sent[i].fields : sent[i].fields[j].kind \in Basic
               PROVE  ReadsAll(sent[i].fields, Payload(got[i]))
    BY DEF FieldsRoundTrip
  <2>1. PICK f, m : f = got[i] /\ m = sent[i] /\ Carries(f, m)
    BY ReceivedFrame
  <2>2. PICK q : Joined(Payload(f), q) /\ Parts(q, m.fields)
    BY <2>1 DEF Carries
  <2>3. m.fields \in Seq(FieldType) /\ DOMAIN m.fields = 1..Len(m.fields)
    BY <2>1, Carried, LenProperties
  <2>4. \A j \in 1..Len(m.fields) : m.fields[j].kind \in Basic
    BY <2>1, <2>3
  <2>5. \A j \in 1..Len(m.fields) : m.fields[j].kind = "body" => j = Len(m.fields)
    BY <2>1 DEF Carries, Sound
  <2>6. ReadsAll(m.fields, Payload(f))
    BY <2>2, <2>3, <2>4, <2>5, AllRead
  <2> QED
    BY <2>1, <2>6
<1> QED
  BY <1>1, WireInductive, PTL

----------------------------------------------------------------------------
(* Lists: a recursion that goes on further to the right.                   *)

\* H[<<i, v>>] is the value at i if v is the value at nx[i].  There is a
\* function with these values if nx[i] is further to the right, or does not
\* matter.
Solves(g, H, nx, n) == \A i \in 0..n : g[i] = H[<<i, g[nx[i]]>>]

\* From the last position to the left, every value is settled by those to the
\* right of it: after k rounds of an iteration, the last k values are.
LEMMA Backward ==
    ASSUME NEW n \in Nat, NEW S, S # {}, NEW H \in [(0..n) \X S -> S],
           NEW nx \in [0..n -> 0..n],
           \A i \in 0..n : nx[i] > i \/ \A v, w \in S : H[<<i, v>>] = H[<<i, w>>]
    PROVE  \E g \in [0..n -> S] : Solves(g, H, nx, n)
<1> DEFINE FS == [0..n -> S]
           N == n + 1
           next(g) == [i \in 0..n |-> H[<<i, g[nx[i]]>>]]
           F == [p \in (1..N) \X FS |-> next(p[2])]
<1>1. \A g \in FS : next(g) \in FS
  OBVIOUS
<1> HIDE DEF next, FS
<1>2. F \in [(1..N) \X FS -> FS]
  BY <1>1
<1>3. \A k \in 1..N, g \in FS : F[<<k, g>>] = next(g)
  OBVIOUS
<1> HIDE DEF F
<1>4. PICK a \in FS : TRUE
  <2>1. PICK s \in S : TRUE
    OBVIOUS
  <2>2. [i \in 0..n |-> s] \in FS
    BY DEF FS
  <2> QED
    BY <2>2
<1>5. N \in Nat
  OBVIOUS
<1> HIDE DEF N
<1>6. PICK G \in [0..N -> FS] : Iteration(G, a, N, F)
  BY <1>2, <1>5, Iterates, Zenon
<1>7. ASSUME NEW k \in 0..(N - 1) PROVE G[k] \in FS /\ G[k + 1] \in FS /\ G[k + 1] = next(G[k])
  <2>1. k + 1 \in 1..N /\ (k + 1) - 1 = k /\ k \in 0..N /\ k + 1 \in 0..N
    BY <1>5
  <2>2. G[k] \in FS /\ G[k + 1] \in FS
    BY <2>1
  <2>3. G[k + 1] = F[<<k + 1, G[k]>>]
    BY <1>6, <2>1 DEF Iteration
  <2> QED
    BY <1>3, <2>1, <2>2, <2>3
<1>8. \A g \in FS : \A i \in 0..n : next(g)[i] = H[<<i, g[nx[i]]>>]
  BY DEF next
<1> DEFINE T == {k \in 0..N : \A i \in 0..n : i + k > n => H[<<i, G[k][nx[i]]>>] = G[k][i]}
<1>9. 0 \in T
  BY <1>5
<1>10. ASSUME NEW k \in 0..(N - 1), k \in T PROVE k + 1 \in T
  <2>1. G[k] \in FS /\ G[k + 1] \in FS /\ G[k + 1] = next(G[k])
    BY <1>7
  <2>2. PICK g \in FS, h \in FS : g = G[k] /\ h = G[k + 1] /\ h = next(g)
    BY <2>1
  <2>3. \A i \in 0..n : h[i] = H[<<i, g[nx[i]]>>]
    BY <1>8, <2>2, SMTT(40)
  <2>4. \A i \in 0..n : i + k > n => H[<<i, g[nx[i]]>>] = g[i]
    BY <1>10, <2>2
  <2>5. ASSUME NEW i \in 0..n, i + (k + 1) > n PROVE H[<<i, h[nx[i]]>>] = h[i]
    <3>1. PICK j \in 0..n : j = nx[i]
      OBVIOUS
    <3>2. g[j] \in S /\ h[j] \in S
      BY DEF FS
    <3>3. CASE j > i
      <4>1. j + k > n
        BY <1>5, <2>5, <3>3
      <4>2. h[j] = g[j]
        BY <2>3, <2>4, <4>1
      <4> QED
        BY <2>3, <3>1, <4>2
    <3>4. CASE \A v, w \in S : H[<<i, v>>] = H[<<i, w>>]
      BY <2>3, <3>1, <3>2, <3>4
    <3> QED
      BY <3>1, <3>3, <3>4
  <2>6. k + 1 \in 0..N
    BY <1>5
  <2> QED
    BY <2>2, <2>5, <2>6
<1> HIDE DEF T
<1>11. \A k \in 0..N : k \in T
  BY <1>5, <1>9, <1>10, Induct
<1>12. N \in T /\ G[N] \in FS
  <2>1. N \in 0..N
    BY <1>5
  <2> QED
    BY <1>11, <2>1
<1>13. ASSUME NEW i \in 0..n PROVE G[N][i] = H[<<i, G[N][nx[i]]>>]
  <2>1. i + N > n
    BY DEF N
  <2> QED
    BY <1>12, <2>1 DEF T
<1> QED
  BY <1>12, <1>13 DEF FS, Solves

\* Two functions that are the same at i whenever they are the same to the
\* right of it are the same.
Agree(f, g, n) ==
    \A i \in 0..n : (\A j \in (i + 1)..n : f[j] = g[j]) => f[i] = g[i]

\* By induction from the last position on.
LEMMA SameBackward ==
    ASSUME NEW n \in Nat, NEW f, NEW g, Agree(f, g, n)
    PROVE  \A i \in 0..n : f[i] = g[i]
<1> DEFINE T == {k \in Nat : k <= n => f[n - k] = g[n - k]}
<1>1. ASSUME NEW k \in Nat, \A m \in 0..(k - 1) : m \in T PROVE k \in T
  <2> SUFFICES ASSUME k <= n PROVE f[n - k] = g[n - k]
    OBVIOUS
  <2>1. PICK i \in 0..n : i = n - k
    OBVIOUS
  <2>2. ASSUME NEW j \in (i + 1)..n PROVE f[j] = g[j]
    <3>1. n - j \in 0..(k - 1) /\ n - j \in Nat /\ n - j <= n /\ n - (n - j) = j
      BY <2>1
    <3>2. n - j \in T
      BY <1>1, <3>1
    <3> QED
      BY <3>1, <3>2
  <2>3. f[i] = g[i]
    BY <2>2 DEF Agree
  <2> QED
    BY <2>1, <2>3
<1> HIDE DEF T
<1>2. \A k \in Nat : k \in T
  BY <1>1, StrongInduct
<1>3. ASSUME NEW i \in 0..n PROVE f[i] = g[i]
  <2>1. n - i \in Nat /\ n - i <= n /\ n - (n - i) = i
    OBVIOUS
  <2>2. n - i \in T
    BY <1>2, <2>1
  <2> QED
    BY <2>1, <2>2 DEF T
<1> QED
  BY <1>3

\* What ReadLen takes is there.
LEMMA LenBounds ==
    ASSUME NEW b \in Seq(Nat), ReadLen(b).ok
    PROVE  ReadLen(b).value \in Nat /\ ReadLen(b).took \in 1..Len(b)
<1>1. PICK l \in Nat : l = Len(b)
  BY LenProperties
<1>2. ~Panic.ok
  BY DEF Panic
<1>3. b # <<>> /\ l >= 1
  <2>1. b # <<>>
    BY <1>2 DEF ReadLen
  <2> QED
    BY <1>1, <2>1, EmptySeq
<1>4. b[1] \in Nat
  BY <1>1, <1>3
<1>5. CASE b[1] < More
  <2>1. ReadLen(b) = Value(b[1], 1)
    BY <1>3, <1>5 DEF ReadLen
  <2>2. ReadLen(b).value = b[1] /\ ReadLen(b).took = 1
    BY <2>1 DEF Value
  <2> QED
    BY <1>1, <1>3, <1>4, <2>2
<1>6. CASE ~(b[1] < More)
  <2>1. Len(b) # 1
    BY <1>2, <1>3, <1>6 DEF ReadLen
  <2>2. ReadLen(b) = Value((b[1] % More) * 2 * More + b[2], 2)
    BY <1>3, <1>6, <2>1 DEF ReadLen
  <2>3. ReadLen(b).value = (b[1] % More) * 2 * More + b[2] /\ ReadLen(b).took = 2
    BY <2>2 DEF Value
  <2>4. l >= 2 /\ b[2] \in Nat
    BY <1>1, <1>3, <2>1
  <2>5. PICK m \in Nat, x \in Nat, y \in Nat : m = More /\ m >= 2 /\ x = b[1] /\ y = b[2]
    BY <1>4, <2>4, MoreType
  <2>6. x % m \in Nat
    BY <2>5
  <2>7. PICK z \in Nat : z = x % m
    BY <2>6
  <2>8. z * 2 * m + y \in Nat
    OBVIOUS
  <2> QED
    BY <1>1, <2>3, <2>4, <2>5, <2>7, <2>8
<1> QED
  BY <1>5, <1>6

\* What ReadString takes is there, and is a string of bytes or NULL.
LEMMA StringBounds ==
    ASSUME NEW b \in Seq(Nat), ReadString(b).ok
    PROVE  ReadString(b).took \in 1..Len(b) /\ ReadString(b).value \in Seq(Nat) \cup {Null}
<1>1. PICK l \in Nat : l = Len(b)
  BY LenProperties
<1>2. ~Panic.ok
  BY DEF Panic
<1>3. PICK n : n = ReadLen(b)
  OBVIOUS
<1>4. n.ok
  BY <1>2, <1>3 DEF ReadString, Then
<1>5. n.value \in Nat /\ n.took \in 1..l
  BY <1>1, <1>3, <1>4, LenBounds
<1>6. PICK v \in Nat, t \in 1..l : v = n.value /\ t = n.took
  BY <1>5
<1>7. CASE v > 0
  <2>1. ReadString(b) = IF t + v > Len(b) THEN Panic
                        ELSE Value(SubSeq(b, t + 1, t + v), t + v)
    BY <1>3, <1>4, <1>6, <1>7 DEF ReadString, Then
  <2>2. ~(t + v > Len(b))
    BY <1>2, <2>1
  <2>3. ReadString(b).value = SubSeq(b, t + 1, t + v) /\ ReadString(b).took = t + v
    BY <2>1, <2>2 DEF Value
  <2>4. PICK j \in Nat, k \in Nat : j = t + 1 /\ k = t + v /\ 1 <= j /\ j <= k /\ k <= Len(b)
    BY <1>1, <1>6, <1>7, <2>2
  <2>5. SubSeq(b, j, k) \in Seq(Nat)
    BY <2>4, Slice
  <2>6. ReadString(b).value = SubSeq(b, j, k) /\ ReadString(b).took = k
    BY <2>3, <2>4
  <2>7. k \in 1..Len(b)
    BY <1>1, <2>4
  <2> QED
    BY <2>5, <2>6, <2>7
<1>8. CASE ~(v > 0)
  <2>1. PICK code : code = ReadLen(Drop(b, t))
    OBVIOUS
  <2>2. ReadString(b) = Then(code, LAMBDA c :
                            IF c.value > 1 THEN Panic
                            ELSE Value(IF c.value = 0 THEN Null ELSE <<>>, t + c.took))
    BY <1>3, <1>4, <1>6, <1>8, <2>1 DEF ReadString, Then
  <2>3. code.ok
    BY <1>2, <2>2 DEF Then
  <2>4. Drop(b, t) \in Seq(Nat) /\ Len(Drop(b, t)) = l - t
    <3>1. t \in Nat /\ t <= Len(b)
      BY <1>1
    <3> QED
      BY <1>1, <3>1, Dropped
  <2>5. PICK s \in 1..(l - t) : s = code.took
    BY <2>1, <2>3, <2>4, LenBounds
  <2>6. ReadString(b) = IF code.value > 1 THEN Panic
                        ELSE Value(IF code.value = 0 THEN Null ELSE <<>>, t + s)
    BY <2>2, <2>3, <2>5 DEF Then
  <2>7. ReadString(b) = Value(IF code.value = 0 THEN Null ELSE <<>>, t + s)
    BY <1>2, <2>6
  <2>8. ReadString(b).value = (IF code.value = 0 THEN Null ELSE <<>>) /\ ReadString(b).took = t + s
    BY <2>7 DEF Value
  <2>9. <<>> \in Seq(Nat)
    OBVIOUS
  <2>10. t + s \in 1..l
    OBVIOUS
  <2> QED
    BY <1>1, <2>8, <2>9, <2>10
<1> QED
  BY <1>7, <1>8

\* One step of ReadStrings, at i: v is what is read from the next string on.
StringsAt(b, i, v) ==
    Then(ReadString(Drop(b, i)), LAMBDA s :
         IF s.value = Null THEN Value(<<>>, i + s.took)
         ELSE Then(v, LAMBDA rest : Value(<<s.value>> \o rest.value, rest.took)))

NextString(b, i) == i + ReadString(Drop(b, i)).took

\* Is there a string at i that is not the last?
Goes(b, i) == ReadString(Drop(b, i)).ok /\ ReadString(Drop(b, i)).value # Null

\* What a reader of lists of X may return.
Lists(X, n) == {Panic} \cup {Value(v, t) : v \in Seq(X), t \in 0..n}

\* The string at i ends in b.
LEMMA StringIn ==
    ASSUME NEW b \in Seq(Nat), NEW i \in 0..Len(b), ReadString(Drop(b, i)).ok
    PROVE  /\ NextString(b, i) \in (i + 1)..Len(b)
           /\ ReadString(Drop(b, i)).value \in Seq(Nat) \cup {Null}
<1>1. PICK l \in Nat : l = Len(b)
  BY LenProperties
<1>2. i \in Nat /\ i <= Len(b)
  BY <1>1
<1>3. Drop(b, i) \in Seq(Nat) /\ Len(Drop(b, i)) = l - i
  BY <1>1, <1>2, Dropped
<1>4. PICK t \in 1..(l - i) : t = ReadString(Drop(b, i)).took
  BY <1>3, StringBounds
<1>5. ReadString(Drop(b, i)).value \in Seq(Nat) \cup {Null}
  BY <1>3, StringBounds
<1>6. i + t \in (i + 1)..l
  BY <1>2
<1> QED
  BY <1>1, <1>4, <1>5, <1>6 DEF NextString

\* Such a reader panics, or returns a list.
LEMMA ListOr ==
    ASSUME NEW X, NEW n, NEW v \in Lists(X, n)
    PROVE  v = Panic \/ (v.ok /\ v.value \in Seq(X) /\ v.took \in 0..n)
BY DEF Lists, Value

\* A list is such a result.
LEMMA InLists ==
    ASSUME NEW X, NEW n, NEW v \in Seq(X), NEW t \in 0..n
    PROVE  Value(v, t) \in Lists(X, n)
BY DEF Lists

\* A step returns a list, and goes on further to the right or stops.
LEMMA StringsStep ==
    ASSUME NEW b \in Seq(Nat), NEW n \in Nat, n = Len(b), NEW i \in 0..n
    PROVE  /\ \A v \in Lists(Seq(Nat), n) : StringsAt(b, i, v) \in Lists(Seq(Nat), n)
           /\ ~Goes(b, i) => \A v, w : StringsAt(b, i, v) = StringsAt(b, i, w)
           /\ Goes(b, i) => NextString(b, i) \in (i + 1)..n
<1>1. PICK s : s = ReadString(Drop(b, i))
  OBVIOUS
<1>2. Panic \in Lists(Seq(Nat), n)
  BY DEF Lists
<1>3. ASSUME NEW v \in Lists(Seq(Nat), n) PROVE StringsAt(b, i, v) \in Lists(Seq(Nat), n)
  <2>1. CASE ~s.ok
    BY <1>1, <1>2, <2>1 DEF StringsAt, Then
  <2>2. CASE s.ok /\ s.value = Null
    <3>1. StringsAt(b, i, v) = Value(<<>>, i + s.took)
      BY <1>1, <2>2 DEF StringsAt, Then
    <3>2. i + s.took \in 0..n
      <4>1. NextString(b, i) \in (i + 1)..n
        BY <1>1, <2>2, StringIn
      <4>2. NextString(b, i) = i + s.took
        BY <1>1 DEF NextString
      <4> QED
        BY <4>1, <4>2
    <3>3. <<>> \in Seq(Seq(Nat))
      OBVIOUS
    <3> QED
      BY <3>1, <3>2, <3>3, InLists
  <2>3. CASE s.ok /\ s.value # Null
    <3>1. StringsAt(b, i, v) = Then(v, LAMBDA rest : Value(<<s.value>> \o rest.value, rest.took))
      BY <1>1, <2>3 DEF StringsAt, Then
    <3>2. CASE v = Panic
      <4>1. StringsAt(b, i, v) = Panic
        BY <3>1, <3>2 DEF Then, Panic
      <4> QED
        BY <1>2, <4>1
    <3>3. CASE v.ok /\ v.value \in Seq(Seq(Nat)) /\ v.took \in 0..n
      <4>1. StringsAt(b, i, v) = Value(<<s.value>> \o v.value, v.took)
        BY <3>1, <3>3 DEF Then
      <4>2. s.value \in Seq(Nat)
        BY <1>1, <2>3, StringIn
      <4>3. <<s.value>> \in Seq(Seq(Nat))
        BY <4>2
      <4>4. <<s.value>> \o v.value \in Seq(Seq(Nat))
        BY <3>3, <4>3, ConcatProperties
      <4> QED
        BY <3>3, <4>1, <4>4, InLists
    <3> QED
      BY <3>2, <3>3, ListOr
  <2> QED
    BY <2>1, <2>2, <2>3
<1>4. ASSUME ~Goes(b, i), NEW v, NEW w PROVE StringsAt(b, i, v) = StringsAt(b, i, w)
  BY <1>4 DEF Goes, StringsAt, Then
<1>5. ASSUME Goes(b, i) PROVE NextString(b, i) \in (i + 1)..n
  BY <1>5, StringIn DEF Goes
<1> QED
  BY <1>3, <1>4, <1>5

\* What ReadStrings does, as an equation that holds from every position.
LEMMA StringsSolved ==
    ASSUME NEW b \in Seq(Nat), NEW n \in Nat, n = Len(b)
    PROVE  \E f \in [0..n -> Lists(Seq(Nat), n)] :
              /\ ReadStrings(b) = f[0]
              /\ \A i \in 0..n : f[i] = StringsAt(b, i, f[NextString(b, i)])
<1> DEFINE S == Lists(Seq(Nat), n)
           E(f) == f = [i \in 0..n |-> StringsAt(b, i, f[NextString(b, i)])]
           nx == [i \in 0..n |-> IF Goes(b, i) THEN NextString(b, i) ELSE i]
           H == [p \in (0..n) \X S |-> StringsAt(b, p[1], p[2])]
<1>1. ReadStrings(b) = (CHOOSE f : E(f))[0]
  BY Zenon DEF ReadStrings, StringsAt, NextString, Then
<1>2. /\ \A i \in 0..n, v \in S : StringsAt(b, i, v) \in S
      /\ \A i \in 0..n : ~Goes(b, i) => \A v, w : StringsAt(b, i, v) = StringsAt(b, i, w)
      /\ \A i \in 0..n : Goes(b, i) => NextString(b, i) \in (i + 1)..n
  BY StringsStep
<1>3. S # {}
  BY DEF Lists
<1> HIDE DEF S
<1>4. H \in [(0..n) \X S -> S] /\ \A i \in 0..n, v \in S : H[<<i, v>>] = StringsAt(b, i, v)
  BY <1>2
<1>5. nx \in [0..n -> 0..n]
  BY <1>2
<1>6. \A i \in 0..n : /\ Goes(b, i) => nx[i] = NextString(b, i) /\ nx[i] > i
                      /\ ~Goes(b, i) => nx[i] = i
  BY <1>2
<1> HIDE DEF H, nx
<1>7. \A i \in 0..n : nx[i] > i \/ \A v, w \in S : H[<<i, v>>] = H[<<i, w>>]
  BY <1>2, <1>4, <1>6
<1>8. PICK g \in [0..n -> S] : Solves(g, H, nx, n)
  BY <1>3, <1>4, <1>5, <1>7, Backward
<1>9. ASSUME NEW i \in 0..n PROVE g[i] = StringsAt(b, i, g[NextString(b, i)])
  <2>1. g[i] = H[<<i, g[nx[i]]>>]
    BY <1>8 DEF Solves
  <2>2. nx[i] \in 0..n /\ g[nx[i]] \in S
    BY <1>5
  <2>3. g[i] = StringsAt(b, i, g[nx[i]])
    BY <1>4, <2>1, <2>2
  <2> QED
    BY <1>2, <1>6, <2>3
<1>10. E(g)
  <2>1. g = [i \in 0..n |-> g[i]]
    OBVIOUS
  <2> QED
    BY <1>9, <2>1
<1>11. PICK u : E(u) /\ ReadStrings(b) = u[0]
  <2> HIDE DEF E
  <2> QED
    BY <1>1, <1>10, Zenon
<1>12. \A i \in 0..n : u[i] = StringsAt(b, i, u[NextString(b, i)])
  BY <1>11
<1> HIDE DEF E
<1>13. ASSUME NEW i \in 0..n, \A j \in (i + 1)..n : u[j] = g[j] PROVE u[i] = g[i]
  <2>1. CASE Goes(b, i)
    BY <1>2, <1>9, <1>12, <1>13, <2>1
  <2>2. CASE ~Goes(b, i)
    BY <1>2, <1>9, <1>12, <2>2
  <2> QED
    BY <2>1, <2>2
<1>14. u[0] = g[0]
  <2>1. Agree(u, g, n)
    BY <1>13 DEF Agree
  <2>2. \A i \in 0..n : u[i] = g[i]
    BY <2>1, SameBackward
  <2> QED
    BY <2>2
<1> QED
  BY <1>9, <1>11, <1>14 DEF S

\* A list of strings that was read ends in b.
LEMMA StringsBounds ==
    ASSUME NEW b \in Seq(Nat), ReadStrings(b).ok
    PROVE  ReadStrings(b).took \in 0..Len(b) /\ ReadStrings(b).value \in Seq(Seq(Nat))
<1>1. PICK n \in Nat : n = Len(b)
  BY LenProperties
<1>2. ReadStrings(b) \in Lists(Seq(Nat), n)
  <2>1. PICK f \in [0..n -> Lists(Seq(Nat), n)] : ReadStrings(b) = f[0]
    BY <1>1, StringsSolved
  <2> QED
    BY <2>1
<1>3. ~Panic.ok
  BY DEF Panic
<1> QED
  BY <1>1, <1>2, <1>3, ListOr

\* A list that is read from its end: f[pos[i]] is what is read from the item
\* i + 1 on.
InList(f, pos, vals, V, T) ==
    /\ f[pos[Len(vals)]] = Value(<<>>, T)
    /\ \A i \in 1..Len(vals) : \A rest \in Seq(V) :
          f[pos[i]] = Value(rest, T) => f[pos[i - 1]] = Value(<<vals[i]>> \o rest, T)

\* By induction from the last item on.
LEMMA ListRead ==
    ASSUME NEW V, NEW vals \in Seq(V), NEW pos, NEW f, NEW T, InList(f, pos, vals, V, T)
    PROVE  f[pos[0]] = Value(vals, T)
<1>0. PICK n \in Nat : n = Len(vals)
  BY LenProperties
<1> DEFINE rest(i) == SubSeq(vals, i + 1, n)
           S == {k \in 0..n : f[pos[n - k]] = Value(rest(n - k), T)}
<1>1. rest(n) = <<>>
  BY <1>0, SubSeqProperties
<1>2. ASSUME NEW i \in 1..n PROVE rest(i) \in Seq(V) /\ rest(i - 1) = <<vals[i]>> \o rest(i)
  <2>1. rest(i) \in Seq(V) /\ Len(rest(i)) = n - i /\ \A j \in 1..(n - i) : rest(i)[j] = vals[i + j]
    BY <1>0, SubSeqProperties
  <2>2. /\ rest(i - 1) \in Seq(V) /\ Len(rest(i - 1)) = n - i + 1
        /\ \A j \in 1..(n - i + 1) : rest(i - 1)[j] = vals[i - 1 + j]
    BY <1>0, SubSeqProperties
  <2> HIDE DEF rest
  <2>3. vals[i] \in V
    BY <1>0
  <2> DEFINE c == <<vals[i]>> \o rest(i)
  <2>4. c \in Seq(V) /\ Len(c) = n - i + 1 /\ c[1] = vals[i] /\ \A j \in 1..(n - i) : c[1 + j] = vals[i + j]
    <3>1. PICK r \in Seq(V), k \in Nat : r = rest(i) /\ k = n - i /\ Len(r) = k
      BY <2>1
    <3>2. PICK x \in V : x = vals[i]
      BY <2>3
    <3>3. /\ <<x>> \o r \in Seq(V) /\ Len(<<x>> \o r) = k + 1 /\ (<<x>> \o r)[1] = x
          /\ \A j \in 1..k : (<<x>> \o r)[1 + j] = r[j]
      BY <3>1
    <3> QED
      BY <2>1, <3>1, <3>2, <3>3
  <2> HIDE DEF c
  <2>5. ASSUME NEW j \in 1..(n - i + 1) PROVE rest(i - 1)[j] = c[j]
    <3>1. CASE j = 1
      <4>1. i - 1 + 1 = i /\ 1 \in 1..(n - i + 1)
        OBVIOUS
      <4> QED
        BY <2>2, <2>4, <3>1, <4>1
    <3>2. CASE j # 1
      <4>1. PICK k \in 1..(n - i) : j = 1 + k
        <5>1. j - 1 \in 1..(n - i) /\ j = 1 + (j - 1)
          BY <3>2
        <5> QED
          BY <5>1
      <4>2. i - 1 + j = i + k
        BY <4>1
      <4> QED
        BY <2>2, <2>4, <4>1, <4>2
    <3> QED
      BY <3>1, <3>2
  <2>6. rest(i - 1) = c
    BY <2>2, <2>4, <2>5, SeqEqual
  <2> QED
    BY <2>1, <2>6 DEF c
<1> HIDE DEF rest
<1>3. 0 \in S
  <2>1. n - 0 = n /\ 0 \in 0..n
    OBVIOUS
  <2> QED
    BY <1>0, <1>1, <2>1 DEF InList
<1>4. ASSUME NEW k \in 0..(n - 1), k \in S PROVE k + 1 \in S
  <2>1. PICK i \in 1..n : i = n - k /\ i - 1 = n - (k + 1)
    OBVIOUS
  <2>2. f[pos[i]] = Value(rest(i), T)
    BY <1>4, <2>1
  <2>3. f[pos[i - 1]] = Value(<<vals[i]>> \o rest(i), T)
    BY <1>0, <1>2, <2>2 DEF InList
  <2>4. f[pos[i - 1]] = Value(rest(i - 1), T)
    BY <1>2, <2>3
  <2>5. k + 1 \in 0..n
    OBVIOUS
  <2> QED
    BY <2>1, <2>4, <2>5
<1> HIDE DEF S
<1>5. \A k \in 0..n : k \in S
  BY <1>3, <1>4, Induct
<1>6. f[pos[0]] = Value(rest(0), T)
  <2>1. n \in 0..n /\ n - n = 0
    OBVIOUS
  <2> QED
    BY <1>5, <2>1 DEF S
<1>7. rest(0) = vals
  BY <1>0 DEF rest
<1> QED
  BY <1>6, <1>7

\* The part q[i] of what b begins with.
LEMMA PrefixPart ==
    ASSUME NEW u, NEW q, Joined(u, q), NEW pos, Layout(u, q, pos), NEW i \in 1..Len(q),
           NEW b \in Seq(Nat), Prefix(u, b)
    PROVE  /\ pos[i - 1] \in 0..Len(b) /\ pos[i] = pos[i - 1] + Len(q[i])
           /\ Drop(b, pos[i - 1]) \in Seq(Nat) /\ Prefix(q[i], Drop(b, pos[i - 1]))
<1>1. u \in Seq(Nat) /\ q \in Seq(Seq(Nat)) /\ Len(q) \in Nat
  BY LenProperties DEF Joined
<1>2. PICK l \in Nat, k \in Nat, m \in Nat : l = Len(b) /\ k = Len(q[i]) /\ m = Len(u) /\ m <= l
  BY <1>1, PartType, LenProperties DEF Prefix
<1>3. i - 1 \in 0..Len(q)
  BY <1>1
<1>4. pos[i - 1] \in Nat
  BY <1>3 DEF Layout
<1>5. PICK p \in Nat : p = pos[i - 1]
  BY <1>4
<1>6. pos[i] = p + k /\ p + k <= m /\ \A j \in 1..k : u[p + j] = q[i][j]
  BY <1>2, <1>5 DEF Layout
<1> DEFINE d == Drop(b, p)
<1>7. d \in Seq(Nat) /\ Len(d) = l - p /\ \A j \in 1..(l - p) : d[j] = b[p + j]
  <2>1. p <= Len(b)
    BY <1>2, <1>6
  <2> QED
    BY <1>1, <1>2, <2>1, Dropped
<1> HIDE DEF d
<1>8. Prefix(q[i], d)
  <2>1. k <= l - p
    BY <1>2, <1>6
  <2>2. \A j \in 1..k : j \in 1..(l - p) /\ p + j \in 1..m
    BY <1>6, <2>1
  <2>3. \A j \in 1..m : b[j] = u[j]
    BY <1>2 DEF Prefix
  <2>4. \A j \in 1..k : d[j] = q[i][j]
    BY <1>6, <1>7, <2>2, <2>3
  <2> QED
    BY <1>2, <1>7, <2>1, <2>4 DEF Prefix
<1>9. p \in 0..l
  BY <1>2, <1>6
<1> QED
  BY <1>2, <1>5, <1>6, <1>7, <1>8, <1>9 DEF d

\* Where the parts bs of a list are in b, and the NULL after them.
Listed(b, bs, pos, T) ==
    /\ pos[0] = 0
    /\ \A i \in 1..Len(bs) :
          /\ pos[i - 1] \in 0..Len(b) /\ pos[i] = pos[i - 1] + Len(bs[i])
          /\ Drop(b, pos[i - 1]) \in Seq(Nat) /\ Prefix(bs[i], Drop(b, pos[i - 1]))
    /\ pos[Len(bs)] \in 0..Len(b) /\ pos[Len(bs)] + 2 = T
    /\ Drop(b, pos[Len(bs)]) \in Seq(Nat) /\ Prefix(NullBytes, Drop(b, pos[Len(bs)]))

\* A list that b begins with is laid out in b.
LEMMA ListLayout ==
    ASSUME NEW bs \in Seq(Seq(Nat)), NEW b \in Seq(Nat), Prefix(FlattenSeq(bs) \o NullBytes, b)
    PROVE  \E pos : Listed(b, bs, pos, Len(FlattenSeq(bs) \o NullBytes))
<1> DEFINE U == FlattenSeq(bs) \o NullBytes
           Q == Append(bs, NullBytes)
<1>1. PICK n \in Nat : n = Len(bs)
  BY LenProperties
<1>2. NullBytes \in Seq(Nat) /\ Len(NullBytes) = 2
  BY NullType
<1>3. Joined(U, Q)
  BY <1>2, Flattened, JoinedAppend
<1>4. Len(Q) = n + 1 /\ (\A i \in 1..n : Q[i] = bs[i]) /\ Q[n + 1] = NullBytes
  BY <1>1, <1>2, AppendProperties
<1> HIDE DEF Q
<1>5. PICK pos : Layout(U, Q, pos)
  BY <1>3 DEF Joined
<1>6. Prefix(U, b)
  OBVIOUS
<1> HIDE DEF U
<1>7. ASSUME NEW i \in 1..n
      PROVE  /\ pos[i - 1] \in 0..Len(b) /\ pos[i] = pos[i - 1] + Len(bs[i])
             /\ Drop(b, pos[i - 1]) \in Seq(Nat) /\ Prefix(bs[i], Drop(b, pos[i - 1]))
  <2>1. i \in 1..Len(Q) /\ Q[i] = bs[i]
    BY <1>4
  <2> QED
    BY <1>3, <1>5, <1>6, <2>1, PrefixPart
<1>8. /\ pos[n] \in 0..Len(b) /\ pos[n] + 2 = Len(U)
      /\ Drop(b, pos[n]) \in Seq(Nat) /\ Prefix(NullBytes, Drop(b, pos[n]))
  <2>1. PICK k \in 1..Len(Q) : k = n + 1 /\ k - 1 = n
    BY <1>4
  <2>2. /\ pos[k - 1] \in 0..Len(b) /\ pos[k] = pos[k - 1] + Len(Q[k])
        /\ Drop(b, pos[k - 1]) \in Seq(Nat) /\ Prefix(Q[k], Drop(b, pos[k - 1]))
    BY <1>3, <1>5, <1>6, PrefixPart
  <2>3. pos[k] = Len(U)
    BY <1>4, <1>5, <2>1 DEF Layout
  <2> QED
    BY <1>2, <1>4, <2>1, <2>2, <2>3
<1>9. pos[0] = 0
  BY <1>5 DEF Layout
<1>10. Listed(b, bs, pos, Len(U))
  BY <1>1, <1>7, <1>8, <1>9 DEF Listed
<1> QED
  BY <1>10 DEF U

\* The step at NULL.
LEMMA LastString ==
    ASSUME NEW b, NEW i, NEW v, NEW t, Reads(ReadString(Drop(b, i)), Null, t)
    PROVE  StringsAt(b, i, v) = Value(<<>>, i + t)
BY DEF StringsAt, Then, Reads

\* The step at a string.
LEMMA OneString ==
    ASSUME NEW b, NEW i, NEW s, s # Null, NEW t, Reads(ReadString(Drop(b, i)), s, t),
           NEW rest, NEW T, NEW v, v = Value(rest, T)
    PROVE  NextString(b, i) = i + t /\ StringsAt(b, i, v) = Value(<<s>> \o rest, T)
<1>1. NextString(b, i) = i + t
  BY DEF NextString, Reads
<1>2. StringsAt(b, i, v) = Then(v, LAMBDA r : Value(<<s>> \o r.value, r.took))
  BY DEF StringsAt, Then, Reads
<1>3. v.ok /\ v.value = rest /\ v.took = T
  BY DEF Value
<1> QED
  BY <1>1, <1>2, <1>3 DEF Then

\* ReadStrings reads the strings up to NULL, and nothing of what follows.
LEMMA StringsRead ==
    ASSUME NEW ss \in Seq(Str), NEW b \in Seq(Nat), Prefix(StringsBytes(ss) \o NullBytes, b)
    PROVE  Reads(ReadStrings(b), ss, Len(StringsBytes(ss) \o NullBytes))
<1> DEFINE bs == [i \in DOMAIN ss |-> StringBytes(ss[i])]
<1>1. PICK n \in Nat : n = Len(ss) /\ DOMAIN ss = 1..n
  BY LenProperties
<1>2. \A i \in 1..n : ss[i] \in Str /\ ss[i] \in Seq(Nat)
  BY <1>1 DEF Str
<1>3. \A i \in 1..n : StringBytes(ss[i]) \in Seq(Nat)
  BY <1>2, StringType
<1>4. bs \in [1..n -> Seq(Nat)] /\ \A i \in 1..n : bs[i] = StringBytes(ss[i])
  BY <1>1, <1>3
<1>5. StringsBytes(ss) = FlattenSeq(bs)
  BY DEF StringsBytes
<1> HIDE DEF bs
<1>6. bs \in Seq(Seq(Nat)) /\ Len(bs) = n
  BY <1>4, MadeSeq
<1>7. PICK T : T = Len(StringsBytes(ss) \o NullBytes)
  OBVIOUS
<1>8. PICK pos : Listed(b, bs, pos, T)
  BY <1>5, <1>6, <1>7, ListLayout
<1>9. PICK l \in Nat : l = Len(b)
  BY LenProperties
<1>10. PICK f : /\ ReadStrings(b) = f[0]
                /\ \A i \in 0..l : f[i] = StringsAt(b, i, f[NextString(b, i)])
  BY <1>9, StringsSolved
<1>11. f[pos[n]] = Value(<<>>, T)
  <2>1. /\ pos[n] \in 0..l /\ pos[n] + 2 = T
        /\ Drop(b, pos[n]) \in Seq(Nat) /\ Prefix(NullBytes, Drop(b, pos[n]))
    BY <1>6, <1>8, <1>9 DEF Listed
  <2>2. Reads(ReadString(Drop(b, pos[n])), Null, 2)
    BY <2>1, NullReads, NullType
  <2>3. f[pos[n]] = StringsAt(b, pos[n], f[NextString(b, pos[n])])
    BY <1>10, <2>1
  <2>4. f[pos[n]] = Value(<<>>, pos[n] + 2)
    BY <2>2, <2>3, LastString
  <2> QED
    BY <2>1, <2>4
<1>12. ASSUME NEW i \in 1..n, NEW rest \in Seq(Str), f[pos[i]] = Value(rest, T)
       PROVE  f[pos[i - 1]] = Value(<<ss[i]>> \o rest, T)
  <2>1. PICK p : p = pos[i - 1]
    OBVIOUS
  <2>2. /\ p \in 0..l /\ pos[i] = p + Len(bs[i])
        /\ Drop(b, p) \in Seq(Nat) /\ Prefix(bs[i], Drop(b, p))
    BY <1>6, <1>8, <1>9, <2>1 DEF Listed
  <2>3. Reads(ReadString(Drop(b, p)), ss[i], Len(bs[i]))
    BY <1>2, <1>4, <2>2, StringReads
  <2>4. ss[i] # Null
    BY <1>2, NotNull
  <2>5. /\ NextString(b, p) = p + Len(bs[i])
        /\ StringsAt(b, p, f[pos[i]]) = Value(<<ss[i]>> \o rest, T)
    BY <1>12, <2>3, <2>4, OneString
  <2>6. f[p] = StringsAt(b, p, f[NextString(b, p)])
    BY <1>10, <2>2
  <2> QED
    BY <2>1, <2>2, <2>5, <2>6
<1>13. f[pos[0]] = Value(ss, T)
  <2>1. InList(f, pos, ss, Str, T)
    BY <1>1, <1>11, <1>12 DEF InList
  <2> QED
    BY <2>1, ListRead
<1>14. pos[0] = 0
  BY <1>8 DEF Listed
<1> QED
  BY <1>7, <1>10, <1>13, <1>14, ReadsValue

----------------------------------------------------------------------------
(* Maps, in the same way.                                                  *)

\* One step of ReadMap, at i: v is what is read from the next key on.
MapAt(b, i, v) ==
    Then(ReadString(Drop(b, i)), LAMBDA k :
         IF k.value = Null THEN Value(<<>>, i + k.took)
         ELSE Then(ReadStrings(Drop(b, i + k.took)), LAMBDA vs :
                   Then(v, LAMBDA rest :
                        Value(<<[key |-> k.value, values |-> vs.value]>> \o rest.value,
                              rest.took))))

NextKey(b, i) == NextString(b, i) + ReadStrings(Drop(b, NextString(b, i))).took

GoesOn(b, i) == Goes(b, i) /\ ReadStrings(Drop(b, NextString(b, i))).ok

Pair == [key : Seq(Nat), values : Seq(Seq(Nat))]

\* The entry at i ends in b.
LEMMA EntryIn ==
    ASSUME NEW b \in Seq(Nat), NEW i \in 0..Len(b), GoesOn(b, i)
    PROVE  /\ NextKey(b, i) \in (i + 1)..Len(b)
           /\ ReadStrings(Drop(b, NextString(b, i))).value \in Seq(Seq(Nat))
           /\ ReadString(Drop(b, i)).value \in Seq(Nat)
<1>1. PICK l \in Nat : l = Len(b)
  BY LenProperties
<1>2. /\ NextString(b, i) \in (i + 1)..l /\ ReadString(Drop(b, i)).value \in Seq(Nat)
  BY <1>1, StringIn DEF GoesOn, Goes
<1>3. PICK j \in (i + 1)..l : j = NextString(b, i)
  BY <1>2
<1>4. j \in Nat /\ j <= Len(b) /\ i \in Nat
  BY <1>1
<1>5. Drop(b, j) \in Seq(Nat) /\ Len(Drop(b, j)) = l - j
  BY <1>1, <1>4, Dropped
<1>6. ReadStrings(Drop(b, j)).ok
  BY <1>3 DEF GoesOn
<1>7. PICK t \in 0..(l - j) : t = ReadStrings(Drop(b, j)).took
  BY <1>5, <1>6, StringsBounds
<1>8. ReadStrings(Drop(b, j)).value \in Seq(Seq(Nat))
  BY <1>5, <1>6, StringsBounds
<1>9. j + t \in (i + 1)..l
  BY <1>4
<1> QED
  BY <1>1, <1>2, <1>3, <1>7, <1>8, <1>9 DEF NextKey

\* A step returns a map, and goes on further to the right or stops.
LEMMA MapStep ==
    ASSUME NEW b \in Seq(Nat), NEW n \in Nat, n = Len(b), NEW i \in 0..n
    PROVE  /\ \A v \in Lists(Pair, n) : MapAt(b, i, v) \in Lists(Pair, n)
           /\ ~GoesOn(b, i) => \A v, w : MapAt(b, i, v) = MapAt(b, i, w)
           /\ GoesOn(b, i) => NextKey(b, i) \in (i + 1)..n
<1>1. PICK k : k = ReadString(Drop(b, i))
  OBVIOUS
<1>2. PICK vs : vs = ReadStrings(Drop(b, i + k.took))
  OBVIOUS
<1>3. NextString(b, i) = i + k.took
  BY <1>1 DEF NextString
<1>4. Panic \in Lists(Pair, n)
  BY DEF Lists
<1>5. ASSUME NEW v \in Lists(Pair, n) PROVE MapAt(b, i, v) \in Lists(Pair, n)
  <2>1. CASE ~k.ok
    BY <1>1, <1>4, <2>1 DEF MapAt, Then
  <2>2. CASE k.ok /\ k.value = Null
    <3>1. MapAt(b, i, v) = Value(<<>>, i + k.took)
      BY <1>1, <2>2 DEF MapAt, Then
    <3>2. i + k.took \in 0..n
      <4>1. NextString(b, i) \in (i + 1)..n
        BY <1>1, <2>2, StringIn
      <4> QED
        BY <1>3, <4>1
    <3>3. <<>> \in Seq(Pair)
      OBVIOUS
    <3> QED
      BY <3>1, <3>2, <3>3, InLists
  <2>3. CASE k.ok /\ k.value # Null /\ ~vs.ok
    <3>1. MapAt(b, i, v) = Panic
      BY <1>1, <1>2, <2>3 DEF MapAt, Then
    <3> QED
      BY <1>4, <3>1
  <2>4. CASE k.ok /\ k.value # Null /\ vs.ok
    <3> DEFINE e == [key |-> k.value, values |-> vs.value]
    <3>1. MapAt(b, i, v) = Then(v, LAMBDA rest : Value(<<e>> \o rest.value, rest.took))
      BY <1>1, <1>2, <2>4 DEF MapAt, Then
    <3>2. GoesOn(b, i)
      BY <1>1, <1>2, <1>3, <2>4 DEF GoesOn, Goes
    <3>3. k.value \in Seq(Nat) /\ vs.value \in Seq(Seq(Nat))
      BY <1>1, <1>2, <1>3, <3>2, EntryIn
    <3>4. e \in Pair
      BY <3>3 DEF Pair
    <3> HIDE DEF e
    <3>5. CASE v = Panic
      <4>1. MapAt(b, i, v) = Panic
        BY <3>1, <3>5 DEF Then, Panic
      <4> QED
        BY <1>4, <4>1
    <3>6. CASE v.ok /\ v.value \in Seq(Pair) /\ v.took \in 0..n
      <4>1. MapAt(b, i, v) = Value(<<e>> \o v.value, v.took)
        BY <3>1, <3>6 DEF Then
      <4>2. <<e>> \in Seq(Pair)
        BY <3>4
      <4>3. <<e>> \o v.value \in Seq(Pair)
        BY <3>6, <4>2, ConcatProperties
      <4> QED
        BY <3>6, <4>1, <4>3, InLists
    <3> QED
      BY <3>5, <3>6, ListOr
  <2> QED
    BY <2>1, <2>2, <2>3, <2>4
<1>6. ASSUME ~GoesOn(b, i), NEW v, NEW w PROVE MapAt(b, i, v) = MapAt(b, i, w)
  BY <1>6 DEF GoesOn, Goes, NextString, MapAt, Then
<1>7. ASSUME GoesOn(b, i) PROVE NextKey(b, i) \in (i + 1)..n
  BY <1>7, EntryIn
<1> QED
  BY <1>5, <1>6, <1>7

\* What ReadMap does, as an equation that holds from every position.
LEMMA MapSolved ==
    ASSUME NEW b \in Seq(Nat), NEW n \in Nat, n = Len(b)
    PROVE  \E f \in [0..n -> Lists(Pair, n)] :
              /\ ReadMap(b) = f[0]
              /\ \A i \in 0..n : f[i] = MapAt(b, i, f[NextKey(b, i)])
<1> DEFINE S == Lists(Pair, n)
           E(f) == f = [i \in 0..n |-> MapAt(b, i, f[NextKey(b, i)])]
           nx == [i \in 0..n |-> IF GoesOn(b, i) THEN NextKey(b, i) ELSE i]
           H == [p \in (0..n) \X S |-> MapAt(b, p[1], p[2])]
<1>1. ReadMap(b) = (CHOOSE f : E(f))[0]
  BY Zenon DEF ReadMap, MapAt, NextKey, NextString, Then
<1>2. /\ \A i \in 0..n, v \in S : MapAt(b, i, v) \in S
      /\ \A i \in 0..n : ~GoesOn(b, i) => \A v, w : MapAt(b, i, v) = MapAt(b, i, w)
      /\ \A i \in 0..n : GoesOn(b, i) => NextKey(b, i) \in (i + 1)..n
  BY MapStep
<1>3. S # {}
  BY DEF Lists
<1> HIDE DEF S
<1>4. H \in [(0..n) \X S -> S] /\ \A i \in 0..n, v \in S : H[<<i, v>>] = MapAt(b, i, v)
  BY <1>2
<1>5. nx \in [0..n -> 0..n]
  BY <1>2
<1>6. \A i \in 0..n : /\ GoesOn(b, i) => nx[i] = NextKey(b, i) /\ nx[i] > i
                      /\ ~GoesOn(b, i) => nx[i] = i
  BY <1>2
<1> HIDE DEF H, nx
<1>7. \A i \in 0..n : nx[i] > i \/ \A v, w \in S : H[<<i, v>>] = H[<<i, w>>]
  BY <1>2, <1>4, <1>6
<1>8. PICK g \in [0..n -> S] : Solves(g, H, nx, n)
  BY <1>3, <1>4, <1>5, <1>7, Backward
<1>9. ASSUME NEW i \in 0..n PROVE g[i] = MapAt(b, i, g[NextKey(b, i)])
  <2>1. g[i] = H[<<i, g[nx[i]]>>]
    BY <1>8 DEF Solves
  <2>2. nx[i] \in 0..n /\ g[nx[i]] \in S
    BY <1>5
  <2>3. g[i] = MapAt(b, i, g[nx[i]])
    BY <1>4, <2>1, <2>2
  <2> QED
    BY <1>2, <1>6, <2>3
<1>10. E(g)
  <2>1. g = [i \in 0..n |-> g[i]]
    OBVIOUS
  <2> QED
    BY <1>9, <2>1
<1>11. PICK u : E(u) /\ ReadMap(b) = u[0]
  <2> HIDE DEF E
  <2> QED
    BY <1>1, <1>10, Zenon
<1>12. \A i \in 0..n : u[i] = MapAt(b, i, u[NextKey(b, i)])
  BY <1>11
<1> HIDE DEF E
<1>13. ASSUME NEW i \in 0..n, \A j \in (i + 1)..n : u[j] = g[j] PROVE u[i] = g[i]
  <2>1. CASE GoesOn(b, i)
    BY <1>2, <1>9, <1>12, <1>13, <2>1
  <2>2. CASE ~GoesOn(b, i)
    BY <1>2, <1>9, <1>12, <2>2
  <2> QED
    BY <2>1, <2>2
<1>14. u[0] = g[0]
  <2>1. Agree(u, g, n)
    BY <1>13 DEF Agree
  <2>2. \A i \in 0..n : u[i] = g[i]
    BY <2>1, SameBackward
  <2> QED
    BY <2>2
<1> QED
  BY <1>9, <1>11, <1>14 DEF S

\* What is dropped in two steps.
LEMMA DropTwice ==
    ASSUME NEW b \in Seq(Nat), NEW m \in Nat, NEW k \in Nat, m + k <= Len(b)
    PROVE  Drop(Drop(b, m), k) = Drop(b, m + k)
<1>1. PICK l \in Nat : l = Len(b) /\ m + k <= l
  BY LenProperties
<1>2. m <= l /\ m + k \in Nat
  BY <1>1
<1> DEFINE c == Drop(b, m)
           d == Drop(c, k)
           e == Drop(b, m + k)
<1>3. c \in Seq(Nat) /\ Len(c) = l - m /\ \A i \in 1..(l - m) : c[i] = b[m + i]
  BY <1>1, <1>2, Dropped
<1>4. e \in Seq(Nat) /\ Len(e) = l - (m + k) /\ \A i \in 1..(l - (m + k)) : e[i] = b[m + k + i]
  BY <1>1, <1>2, Dropped
<1> HIDE DEF c, e
<1>5. k <= Len(c)
  BY <1>1, <1>3
<1>6. /\ d \in Seq(Nat) /\ Len(d) = Len(c) - k
      /\ \A i \in 1..(Len(c) - k) : d[i] = c[k + i]
  BY <1>3, <1>5, Dropped
<1> HIDE DEF d
<1>7. Len(c) - k = l - (m + k)
  BY <1>3
<1>8. ASSUME NEW i \in 1..(l - (m + k)) PROVE d[i] = e[i]
  <2>1. k + i \in 1..(l - m) /\ m + (k + i) = m + k + i
    BY <1>1
  <2>2. d[i] = c[k + i] /\ c[k + i] = b[m + (k + i)]
    BY <1>3, <1>6, <1>7, <2>1
  <2> QED
    BY <1>4, <2>1, <2>2
<1>9. d = e
  BY <1>4, <1>6, <1>7, <1>8, SeqEqual
<1> QED
  BY <1>9 DEF c, d, e

\* What begins with u and w begins with u, and w follows.
LEMMA PrefixSplit ==
    ASSUME NEW u \in Seq(Nat), NEW w \in Seq(Nat), NEW b \in Seq(Nat), Prefix(u \o w, b)
    PROVE  /\ Len(u) \in Nat /\ Len(u) <= Len(b) /\ Prefix(u, b)
           /\ Drop(b, Len(u)) \in Seq(Nat) /\ Prefix(w, Drop(b, Len(u)))
<1>1. Joined(u \o w, Append(<<u>>, w))
  BY JoinedOne, JoinedAppend
<1>2. /\ <<u>> \in Seq(Seq(Nat)) /\ Len(<<u>>) = 1 /\ <<u>>[1] = u
  OBVIOUS
<1>3. /\ Len(Append(<<u>>, w)) = 2 /\ Append(<<u>>, w)[1] = u /\ Append(<<u>>, w)[2] = w
  BY <1>2, AppendProperties
<1>4. PICK c, q : /\ c = u \o w /\ Joined(c, q) /\ Prefix(c, b)
                  /\ Len(q) = 2 /\ q[1] = u /\ q[2] = w
  BY <1>1, <1>3
<1>5. PICK pos : Layout(c, q, pos)
  BY <1>4 DEF Joined
<1>6. PICK i \in 1..Len(q), j \in 1..Len(q) : i = 1 /\ j = 2 /\ i - 1 = 0 /\ j - 1 = 1
  BY <1>4
<1>7. /\ pos[0] \in 0..Len(b) /\ pos[1] = pos[0] + Len(u)
      /\ Drop(b, pos[0]) \in Seq(Nat) /\ Prefix(u, Drop(b, pos[0]))
  <2>1. /\ pos[i - 1] \in 0..Len(b) /\ pos[i] = pos[i - 1] + Len(q[i])
        /\ Drop(b, pos[i - 1]) \in Seq(Nat) /\ Prefix(q[i], Drop(b, pos[i - 1]))
    BY <1>4, <1>5, PrefixPart
  <2> QED
    BY <1>4, <1>6, <2>1
<1>8. /\ pos[1] \in 0..Len(b)
      /\ Drop(b, pos[1]) \in Seq(Nat) /\ Prefix(w, Drop(b, pos[1]))
  <2>1. /\ pos[j - 1] \in 0..Len(b)
        /\ Drop(b, pos[j - 1]) \in Seq(Nat) /\ Prefix(q[j], Drop(b, pos[j - 1]))
    BY <1>4, <1>5, PrefixPart
  <2> QED
    BY <1>4, <1>6, <2>1
<1>9. pos[0] = 0
  BY <1>5 DEF Layout
<1>10. Drop(b, 0) = b
  BY DEF Drop
<1>11. PICK k \in Nat, l \in Nat : k = Len(u) /\ l = Len(b)
  BY LenProperties
<1>12. pos[1] = k /\ k <= l
  BY <1>7, <1>8, <1>9, <1>11
<1> QED
  BY <1>7, <1>8, <1>9, <1>10, <1>11, <1>12

\* The step at NULL.
LEMMA LastKey ==
    ASSUME NEW b, NEW i, NEW v, NEW t, Reads(ReadString(Drop(b, i)), Null, t)
    PROVE  MapAt(b, i, v) = Value(<<>>, i + t)
BY DEF MapAt, Then, Reads

\* The step at a key and its values.
LEMMA OneKey ==
    ASSUME NEW b, NEW i, NEW s, s # Null, NEW t, Reads(ReadString(Drop(b, i)), s, t),
           NEW ss, NEW k, Reads(ReadStrings(Drop(b, i + t)), ss, k),
           NEW rest, NEW T, NEW v, v = Value(rest, T)
    PROVE  /\ NextKey(b, i) = i + t + k
           /\ MapAt(b, i, v) = Value(<<[key |-> s, values |-> ss]>> \o rest, T)
<1>1. NextString(b, i) = i + t
  BY DEF NextString, Reads
<1>2. NextKey(b, i) = i + t + k
  BY <1>1 DEF NextKey, Reads
<1>3. MapAt(b, i, v) = Then(v, LAMBDA r : Value(<<[key |-> s, values |-> ss]>> \o r.value, r.took))
  BY DEF MapAt, Then, Reads
<1>4. v.ok /\ v.value = rest /\ v.took = T
  BY DEF Value
<1> QED
  BY <1>2, <1>3, <1>4 DEF Then

\* The strings of a header that is short are short.
LEMMA ShortValues ==
    ASSUME NEW m \in HeaderType, Short(m), NEW i \in 1..Len(m)
    PROVE  m[i].values \in Seq(Str)
<1>1. m[i].values \in Seq(Seq(Nat))
  BY EntryParts
<1>2. PICK ss \in Seq(Seq(Nat)), n \in Nat : ss = m[i].values /\ n = Len(ss) /\ DOMAIN ss = 1..n
  BY <1>1, LenProperties
<1>3. \A j \in 1..n : Len(ss[j]) < MaxLen
  BY <1>2, MapLen DEF Short
<1>4. \A j \in 1..n : ss[j] \in Seq(Nat)
  BY <1>2, PartType
<1>5. ss \in [1..n -> Str]
  <2>1. \A j \in 1..n : ss[j] \in Str
    BY <1>3, <1>4 DEF Str
  <2>2. ss = [j \in 1..n |-> ss[j]]
    BY <1>2
  <2> QED
    BY <2>1, <2>2
<1> QED
  BY <1>2, <1>5, MadeSeq

\* ReadMap reads the keys and their values up to the last NULL, and nothing of
\* what follows.
LEMMA MapRead ==
    ASSUME NEW m \in HeaderType, Short(m), NEW b \in Seq(Nat), Prefix(MapBytes(m), b)
    PROVE  Reads(ReadMap(b), m, Len(MapBytes(m)))
<1> DEFINE bs == [i \in DOMAIN m |-> EntryBytes(m[i])]
           V == [key : Str, values : Seq(Seq(Nat))]
<1>1. PICK n \in Nat : n = Len(m) /\ DOMAIN m = 1..n
  BY MapLen
<1>2. bs \in Seq(Seq(Nat)) /\ Len(bs) = n
  BY <1>1, EntriesType
<1>3. \A i \in 1..n : bs[i] = EntryBytes(m[i])
  BY <1>1
<1>4. MapBytes(m) = FlattenSeq(bs) \o NullBytes
  BY MapType
<1> HIDE DEF bs
<1>5. PICK T : T = Len(MapBytes(m))
  OBVIOUS
<1>6. PICK pos : Listed(b, bs, pos, T)
  BY <1>2, <1>4, <1>5, ListLayout
<1>7. PICK l \in Nat : l = Len(b)
  BY LenProperties
<1>8. PICK f : /\ ReadMap(b) = f[0]
               /\ \A i \in 0..l : f[i] = MapAt(b, i, f[NextKey(b, i)])
  BY <1>7, MapSolved
<1>9. f[pos[n]] = Value(<<>>, T)
  <2>1. /\ pos[n] \in 0..l /\ pos[n] + 2 = T
        /\ Drop(b, pos[n]) \in Seq(Nat) /\ Prefix(NullBytes, Drop(b, pos[n]))
    BY <1>2, <1>6, <1>7 DEF Listed
  <2>2. Reads(ReadString(Drop(b, pos[n])), Null, 2)
    BY <2>1, NullReads, NullType
  <2>3. f[pos[n]] = MapAt(b, pos[n], f[NextKey(b, pos[n])])
    BY <1>8, <2>1
  <2>4. f[pos[n]] = Value(<<>>, pos[n] + 2)
    BY <2>2, <2>3, LastKey
  <2> QED
    BY <2>1, <2>4
<1>10. ASSUME NEW i \in 1..n, NEW rest \in Seq(V), f[pos[i]] = Value(rest, T)
       PROVE  f[pos[i - 1]] = Value(<<m[i]>> \o rest, T)
  <2>1. PICK p : p = pos[i - 1]
    OBVIOUS
  <2>2. /\ p \in 0..l /\ pos[i] = p + Len(bs[i])
        /\ Drop(b, p) \in Seq(Nat) /\ Prefix(bs[i], Drop(b, p))
    BY <1>2, <1>6, <1>7, <2>1 DEF Listed
  <2>3. PICK c \in Seq(Nat) : c = Drop(b, p)
    BY <2>2
  <2>4. PICK s \in Str, ss \in Seq(Str) : s = m[i].key /\ ss = m[i].values
    BY <1>1, EntryParts, ShortValues
  <2>5. ss \in Seq(Seq(Nat)) /\ s \in Seq(Nat)
    BY <1>1, <2>4, EntryParts
  <2>6. PICK A \in Seq(Nat), B \in Seq(Nat) : A = StringBytes(s) /\ B = StringsBytes(ss) \o NullBytes
    BY <2>5, StringType, StringsType, NullType, Concat
  <2>7. bs[i] = A \o B
    <3>1. bs[i] = (StringBytes(s) \o StringsBytes(ss)) \o NullBytes
      BY <1>3, <2>4 DEF EntryBytes
    <3>2. (StringBytes(s) \o StringsBytes(ss)) \o NullBytes = StringBytes(s) \o (StringsBytes(ss) \o NullBytes)
      <4>1. StringBytes(s) \in Seq(Nat) /\ StringsBytes(ss) \in Seq(Nat) /\ NullBytes \in Seq(Nat)
        BY <2>5, StringType, StringsType, NullType
      <4>2. PICK d \in Seq(Nat), e \in Seq(Nat), z \in Seq(Nat) :
               d = StringBytes(s) /\ e = StringsBytes(ss) /\ z = NullBytes
        BY <4>1
      <4>3. (d \o e) \o z = d \o (e \o z)
        BY Regroup, ZenonT(40)
      <4> QED
        BY <4>2, <4>3, Zenon
    <3> QED
      BY <2>6, <3>1, <3>2
  <2>8. /\ Len(A) \in Nat /\ Len(A) <= Len(c) /\ Prefix(A, c)
        /\ Drop(c, Len(A)) \in Seq(Nat) /\ Prefix(B, Drop(c, Len(A)))
    BY <2>2, <2>3, <2>7, PrefixSplit
  <2>9. PICK x \in Nat, y \in Nat : x = Len(A) /\ y = Len(B) /\ Len(bs[i]) = x + y
    BY <2>6, <2>7, Concat, LenProperties
  <2>10. Reads(ReadString(Drop(b, p)), s, x)
    BY <2>3, <2>6, <2>8, <2>9, StringReads
  <2>11. Drop(c, x) = Drop(b, p + x)
    <3>1. p \in Nat /\ p <= Len(b)
      BY <1>7, <2>2
    <3>2. Len(c) = Len(b) - p
      BY <2>3, <3>1, Dropped
    <3>3. p + x <= Len(b)
      BY <1>7, <2>8, <2>9, <3>1, <3>2
    <3> QED
      BY <2>3, <3>1, <3>3, DropTwice
  <2>12. Reads(ReadStrings(Drop(b, p + x)), ss, y)
    BY <2>6, <2>8, <2>9, <2>11, StringsRead
  <2>13. s # Null
    BY <2>5, NotNull
  <2>14. /\ NextKey(b, p) = p + x + y
         /\ MapAt(b, p, f[pos[i]]) = Value(<<[key |-> s, values |-> ss]>> \o rest, T)
    <3> HIDE DEF V
    <3>1. PICK v : v = f[pos[i]] /\ v = Value(rest, T)
      BY <1>10
    <3>2. /\ NextKey(b, p) = p + x + y
          /\ MapAt(b, p, v) = Value(<<[key |-> s, values |-> ss]>> \o rest, T)
      BY <2>10, <2>12, <2>13, <3>1, OneKey
    <3> QED
      BY <3>1, <3>2
  <2>15. pos[i] = p + x + y
    BY <2>2, <2>9
  <2>16. m[i] = [key |-> s, values |-> ss]
    <3>1. m \in Seq(V)
      BY DEF HeaderType
    <3> HIDE DEF V
    <3>2. m[i] \in V
      BY <1>1, <3>1, ElementOfSeq, Zenon
    <3> QED
      BY <2>4, <3>2 DEF V
  <2>17. f[p] = MapAt(b, p, f[NextKey(b, p)])
    BY <1>8, <2>2
  <2> QED
    BY <2>1, <2>14, <2>15, <2>16, <2>17
<1>11. m \in Seq(V)
  BY DEF HeaderType
<1> HIDE DEF V
<1>12. f[pos[0]] = Value(m, T)
  <2>1. InList(f, pos, m, V, T)
    BY <1>1, <1>9, <1>10 DEF InList
  <2> QED
    BY <1>11, <2>1, ListRead
<1>13. pos[0] = 0
  BY <1>6 DEF Listed
<1> QED
  BY <1>5, <1>8, <1>12, <1>13, ReadsValue

----------------------------------------------------------------------------
(* Records.                                                                *)

\* r is q and the part f.
And(r, q, f) ==
    Len(r) = Len(q) + 1 /\ (\A i \in 1..Len(q) : r[i] = q[i]) /\ r[Len(q) + 1] = f

\* A part more.
LEMMA PartAdded ==
    ASSUME NEW c, NEW q, Joined(c, q), NEW f \in Seq(Nat)
    PROVE  \E r : Joined(c \o f, r) /\ And(r, q, f)
<1>1. Joined(c \o f, Append(q, f))
  BY JoinedAppend
<1>2. q \in Seq(Seq(Nat))
  BY DEF Joined
<1>3. /\ Len(Append(q, f)) = Len(q) + 1
      /\ (\A i \in 1..Len(q) : Append(q, f)[i] = q[i]) /\ Append(q, f)[Len(q) + 1] = f
  BY <1>2, AppendProperties
<1>4. And(Append(q, f), q, f)
  BY <1>3 DEF And
<1> QED
  BY <1>1, <1>4

\* A reader of the kind kinds[i] reads vals[i] from the part q[i].
EachReads(kinds, q, vals) ==
    \A i \in 1..Len(q) : \A c \in Seq(Nat) :
       Prefix(q[i], c) => Reads(ReadField(kinds[i], c), vals[i], Len(q[i]))

\* If b begins with the parts, ReadFields returns all values.
LEMMA PartsRead ==
    ASSUME NEW n \in Nat, NEW kinds, Len(kinds) = n, NEW V, NEW vals \in Seq(V), Len(vals) = n,
           NEW u, NEW q, Joined(u, q), Len(q) = n, EachReads(kinds, q, vals),
           NEW b \in Seq(Nat), Prefix(u, b)
    PROVE  ReadFields(kinds, b) = Value(vals, Len(u))
<1>1. PICK pos : Layout(u, q, pos)
  BY DEF Joined
<1>2. pos \in [0..n -> Nat] /\ pos[0] = 0 /\ pos[n] = Len(u)
  BY <1>1 DEF Layout
<1>3. ASSUME NEW i \in 1..n
      PROVE  \E t \in Nat : /\ Reads(ReadField(kinds[i], Drop(b, pos[i - 1])), vals[i], t)
                            /\ pos[i] = pos[i - 1] + t
  <2>1. i \in 1..Len(q)
    OBVIOUS
  <2>2. /\ Drop(b, pos[i - 1]) \in Seq(Nat) /\ Prefix(q[i], Drop(b, pos[i - 1]))
        /\ pos[i] = pos[i - 1] + Len(q[i])
    BY <1>1, <2>1, PrefixPart
  <2>3. Len(q[i]) \in Nat
    BY <2>1, PartType DEF Joined
  <2>4. Reads(ReadField(kinds[i], Drop(b, pos[i - 1])), vals[i], Len(q[i]))
    BY <2>1, <2>2 DEF EachReads
  <2> QED
    BY <2>2, <2>3, <2>4
<1>4. InTurn(kinds, vals, pos, b, n)
  BY <1>2, <1>3 DEF InTurn
<1> QED
  BY <1>2, <1>4, FieldsRead

\* ReadRoute, at index 0 and a path.
LEMMA RouteRead ==
    ASSUME NEW s \in Str, NEW b \in Seq(Nat), Prefix(LenBytes(0) \o StringBytes(s), b)
    PROVE  Reads(ReadRoute(b), s, Len(LenBytes(0) \o StringBytes(s)))
<1>1. PICK A \in Seq(Nat), B \in Seq(Nat) : A = LenBytes(0) /\ B = StringBytes(s)
  <2>1. s \in Seq(Nat)
    BY DEF Str
  <2>2. 0 \in Nat /\ 0 < MaxLen
    BY MaxLenBig
  <2> QED
    BY <2>1, <2>2, LenType, StringType
<1>2. /\ Len(A) \in Nat /\ Prefix(A, b)
      /\ Drop(b, Len(A)) \in Seq(Nat) /\ Prefix(B, Drop(b, Len(A)))
  BY <1>1, PrefixSplit
<1>3. PICK x \in Nat, y \in Nat : x = Len(A) /\ y = Len(B) /\ Len(A \o B) = x + y
  BY Concat, LenProperties
<1>4. Reads(ReadLen(b), 0, x)
  <2>1. 0 \in 0..(MaxLen - 1)
    BY MaxLenBig
  <2> QED
    BY <1>1, <1>2, <1>3, <2>1, LenReads
<1>5. Reads(ReadString(Drop(b, x)), s, y)
  BY <1>1, <1>2, <1>3, StringReads
<1>6. PICK i, t : i = ReadLen(b) /\ t = ReadString(Drop(b, x))
  OBVIOUS
<1>7. i.ok /\ i.value = 0 /\ i.took = x /\ t.ok /\ t.value = s /\ t.took = y
  BY <1>4, <1>5, <1>6 DEF Reads
<1>8. ReadRoute(b) = Value(s, x + y)
  BY <1>6, <1>7 DEF ReadRoute, Then
<1> QED
  BY <1>1, <1>3, <1>8, ReadsValue

\* The readers that the fields of a record call.
LEMMA FieldReaders ==
    ASSUME NEW c
    PROVE  /\ ReadField("string", c) = ReadString(c) /\ ReadField("int", c) = ReadInt64(c)
           /\ ReadField("len", c) = ReadLen(c) /\ ReadField("route", c) = ReadRoute(c)
           /\ ReadField("map", c) = ReadMap(c)
BY DEF ReadField

\* The bytes of a response, in parts, and what is read from them.
LEMMA ResponseRead ==
    ASSUME NEW r \in ResponseType, Short(r.header), NEW b \in Seq(Nat), Prefix(ResponseBytes(r), b)
    PROVE  ReadFields(<<"len", "map", "int">>, b)
           = Value(<<r.code, r.header, r.contentLength>>, Len(ResponseBytes(r)))
<1>1. r.code \in 0..(MaxLen - 1) /\ r.header \in HeaderType /\ r.contentLength \in Int64
  BY DEF ResponseType
<1>2. PICK A \in Seq(Nat), B \in Seq(Nat), C \in Seq(Nat) :
         A = LenBytes(r.code) /\ B = MapBytes(r.header) /\ C = IntBytes(r.contentLength)
  <2>1. r.code \in Nat /\ r.code < MaxLen
    BY <1>1, MaxLenBig
  <2> QED
    BY <1>1, <2>1, LenType, MapType, IntType
<1>3. PICK q1 : Joined(A, q1) /\ Len(q1) = 1 /\ q1[1] = A
  <2>1. Joined(A, <<A>>) /\ Len(<<A>>) = 1 /\ <<A>>[1] = A
    BY JoinedOne
  <2> QED
    BY <2>1
<1>4. PICK q2 : Joined(A \o B, q2) /\ Len(q2) = 2 /\ q2[1] = A /\ q2[2] = B
  <2>1. PICK r2 : Joined(A \o B, r2) /\ And(r2, q1, B)
    BY <1>3, PartAdded
  <2>2. Len(r2) = 2 /\ r2[1] = A /\ r2[2] = B
    BY <1>3, <2>1 DEF And
  <2> QED
    BY <2>1, <2>2
<1>5. PICK q : Joined((A \o B) \o C, q) /\ Len(q) = 3 /\ q[1] = A /\ q[2] = B /\ q[3] = C
  <2>1. PICK r3 : Joined((A \o B) \o C, r3) /\ And(r3, q2, C)
    BY <1>4, PartAdded
  <2>2. Len(r3) = 3 /\ r3[1] = A /\ r3[2] = B /\ r3[3] = C
    BY <1>4, <2>1 DEF And
  <2> QED
    BY <2>1, <2>2
<1> DEFINE kinds == <<"len", "map", "int">>
           V == {r.code, r.header, r.contentLength}
           vals == <<r.code, r.header, r.contentLength>>
<1>6. Len(kinds) = 3 /\ kinds[1] = "len" /\ kinds[2] = "map" /\ kinds[3] = "int"
  OBVIOUS
<1>7. /\ vals \in Seq(V) /\ Len(vals) = 3
      /\ vals[1] = r.code /\ vals[2] = r.header /\ vals[3] = r.contentLength
  OBVIOUS
<1> HIDE DEF kinds, vals
<1> HIDE DEF V
<1>8. EachReads(kinds, q, vals)
  <2> SUFFICES ASSUME NEW i \in 1..3, NEW c \in Seq(Nat), Prefix(q[i], c)
               PROVE  Reads(ReadField(kinds[i], c), vals[i], Len(q[i]))
    BY <1>5 DEF EachReads
  <2>1. CASE i = 1
    <3>1. Reads(ReadLen(c), r.code, Len(A))
      BY <1>1, <1>2, <1>5, <2>1, LenReads
    <3> QED
      BY <1>5, <1>6, <1>7, <2>1, <3>1, FieldReaders
  <2>2. CASE i = 2
    <3>1. Reads(ReadMap(c), r.header, Len(B))
      BY <1>1, <1>2, <1>5, <2>2, MapRead
    <3> QED
      BY <1>5, <1>6, <1>7, <2>2, <3>1, FieldReaders
  <2>3. CASE i = 3
    <3>1. Reads(ReadInt64(c), r.contentLength, Len(C))
      BY <1>1, <1>2, <1>5, <2>3, IntReads
    <3> QED
      BY <1>5, <1>6, <1>7, <2>3, <3>1, FieldReaders
  <2> QED
    BY <2>1, <2>2, <2>3
<1>9. ResponseBytes(r) = (A \o B) \o C
  BY <1>2 DEF ResponseBytes
<1>10. PICK u : u = ResponseBytes(r) /\ Joined(u, q) /\ Prefix(u, b)
  BY <1>5, <1>9
<1>11. ReadFields(kinds, b) = Value(vals, Len(u))
  <2>1. PICK n \in Nat : Len(kinds) = n /\ Len(vals) = n /\ Len(q) = n
    BY <1>5, <1>6, <1>7
  <2> QED
    BY <1>7, <1>8, <1>10, <2>1, PartsRead
<1> QED
  BY <1>10, <1>11 DEF kinds, vals

\* What WriteRequest makes of the host and of the length.
HostOf(r) ==
    IF r.host = <<>> /\ Entries(r.header, Host) # {} THEN First(r.header, Host) ELSE r.host

LengthOf(r) ==
    IF r.contentLength < 0 THEN GivenLength(r.header, -1) ELSE r.contentLength

HostBytes(r) == IF HostOf(r) = <<>> THEN NullBytes ELSE StringBytes(HostOf(r))

HostValue(r) == IF HostOf(r) = <<>> THEN Null ELSE HostOf(r)

\* They are short enough to be written, and a number of a word.
LEMMA HostLength ==
    ASSUME NEW r \in RequestType, Short(r.header)
    PROVE  HostOf(r) \in Str /\ LengthOf(r) \in Int64
<1>1. r.host \in Str /\ r.header \in HeaderType /\ r.contentLength \in Int64
  BY DEF RequestType
<1>2. ASSUME r.host = <<>> /\ Entries(r.header, Host) # {} PROVE HostOf(r) \in Str
  <2>1. PICK i \in 1..Len(r.header) : /\ r.header[i].values # <<>>
                                      /\ First(r.header, Host) = r.header[i].values[1]
    BY <1>1, <1>2, FirstOf, Zenon
  <2>2. PICK ss \in Seq(Str) : ss = r.header[i].values
    BY <1>1, ShortValues
  <2>3. ss # <<>> /\ HostOf(r) = ss[1]
    BY <1>2, <2>1, <2>2 DEF HostOf
  <2>4. 1 \in 1..Len(ss)
    BY <2>2, <2>3, EmptySeq
  <2> QED
    BY <2>2, <2>3, <2>4, ElementOfSeq
<1>3. ASSUME ~(r.host = <<>> /\ Entries(r.header, Host) # {}) PROVE HostOf(r) \in Str
  BY <1>1, <1>3 DEF HostOf
<1>4. LengthOf(r) \in Int64
  <2>1. -1 \in Int64
    BY Int64Is
  <2>2. GivenLength(r.header, -1) \in Int64
    BY <1>1, <2>1, SomeLength
  <2> QED
    BY <1>1, <2>2 DEF LengthOf
<1> QED
  BY <1>2, <1>3, <1>4

\* ReadString, at the host: no host is NULL.
LEMMA HostReads ==
    ASSUME NEW r \in RequestType, Short(r.header), NEW c \in Seq(Nat), Prefix(HostBytes(r), c)
    PROVE  Reads(ReadString(c), HostValue(r), Len(HostBytes(r)))
<1>1. CASE HostOf(r) = <<>>
  BY <1>1, NullReads DEF HostBytes, HostValue
<1>2. CASE HostOf(r) # <<>>
  BY <1>2, HostLength, StringReads DEF HostBytes, HostValue
<1> QED
  BY <1>1, <1>2

\* The bytes of a request, in parts.
LEMMA RequestParts ==
    ASSUME NEW r \in RequestType, Short(r.header)
    PROVE  \E q : /\ Joined(RequestBytes(r), q) /\ Len(q) = 7
                  /\ q[1] = StringBytes(r.method)
                  /\ q[2] = StringBytes(r.scheme)
                  /\ q[3] = LenBytes(0) \o StringBytes(r.path)
                  /\ q[4] = MapBytes(r.query)
                  /\ q[5] = MapBytes(r.header)
                  /\ q[6] = HostBytes(r)
                  /\ q[7] = IntBytes(LengthOf(r))
<1>1. /\ r.method \in Seq(Nat) /\ r.scheme \in Seq(Nat) /\ r.path \in Seq(Nat)
      /\ r.query \in HeaderType /\ r.header \in HeaderType
      /\ HostOf(r) \in Seq(Nat) /\ LengthOf(r) \in Int64
  BY HostLength DEF RequestType, Str
<1>2. HostBytes(r) \in Seq(Nat)
  BY <1>1, StringType, NullType DEF HostBytes
<1>3. PICK Z \in Seq(Nat), P \in Seq(Nat) : Z = LenBytes(0) /\ P = StringBytes(r.path)
  <2>1. 0 \in Nat /\ 0 < MaxLen
    BY MaxLenBig
  <2> QED
    BY <1>1, <2>1, LenType, StringType
<1>4. Z \o P \in Seq(Nat)
  BY Concat
<1>5. RequestBytes(r) = StringBytes(r.method) \o StringBytes(r.scheme) \o (Z \o P)
                        \o MapBytes(r.query) \o MapBytes(r.header)
                        \o HostBytes(r) \o IntBytes(LengthOf(r))
  <2>1. RequestBytes(r) = StringBytes(r.method) \o StringBytes(r.scheme)
                          \o LenBytes(0) \o StringBytes(r.path)
                          \o MapBytes(r.query) \o MapBytes(r.header)
                          \o HostBytes(r) \o IntBytes(LengthOf(r))
    BY Zenon DEF RequestBytes, HostBytes, HostOf, LengthOf
  <2>2. PICK X \in Seq(Nat) : X = StringBytes(r.method) \o StringBytes(r.scheme)
    BY <1>1, StringType, Concat
  <2>3. (X \o Z) \o P = X \o (Z \o P)
    BY Regroup
  <2> QED
    BY <1>3, <2>1, <2>2, <2>3, Zenon
<1>6. PICK A \in Seq(Nat), B \in Seq(Nat), C \in Seq(Nat), D \in Seq(Nat), E \in Seq(Nat),
           F \in Seq(Nat), G \in Seq(Nat) :
         /\ A = StringBytes(r.method) /\ B = StringBytes(r.scheme) /\ C = Z \o P
         /\ D = MapBytes(r.query) /\ E = MapBytes(r.header) /\ F = HostBytes(r)
         /\ G = IntBytes(LengthOf(r))
  BY <1>1, <1>2, <1>4, StringType, MapType, IntType
<1>7. PICK q1 : Joined(A, q1) /\ Len(q1) = 1 /\ q1[1] = A
  <2>1. Joined(A, <<A>>) /\ Len(<<A>>) = 1 /\ <<A>>[1] = A
    BY JoinedOne
  <2> QED
    BY <2>1
<1>8. PICK q2 : /\ Joined(A \o B, q2) /\ Len(q2) = 2
               /\ q2[1] = A /\ q2[2] = B
  <2>1. PICK s : Joined(A \o B, s) /\ And(s, q1, B)
    BY <1>7, PartAdded
  <2>2. /\ Len(s) = 2
        /\ s[1] = A /\ s[2] = B
    BY <1>7, <2>1 DEF And
  <2> QED
    BY <2>1, <2>2
<1>9. PICK q3 : /\ Joined(A \o B \o C, q3) /\ Len(q3) = 3
               /\ q3[1] = A /\ q3[2] = B /\ q3[3] = C
  <2>1. PICK s : Joined(A \o B \o C, s) /\ And(s, q2, C)
    BY <1>8, PartAdded
  <2>2. /\ Len(s) = 3
        /\ s[1] = A /\ s[2] = B /\ s[3] = C
    BY <1>8, <2>1 DEF And
  <2> QED
    BY <2>1, <2>2
<1>10. PICK q4 : /\ Joined(A \o B \o C \o D, q4) /\ Len(q4) = 4
               /\ q4[1] = A /\ q4[2] = B /\ q4[3] = C /\ q4[4] = D
  <2>1. PICK s : Joined(A \o B \o C \o D, s) /\ And(s, q3, D)
    BY <1>9, PartAdded
  <2>2. /\ Len(s) = 4
        /\ s[1] = A /\ s[2] = B /\ s[3] = C /\ s[4] = D
    BY <1>9, <2>1 DEF And
  <2> QED
    BY <2>1, <2>2
<1>11. PICK q5 : /\ Joined(A \o B \o C \o D \o E, q5) /\ Len(q5) = 5
               /\ q5[1] = A /\ q5[2] = B /\ q5[3] = C /\ q5[4] = D /\ q5[5] = E
  <2>1. PICK s : Joined(A \o B \o C \o D \o E, s) /\ And(s, q4, E)
    BY <1>10, PartAdded
  <2>2. /\ Len(s) = 5
        /\ s[1] = A /\ s[2] = B /\ s[3] = C /\ s[4] = D /\ s[5] = E
    BY <1>10, <2>1 DEF And
  <2> QED
    BY <2>1, <2>2
<1>12. PICK q6 : /\ Joined(A \o B \o C \o D \o E \o F, q6) /\ Len(q6) = 6
               /\ q6[1] = A /\ q6[2] = B /\ q6[3] = C /\ q6[4] = D /\ q6[5] = E /\ q6[6] = F
  <2>1. PICK s : Joined(A \o B \o C \o D \o E \o F, s) /\ And(s, q5, F)
    BY <1>11, PartAdded
  <2>2. /\ Len(s) = 6
        /\ s[1] = A /\ s[2] = B /\ s[3] = C /\ s[4] = D /\ s[5] = E /\ s[6] = F
    BY <1>11, <2>1 DEF And
  <2> QED
    BY <2>1, <2>2
<1>13. PICK q7 : /\ Joined(A \o B \o C \o D \o E \o F \o G, q7) /\ Len(q7) = 7
               /\ q7[1] = A /\ q7[2] = B /\ q7[3] = C /\ q7[4] = D /\ q7[5] = E /\ q7[6] = F /\ q7[7] = G
  <2>1. PICK s : Joined(A \o B \o C \o D \o E \o F \o G, s) /\ And(s, q6, G)
    BY <1>12, PartAdded
  <2>2. /\ Len(s) = 7
        /\ s[1] = A /\ s[2] = B /\ s[3] = C /\ s[4] = D /\ s[5] = E /\ s[6] = F /\ s[7] = G
    BY <1>12, <2>1 DEF And
  <2> QED
    BY <2>1, <2>2
<1>14. RequestBytes(r) = A \o B \o C \o D \o E \o F \o G
  BY <1>5, <1>6, Zenon
<1> QED
  BY <1>3, <1>6, <1>13, <1>14

\* What is read from the bytes of a request.
LEMMA RequestRead ==
    ASSUME NEW r \in RequestType, Short(r.header), NEW b \in Seq(Nat), Prefix(RequestBytes(r), b)
    PROVE  ReadFields(<<"string", "string", "route", "map", "map", "string", "int">>, b)
           = Value(<<r.method, r.scheme, r.path, r.query, r.header, HostValue(r), LengthOf(r)>>,
                   Len(RequestBytes(r)))
<1>1. /\ r.method \in Str /\ r.scheme \in Str /\ r.path \in Str
      /\ r.query \in HeaderType /\ Short(r.query) /\ r.header \in HeaderType
      /\ LengthOf(r) \in Int64
  BY HostLength DEF RequestType
<1>2. PICK u, q : /\ u = RequestBytes(r) /\ Joined(u, q) /\ Len(q) = 7
                  /\ q[1] = StringBytes(r.method)
                  /\ q[2] = StringBytes(r.scheme)
                  /\ q[3] = LenBytes(0) \o StringBytes(r.path)
                  /\ q[4] = MapBytes(r.query)
                  /\ q[5] = MapBytes(r.header)
                  /\ q[6] = HostBytes(r)
                  /\ q[7] = IntBytes(LengthOf(r))
  BY RequestParts
<1> DEFINE kinds == <<"string", "string", "route", "map", "map", "string", "int">>
           V == {r.method, r.scheme, r.path, r.query, r.header, HostValue(r), LengthOf(r)}
           vals == <<r.method, r.scheme, r.path, r.query, r.header, HostValue(r), LengthOf(r)>>
<1>3. /\ Len(kinds) = 7 /\ kinds[1] = "string" /\ kinds[2] = "string" /\ kinds[3] = "route"
      /\ kinds[4] = "map" /\ kinds[5] = "map" /\ kinds[6] = "string" /\ kinds[7] = "int"
  OBVIOUS
<1>4. /\ vals \in Seq(V) /\ Len(vals) = 7
      /\ vals[1] = r.method /\ vals[2] = r.scheme /\ vals[3] = r.path /\ vals[4] = r.query
      /\ vals[5] = r.header /\ vals[6] = HostValue(r) /\ vals[7] = LengthOf(r)
  OBVIOUS
<1> HIDE DEF kinds, vals, V
<1>5. EachReads(kinds, q, vals)
  <2> SUFFICES ASSUME NEW i \in 1..7, NEW c \in Seq(Nat), Prefix(q[i], c)
               PROVE  Reads(ReadField(kinds[i], c), vals[i], Len(q[i]))
    BY <1>2 DEF EachReads
  <2>1. CASE i = 1
    <3>1. Reads(ReadString(c), r.method, Len(q[1]))
      BY <1>1, <1>2, <2>1, StringReads
    <3> QED
      BY <1>3, <1>4, <2>1, <3>1, FieldReaders
  <2>2. CASE i = 2
    <3>1. Reads(ReadString(c), r.scheme, Len(q[2]))
      BY <1>1, <1>2, <2>2, StringReads
    <3> QED
      BY <1>3, <1>4, <2>2, <3>1, FieldReaders
  <2>3. CASE i = 3
    <3>1. Reads(ReadRoute(c), r.path, Len(q[3]))
      BY <1>1, <1>2, <2>3, RouteRead
    <3> QED
      BY <1>3, <1>4, <2>3, <3>1, FieldReaders
  <2>4. CASE i = 4
    <3>1. Reads(ReadMap(c), r.query, Len(q[4]))
      BY <1>1, <1>2, <2>4, MapRead
    <3> QED
      BY <1>3, <1>4, <2>4, <3>1, FieldReaders
  <2>5. CASE i = 5
    <3>1. Reads(ReadMap(c), r.header, Len(q[5]))
      BY <1>1, <1>2, <2>5, MapRead
    <3> QED
      BY <1>3, <1>4, <2>5, <3>1, FieldReaders
  <2>6. CASE i = 6
    <3>1. Reads(ReadString(c), HostValue(r), Len(q[6]))
      BY <1>2, <2>6, HostReads
    <3> QED
      BY <1>3, <1>4, <2>6, <3>1, FieldReaders
  <2>7. CASE i = 7
    <3>1. Reads(ReadInt64(c), LengthOf(r), Len(q[7]))
      BY <1>1, <1>2, <2>7, IntReads
    <3> QED
      BY <1>3, <1>4, <2>7, <3>1, FieldReaders
  <2> QED
    BY <2>1, <2>2, <2>3, <2>4, <2>5, <2>6, <2>7
<1>6. ReadFields(kinds, b) = Value(vals, Len(u))
  <2>1. PICK n \in Nat : Len(kinds) = n /\ Len(vals) = n /\ Len(q) = n
    BY <1>2, <1>3, <1>4
  <2>2. Joined(u, q) /\ Prefix(u, b)
    BY <1>2
  <2> QED
    BY <1>4, <1>5, <2>1, <2>2, PartsRead
<1> QED
  BY <1>2, <1>6 DEF kinds, vals

----------------------------------------------------------------------------
(* What the server and the client make of the fields of a record.          *)

\* WithLength sets Content-Length and nothing else.
LEMMA LengthSet ==
    ASSUME NEW h, NEW n
    PROVE  /\ DOMAIN WithLength(h, n) = DOMAIN h \cup {ContentLength}
           /\ WithLength(h, n)[ContentLength] = <<FormatInt(n)>>
           /\ \A k \in DOMAIN h \ {ContentLength} : WithLength(h, n)[k] = h[k]
BY DEF WithLength

\* A header with the number n set is as SameHeader says.
LEMMA HeaderSet ==
    ASSUME NEW g, NEW n \in Int, n >= 0
    PROVE  SameHeader(WithLength(g, n), g, n)
<1> DEFINE h == WithLength(g, n)
           set == {k \in {ContentLength} : n >= 0}
<1>1. set = {ContentLength}
  OBVIOUS
<1>2. /\ DOMAIN h = DOMAIN g \cup {ContentLength}
      /\ h[ContentLength] = <<FormatInt(n)>>
      /\ \A k \in DOMAIN g \ {ContentLength} : h[k] = g[k]
  BY LengthSet
<1> HIDE DEF h, set
<1>3. /\ DOMAIN h = DOMAIN g \cup set
      /\ \A k \in set : h[k] = <<FormatInt(n)>>
      /\ \A k \in DOMAIN g \ set : h[k] = g[k]
  BY <1>1, <1>2
<1> QED
  BY <1>3, Zenon DEF SameHeader, h, set

\* So is one that is left as it was.
LEMMA HeaderLeft ==
    ASSUME NEW g, NEW n \in Int, ~(n >= 0)
    PROVE  SameHeader(g, g, n)
<1> DEFINE set == {k \in {ContentLength} : n >= 0}
<1>1. set = {}
  OBVIOUS
<1> HIDE DEF set
<1>2. /\ DOMAIN g = DOMAIN g \cup set
      /\ \A k \in set : g[k] = <<FormatInt(n)>>
      /\ \A k \in DOMAIN g \ set : g[k] = g[k]
  BY <1>1
<1> QED
  BY <1>2, Zenon DEF SameHeader, set

\* ReadRequest makes of the bytes of WriteRequest the request that the client
\* had, whatever its maps hold and whatever bytes follow, if no string of its
\* header is too long to be written.
THEOREM RequestRoundTrip ==
    ASSUME NEW r \in RequestType, Short(r.header), NEW b \in Seq(Nat), Prefix(RequestBytes(r), b)
    PROVE  /\ ReadRequest(b).ok /\ ReadRequest(b).took = Len(RequestBytes(r))
           /\ SameRequest(ReadRequest(b).value, r)
<1>1. r.header \in HeaderType /\ r.contentLength \in Int64
  BY DEF RequestType
<1> DEFINE hd == IF LengthOf(r) >= 0 THEN WithLength(AsMap(r.header), LengthOf(r))
                 ELSE AsMap(r.header)
<1>2. PICK f : /\ f = ReadFields(<<"string", "string", "route", "map", "map", "string", "int">>, b)
               /\ f.ok /\ f.took = Len(RequestBytes(r))
               /\ f.value = <<r.method, r.scheme, r.path, r.query, r.header, HostValue(r), LengthOf(r)>>
  <2>1. PICK f, x, t :
           /\ f = ReadFields(<<"string", "string", "route", "map", "map", "string", "int">>, b)
           /\ x = <<r.method, r.scheme, r.path, r.query, r.header, HostValue(r), LengthOf(r)>>
           /\ t = Len(RequestBytes(r)) /\ f = Value(x, t)
    BY RequestRead, Zenon
  <2>2. f.ok /\ f.value = x /\ f.took = t
    BY <2>1 DEF Value
  <2> QED
    BY <2>1, <2>2, Zenon
<1>3. /\ f.value[1] = r.method /\ f.value[2] = r.scheme /\ f.value[3] = r.path
      /\ f.value[4] = r.query /\ f.value[5] = r.header /\ f.value[6] = HostValue(r)
      /\ f.value[7] = LengthOf(r)
  BY <1>2
<1>4. ReadRequest(b) = Value([method |-> r.method, scheme |-> r.scheme, path |-> r.path,
                              query |-> AsMap(r.query), header |-> hd,
                              host |-> IF HostValue(r) = Null THEN <<>> ELSE HostValue(r),
                              contentLength |-> LengthOf(r)], f.took)
  BY <1>2, <1>3 DEF ReadRequest, Then
<1> HIDE DEF hd
<1>5. PICK v : /\ v = ReadRequest(b).value
               /\ v.method = r.method /\ v.scheme = r.scheme /\ v.path = r.path
               /\ v.query = AsMap(r.query) /\ v.header = hd
               /\ v.host = (IF HostValue(r) = Null THEN <<>> ELSE HostValue(r))
               /\ v.contentLength = LengthOf(r)
  BY <1>4 DEF Value
<1>6. ReadRequest(b).ok /\ ReadRequest(b).took = Len(RequestBytes(r))
  BY <1>2, <1>4 DEF Value
<1>7. v.host = HostOf(r)
  <2>1. HostOf(r) \in Seq(Nat)
    BY HostLength DEF Str
  <2>2. HostOf(r) # Null
    BY <2>1, NotNull
  <2> QED
    BY <1>5, <2>2 DEF HostValue
<1>8. v.contentLength = IF r.contentLength >= 0 THEN r.contentLength ELSE GivenLength(r.header, -1)
  <2>1. r.contentLength \in Int
    BY <1>1, Int64Is
  <2> QED
    BY <1>5, <2>1 DEF LengthOf
<1>9. SameHeader(v.header, AsMap(r.header), v.contentLength)
  <2>1. PICK n \in Int : n = LengthOf(r)
    BY HostLength, Int64Is
  <2>2. PICK g : g = AsMap(r.header)
    OBVIOUS
  <2>3. SameHeader(hd, g, n)
    <3>1. CASE n >= 0
      <4>1. hd = WithLength(g, n)
        BY <2>1, <2>2, <3>1 DEF hd
      <4> QED
        BY <3>1, <4>1, HeaderSet
    <3>2. CASE ~(n >= 0)
      <4>1. hd = g
        BY <2>1, <2>2, <3>2 DEF hd
      <4> QED
        BY <3>2, <4>1, HeaderLeft
    <3> QED
      BY <3>1, <3>2
  <2> QED
    BY <1>5, <2>1, <2>2, <2>3
<1>10. SameRequest(v, r)
  BY <1>5, <1>7, <1>8, <1>9 DEF SameRequest, HostOf
<1> QED
  BY <1>5, <1>6, <1>10

\* ProxyResponse makes of the bytes of WriteResponse the status and the header
\* that the handler gave, whatever bytes follow, if no string of the header is
\* too long to be written.
THEOREM ResponseRoundTrip ==
    ASSUME NEW r \in ResponseType, Short(r.header), NEW b \in Seq(Nat), Prefix(ResponseBytes(r), b)
    PROVE  /\ ProxyResponse(b).ok /\ ProxyResponse(b).took = Len(ResponseBytes(r))
           /\ SameResponse(ProxyResponse(b).value, r)
<1>1. r.header \in HeaderType /\ r.contentLength \in Int
  BY Int64Is DEF ResponseType
<1> DEFINE none == Entries(r.header, ContentLength) = {}
           hd == IF r.contentLength >= 0 /\ none
                 THEN WithLength(AsMap(r.header), r.contentLength) ELSE AsMap(r.header)
<1>2. PICK f : /\ f = ReadFields(<<"len", "map", "int">>, b)
               /\ f.ok /\ f.took = Len(ResponseBytes(r))
               /\ f.value = <<r.code, r.header, r.contentLength>>
  <2>1. PICK f, x, t : /\ f = ReadFields(<<"len", "map", "int">>, b)
                       /\ x = <<r.code, r.header, r.contentLength>>
                       /\ t = Len(ResponseBytes(r)) /\ f = Value(x, t)
    BY ResponseRead, Zenon
  <2>2. f.ok /\ f.value = x /\ f.took = t
    BY <2>1 DEF Value
  <2> QED
    BY <2>1, <2>2, Zenon
<1>3. f.value[1] = r.code /\ f.value[2] = r.header /\ f.value[3] = r.contentLength
  BY <1>2
<1>4. ProxyResponse(b) = Value([code |-> r.code, header |-> hd], f.took)
  BY <1>2, <1>3 DEF ProxyResponse, Then
<1> HIDE DEF hd
<1>5. PICK v : v = ProxyResponse(b).value /\ v.code = r.code /\ v.header = hd
  BY <1>4 DEF Value
<1>6. ProxyResponse(b).ok /\ ProxyResponse(b).took = Len(ResponseBytes(r))
  BY <1>2, <1>4 DEF Value
<1> HIDE DEF none
<1>7. PICK n \in Int : n = IF none THEN r.contentLength ELSE -1
  BY <1>1
<1>8. SameHeader(v.header, AsMap(r.header), n)
  <2>1. PICK g : g = AsMap(r.header)
    OBVIOUS
  <2>2. SameHeader(hd, g, n)
    <3>1. CASE n >= 0
      <4>1. hd = WithLength(g, n)
        BY <1>1, <1>7, <2>1, <3>1 DEF hd
      <4> QED
        BY <3>1, <4>1, HeaderSet
    <3>2. CASE ~(n >= 0)
      <4>1. hd = g
        BY <1>1, <1>7, <2>1, <3>2 DEF hd
      <4> QED
        BY <3>2, <4>1, HeaderLeft
    <3> QED
      BY <3>1, <3>2
  <2> QED
    BY <1>5, <2>1, <2>2
<1>9. SameResponse(v, r)
  BY <1>5, <1>7, <1>8 DEF SameResponse, none
<1> QED
  BY <1>5, <1>6, <1>9

\* A record and what follows it in a frame: x is the type of the record and u
\* are its bytes.
LEMMA AfterRecord ==
    ASSUME NEW fields \in Seq(FieldType), fields # <<>>,
           NEW p, NEW q, Joined(p, q), Parts(q, fields),
           \A j \in 1..Len(fields) : fields[j].kind = "body" => j = Len(fields),
           \A j \in 1..Len(fields) : fields[j].kind \notin Basic => j = 1,
           NEW x \in Nat, NEW u \in Seq(Nat), FieldBytes(fields[1]) = <<x>> \o u
    PROVE  /\ Drop(p, 1) \in Seq(Nat) /\ Prefix(u, Drop(p, 1))
           /\ ReadsAll(Tail(fields), Drop(Drop(p, 1), Len(u)))
<1>1. p \in Seq(Nat) /\ q \in Seq(Seq(Nat))
  BY DEF Joined
<1>2. PICK n \in Nat : Len(fields) = n + 1 /\ Len(q) = n + 1
  <2>1. Len(fields) \in Nat /\ Len(fields) # 0
    BY LenProperties, EmptySeq
  <2>2. Len(fields) - 1 \in Nat /\ Len(fields) = (Len(fields) - 1) + 1
    BY <2>1
  <2> QED
    BY <2>2 DEF Parts
<1>3. q[1] = <<x>> \o u
  <2>1. 1 \in 1..Len(fields)
    BY <1>2
  <2> QED
    BY <2>1 DEF Parts
<1>4. q # <<>>
  <2> SUFFICES ASSUME q = <<>> PROVE FALSE
    OBVIOUS
  <2>1. Len(q) = 0
    OBVIOUS
  <2> QED
    BY <1>2, <2>1
<1>5. Prefix(q[1], p) /\ Joined(Drop(p, Len(q[1])), Tail(q))
  BY <1>4, JoinedFirst
<1>6. PICK w \in Seq(Nat) : w = <<x>> /\ Len(w) = 1
  <2>1. <<x>> \in Seq(Nat) /\ Len(<<x>>) = 1
    OBVIOUS
  <2> QED
    BY <2>1
<1>7. /\ Len(w) <= Len(p) /\ Drop(p, 1) \in Seq(Nat) /\ Prefix(u, Drop(p, 1))
  BY <1>1, <1>3, <1>5, <1>6, PrefixSplit, ZenonT(40)
<1>8. PICK k \in Nat, l \in Nat : k = Len(u) /\ l = Len(p) /\ Len(q[1]) = 1 + k /\ 1 + k <= l
  <2>1. PICK k \in Nat, l \in Nat : k = Len(u) /\ l = Len(p)
    BY <1>1, LenProperties
  <2>2. Len(w \o u) = 1 + k
    BY <1>6, <2>1, Concat
  <2>3. Len(q[1]) = 1 + k
    BY <1>3, <1>6, <2>2
  <2>4. 1 + k <= l
    BY <1>5, <2>1, <2>3 DEF Prefix
  <2> QED
    BY <2>1, <2>3, <2>4
<1>9. Drop(Drop(p, 1), Len(u)) = Drop(p, Len(q[1]))
  <2>1. PICK i \in Nat : i = 1 /\ i + k <= Len(p)
    BY <1>8
  <2>2. Drop(Drop(p, i), k) = Drop(p, i + k)
    BY <1>1, <2>1, DropTwice
  <2> QED
    BY <1>8, <2>1, <2>2
<1> DEFINE T == Tail(fields)
           R == Tail(q)
<1>10. T \in Seq(FieldType) /\ Len(T) = n /\ \A j \in 1..n : T[j] = fields[j + 1]
  <2> HIDE DEF T
  <2>1. T \in Seq(FieldType) /\ Len(T) = Len(fields) - 1
        /\ \A j \in 1..(Len(fields) - 1) : T[j] = fields[j + 1]
    BY HeadTailProperties DEF T
  <2>2. Len(fields) - 1 = n
    BY <1>2
  <2> QED
    BY <2>1, <2>2
<1>11. Len(R) = n /\ \A j \in 1..n : R[j] = q[j + 1]
  <2> HIDE DEF R
  <2>1. Len(R) = Len(q) - 1 /\ \A j \in 1..(Len(q) - 1) : R[j] = q[j + 1]
    BY <1>1, <1>4, HeadTailProperties DEF R
  <2>2. Len(q) - 1 = n
    BY <1>2
  <2> QED
    BY <2>1, <2>2
<1> HIDE DEF T, R
<1>12. \A j \in 1..n : j + 1 \in 1..Len(fields) /\ j + 1 # 1
  BY <1>2
<1>13. Parts(R, T)
  <2>1. \A j \in 1..n : R[j] = FieldBytes(T[j])
    BY <1>10, <1>11, <1>12 DEF Parts
  <2> QED
    BY <1>10, <1>11, <2>1 DEF Parts
<1>14. \A j \in 1..Len(T) : T[j].kind \in Basic
  <2> SUFFICES ASSUME NEW j \in 1..n PROVE T[j].kind \in Basic
    BY <1>10
  <2>1. fields[j + 1].kind \in Basic
    BY <1>12
  <2> QED
    BY <1>10, <2>1
<1>15. \A j \in 1..Len(T) : T[j].kind = "body" => j = Len(T)
  <2> SUFFICES ASSUME NEW j \in 1..n, T[j].kind = "body" PROVE j = n
    BY <1>10
  <2>1. j + 1 = Len(fields)
    BY <1>10, <1>12
  <2> QED
    BY <1>2, <2>1
<1>16. Joined(Drop(p, Len(q[1])), R)
  BY <1>5 DEF R
<1>17. ReadsAll(T, Drop(p, Len(q[1])))
  BY <1>10, <1>13, <1>14, <1>15, <1>16, AllRead
<1> QED
  BY <1>7, <1>9, <1>17 DEF T

\* The server has the request that the client was given, and the client the
\* response that the handler made, and the body begins where it should.
THEOREM RecordsIntact == Spec => []RecordIntact
<1>1. WireInv => RecordIntact
  <2> SUFFICES ASSUME WireInv, NEW i \in Received, sent[i].fields # <<>>
               PROVE  LET f == Head(sent[i].fields)
                          b == Drop(Payload(got[i]), 1)
                      IN  /\ f.kind = "request" /\ Short(f.value.header) =>
                                Intact(ReadRequest(b), b, Tail(sent[i].fields),
                                       LAMBDA q : SameRequest(q, f.value))
                          /\ f.kind = "response" /\ Short(f.value.header) =>
                                Intact(ProxyResponse(b), b, Tail(sent[i].fields),
                                       LAMBDA q : SameResponse(q, f.value))
    BY Zenon DEF RecordIntact
  <2>1. PICK g, m : g = got[i] /\ m = sent[i] /\ Carries(g, m)
    BY ReceivedFrame
  <2>2. PICK q : Joined(Payload(g), q) /\ Parts(q, m.fields)
    BY <2>1 DEF Carries
  <2>3. PICK fields \in Seq(FieldType) : fields = m.fields /\ fields # <<>>
    BY <2>1, Carried
  <2>4. /\ \A j \in 1..Len(fields) : fields[j].kind = "body" => j = Len(fields)
        /\ \A j \in 1..Len(fields) : fields[j].kind \notin Basic => j = 1
    BY <2>1, <2>3 DEF Carries, Sound
  <2>5. PICK f \in FieldType : f = fields[1] /\ f = Head(fields)
    BY <2>3, HeadTailProperties
  <2>6. PICK p, b : p = Payload(g) /\ b = Drop(p, 1) /\ Joined(p, q) /\ Parts(q, fields)
    BY <2>2, <2>3
  <2>7. ASSUME f.kind = "request", Short(f.value.header)
        PROVE  Intact(ReadRequest(b), b, Tail(fields), LAMBDA v : SameRequest(v, f.value))
    <3>1. f.value \in RequestType /\ FieldBytes(f) = <<3>> \o RequestBytes(f.value)
      BY <2>7, FieldKinds
    <3>2. PICK u \in Seq(Nat) : u = RequestBytes(f.value)
      BY <3>1, RequestBytesType
    <3>3. /\ b \in Seq(Nat) /\ Prefix(u, b) /\ ReadsAll(Tail(fields), Drop(b, Len(u)))
      <4>1. PICK x \in Nat : x = 3
        OBVIOUS
      <4>2. FieldBytes(fields[1]) = <<x>> \o u
        BY <2>5, <3>1, <3>2, <4>1
      <4> QED
        BY <2>3, <2>4, <2>6, <4>2, AfterRecord
    <3>4. /\ ReadRequest(b).ok /\ ReadRequest(b).took = Len(u)
          /\ SameRequest(ReadRequest(b).value, f.value)
      BY <2>7, <3>1, <3>2, <3>3, RequestRoundTrip
    <3> QED
      BY <3>3, <3>4 DEF Intact
  <2>8. ASSUME f.kind = "response", Short(f.value.header)
        PROVE  Intact(ProxyResponse(b), b, Tail(fields), LAMBDA v : SameResponse(v, f.value))
    <3>1. f.value \in ResponseType /\ FieldBytes(f) = <<4>> \o ResponseBytes(f.value)
      BY <2>8, FieldKinds
    <3>2. PICK u \in Seq(Nat) : u = ResponseBytes(f.value)
      BY <3>1, ResponseBytesType
    <3>3. /\ b \in Seq(Nat) /\ Prefix(u, b) /\ ReadsAll(Tail(fields), Drop(b, Len(u)))
      <4>1. PICK x \in Nat : x = 4
        OBVIOUS
      <4>2. FieldBytes(fields[1]) = <<x>> \o u
        BY <2>5, <3>1, <3>2, <4>1
      <4> QED
        BY <2>3, <2>4, <2>6, <4>2, AfterRecord
    <3>4. /\ ProxyResponse(b).ok /\ ProxyResponse(b).took = Len(u)
          /\ SameResponse(ProxyResponse(b).value, f.value)
      BY <2>8, <3>1, <3>2, <3>3, ResponseRoundTrip
    <3> QED
      BY <3>3, <3>4 DEF Intact
  <2>9. Head(sent[i].fields) = f /\ Drop(Payload(got[i]), 1) = b /\ Tail(sent[i].fields) = Tail(fields)
    BY <2>1, <2>3, <2>5, <2>6
  <2> QED
    BY <2>7, <2>8, <2>9 DEF Intact
<1> QED
  BY <1>1, WireInductive, PTL
=============================================================================
