---------------------------- MODULE FrameProofs ----------------------------
(***************************************************************************)
(* What the setters of a frame header promise to its getters, for every    *)
(* header, Conn ID and size; and that the parser reads the lengths,        *)
(* strings and numbers that FrameData writes, for every width of a word.   *)
(***************************************************************************)
EXTENDS FrameHeader, FrameCodec, SequenceTheorems, WellFoundedInduction, TLAPS

\* A sequence of k numbers that begins with the four bytes of a header.
Frames(k) == {h \in [1..k -> Nat] : \A i \in 1..FrameHeaderSize : h[i] \in 0..255}

\* The bits of a byte: Flow, Body, Head, and the five bits below them.
IsByte(b, x, y, z, r) == b = 128 * x + 64 * y + 32 * z + r

----------------------------------------------------------------------------
(* Flags.                                                                  *)

\* Every byte has these bits.
LEMMA Bits ==
    ASSUME NEW b \in 0..255
    PROVE  \E x, y, z \in 0..1, r \in 0..31 : IsByte(b, x, y, z, r)
<1>1. PICK x \in 0..1, c \in 0..127 : b = 128 * x + c
  <2>1. b \div 128 \in 0..1 /\ b % 128 \in 0..127
    OBVIOUS
  <2>2. b = 128 * (b \div 128) + (b % 128)
    OBVIOUS
  <2> QED
    BY <2>1, <2>2
<1>2. PICK y \in 0..1, d \in 0..63 : c = 64 * y + d
  <2>1. c \div 64 \in 0..1 /\ c % 64 \in 0..63
    OBVIOUS
  <2>2. c = 64 * (c \div 64) + (c % 64)
    OBVIOUS
  <2> QED
    BY <2>1, <2>2
<1>3. PICK z \in 0..1, r \in 0..31 : d = 32 * z + r
  <2>1. d \div 32 \in 0..1 /\ d % 32 \in 0..31
    OBVIOUS
  <2>2. d = 32 * (d \div 32) + (d % 32)
    OBVIOUS
  <2> QED
    BY <2>1, <2>2
<1>4. IsByte(b, x, y, z, r)
  BY <1>1, <1>2, <1>3 DEF IsByte
<1> QED
  BY <1>4

\* What Has, Masked and Unmasked see of them.
Shows(b, x, y, z, r) ==
    /\ Has(b, "Flow") <=> x = 1
    /\ Has(b, "Body") <=> y = 1
    /\ Has(b, "Head") <=> z = 1
    /\ Unmasked(b) = r
    /\ Masked(b) = b - r
    /\ b \in 0..255

LEMMA BitsOf ==
    ASSUME NEW x \in 0..1, NEW y \in 0..1, NEW z \in 0..1, NEW r \in 0..31,
           NEW b \in Nat, IsByte(b, x, y, z, r)
    PROVE  Shows(b, x, y, z, r)
BY SMTT(40) DEF Shows, Has, Bit, Unmasked, Masked, IsByte

\* The byte that Control makes has the flags' bits and no other.
LEMMA ControlBits ==
    ASSUME NEW fs \in SUBSET Flag
    PROVE  \E x, y, z \in 0..1 :
              /\ IsByte(Control(fs), x, y, z, 0)
              /\ x = 1 <=> "Flow" \in fs
              /\ y = 1 <=> "Body" \in fs
              /\ z = 1 <=> "Head" \in fs
<1> DEFINE x == IF "Flow" \in fs THEN 1 ELSE 0
           y == IF "Body" \in fs THEN 1 ELSE 0
           z == IF "Head" \in fs THEN 1 ELSE 0
<1>1. IsByte(Control(fs), x, y, z, 0)
  BY DEF Control, IsByte
<1> QED
  BY <1>1

\* FrameControl is the set of the flags whose bits are set.
LEMMA FlagsOf ==
    ASSUME NEW h, NEW x \in 0..1, NEW y \in 0..1, NEW z \in 0..1, NEW r \in 0..31,
           h[3] \in Nat, IsByte(h[3], x, y, z, r)
    PROVE  /\ "Flow" \in FrameControl(h) <=> x = 1
           /\ "Body" \in FrameControl(h) <=> y = 1
           /\ "Head" \in FrameControl(h) <=> z = 1
           /\ FrameControl(h) \in SUBSET Flag
<1>1. Shows(h[3], x, y, z, r)
  BY BitsOf, Zenon
<1> QED
  BY <1>1 DEF Shows, FrameControl, Flag

\* The tests that SubmitFrame and ReadFrom make on a header tell the kinds of
\* frames apart: a frame is an ack, a final frame, one with a payload or none
\* of these, the flags say which, and only a final frame is a final ack.
THEOREM KindsOfFrames ==
    ASSUME NEW k \in Nat, k >= FrameHeaderSize, NEW h \in Frames(k)
    PROVE  /\ IsAck(h) <=> FrameControl(h) = {"Flow"}
           /\ IsFinalAck(h) <=> FrameControl(h) = Flag
           /\ IsFinal(h) <=> {"Flow", "Body"} \subseteq FrameControl(h)
           /\ HasPayload(h) <=> "Flow" \notin FrameControl(h) /\ FrameControl(h) # {}
           /\ IsFinalAck(h) => IsFinal(h)
           /\ ~(IsAck(h) /\ IsFinal(h))
           /\ ~(HasPayload(h) /\ (IsAck(h) \/ IsFinal(h)))
<1>1. h[3] \in 0..255
  BY DEF Frames, FrameHeaderSize
<1>2. PICK x \in 0..1, y \in 0..1, z \in 0..1, r \in 0..31 : IsByte(h[3], x, y, z, r)
  BY <1>1, Bits, Zenon
<1>3. /\ "Flow" \in FrameControl(h) <=> x = 1
      /\ "Body" \in FrameControl(h) <=> y = 1
      /\ "Head" \in FrameControl(h) <=> z = 1
      /\ FrameControl(h) \in SUBSET Flag
  BY <1>1, <1>2, FlagsOf, SMTT(40)
<1>4. Masked(h[3]) = 128 * x + 64 * y + 32 * z
  <2>1. Shows(h[3], x, y, z, r)
    <3>1. h[3] \in Nat
      BY <1>1
    <3> QED
      BY <1>2, <3>1, BitsOf, Zenon
  <2> QED
    BY <1>1, <1>2, <2>1 DEF Shows, IsByte
<1>5. Control({"Flow"}) = 128 /\ Control(Flag) = 224
  BY DEF Control, Flag
<1>6. IsAck(h) <=> FrameControl(h) = {"Flow"}
  <2>1. IsAck(h) <=> x = 1 /\ y = 0 /\ z = 0
    BY <1>4, <1>5 DEF IsAck
  <2>2. FrameControl(h) = {"Flow"} <=> x = 1 /\ y = 0 /\ z = 0
    BY <1>3 DEF Flag
  <2> QED
    BY <2>1, <2>2
<1>7. IsFinalAck(h) <=> FrameControl(h) = Flag
  <2>1. IsFinalAck(h) <=> x = 1 /\ y = 1 /\ z = 1
    BY <1>4, <1>5 DEF IsFinalAck
  <2>2. FrameControl(h) = Flag <=> x = 1 /\ y = 1 /\ z = 1
    BY <1>3 DEF Flag
  <2> QED
    BY <2>1, <2>2
<1>8. IsFinal(h) <=> {"Flow", "Body"} \subseteq FrameControl(h)
  BY DEF IsFinal, FrameControl, Flag
<1>9. HasPayload(h) <=> "Flow" \notin FrameControl(h) /\ FrameControl(h) # {}
  BY DEF HasPayload, FrameControl, Flag
<1> QED
  BY <1>6, <1>7, <1>8, <1>9 DEF Flag


----------------------------------------------------------------------------
(* Setters.                                                                *)

\* g is a frame with the payload of h.
SamePayload(g, h, k) ==
    /\ g \in Frames(k)
    /\ \A i \in (FrameHeaderSize + 1)..k : g[i] = h[i]

\* The bytes of a header.
LEMMA OldHeader ==
    ASSUME NEW k \in Nat, k >= FrameHeaderSize, NEW h \in Frames(k)
    PROVE  /\ h \in [1..k -> Nat] /\ k >= 4
           /\ 1 \in 1..k /\ 2 \in 1..k /\ 3 \in 1..k /\ 4 \in 1..k
           /\ h[1] \in 0..255 /\ h[2] \in 0..255 /\ h[3] \in 0..255 /\ h[4] \in 0..255
BY DEF Frames, FrameHeaderSize

\* A setter that makes bytes of the header leaves a frame.
LEMMA NewHeader ==
    ASSUME NEW k \in Nat, k >= FrameHeaderSize, NEW h \in Frames(k),
           NEW g \in [1..k -> Nat],
           g[1] \in 0..255, g[2] \in 0..255, g[3] \in 0..255, g[4] \in 0..255,
           \A i \in 5..k : g[i] = h[i]
    PROVE  SamePayload(g, h, k)
<1>1. \A i \in 1..4 : i = 1 \/ i = 2 \/ i = 3 \/ i = 4
  OBVIOUS
<1>2. \A i \in 1..4 : g[i] \in 0..255
  BY <1>1, ZenonT(40)
<1> QED
  BY <1>2, SMTT(40) DEF SamePayload, Frames, FrameHeaderSize

\* SetConnID changes the Conn ID, and neither the flags, with which it shares a
\* byte, nor the size.
THEOREM ConnIDApart ==
    ASSUME NEW k \in Nat, k >= FrameHeaderSize, NEW h \in Frames(k), NEW n \in 0..MuxerConnID
    PROVE  /\ SamePayload(SetConnID(h, n), h, k)
           /\ ConnID(SetConnID(h, n)) = n
           /\ FrameControl(SetConnID(h, n)) = FrameControl(h)
           /\ SizeValue(SetConnID(h, n)) = SizeValue(h)
<1>1. n \in Nat /\ n <= 8191
  BY DEF MuxerConnID
<1>2. PICK q \in 0..31, d \in 0..255 : q = n \div 256 /\ d = n % 256 /\ n = 256 * q + d
  <2>1. n \div 256 \in Nat /\ n \div 256 <= 31 /\ n % 256 \in 0..255
    BY <1>1
  <2>2. n = 256 * (n \div 256) + (n % 256)
    BY <1>1
  <2>3. n \div 256 \in 0..31
    BY <2>1
  <2> QED
    BY <2>1, <2>2, <2>3, ZenonT(40)
<1>3. PICK b \in 0..255 : b = h[3]
  BY OldHeader, ZenonT(40)
<1>4. PICK x \in 0..1, y \in 0..1, z \in 0..1, r \in 0..31 : IsByte(b, x, y, z, r)
  BY Bits, Zenon
<1>5. PICK c \in 0..255 : c = Masked(b) + q /\ IsByte(c, x, y, z, q)
  <2>1. b \in Nat
    OBVIOUS
  <2>2. Masked(b) = 128 * x + 64 * y + 32 * z
    <3>1. Shows(b, x, y, z, r)
      BY <1>4, <2>1, BitsOf, Zenon
    <3> QED
      BY <1>4, <3>1 DEF Shows, IsByte
  <2>3. Masked(b) + q \in 0..255 /\ IsByte(Masked(b) + q, x, y, z, q)
    BY <2>2 DEF IsByte
  <2> QED
    BY <2>3, SMTT(40)
<1>6. /\ Unmasked(c) = q
      /\ Has(c, "Flow") <=> Has(b, "Flow")
      /\ Has(c, "Body") <=> Has(b, "Body")
      /\ Has(c, "Head") <=> Has(b, "Head")
  <2>1. b \in Nat /\ c \in Nat
    OBVIOUS
  <2>2. Shows(b, x, y, z, r)
    BY <1>4, <2>1, BitsOf, Zenon
  <2>3. Shows(c, x, y, z, q)
    BY <1>5, <2>1, BitsOf, Zenon
  <2> QED
    BY <2>2, <2>3 DEF Shows
<1> DEFINE g == SetConnID(h, n)
<1>7. g = [h EXCEPT ![3] = c, ![4] = d]
  BY <1>2, <1>3, <1>5, ZenonT(40) DEF SetConnID
<1> HIDE DEF g
<1>8. SamePayload(g, h, k) /\ g[3] = c /\ g[4] = d /\ SizeValue(g) = SizeValue(h)
  <2>1. h \in [1..k -> Nat] /\ 1 \in 1..k /\ 2 \in 1..k /\ 3 \in 1..k /\ 4 \in 1..k
    BY OldHeader
  <2>2. h[1] \in 0..255 /\ h[2] \in 0..255
    BY OldHeader
  <2>3. c \in Nat /\ d \in Nat
    OBVIOUS
  <2>4. g \in [1..k -> Nat]
    BY <1>7, <2>1, <2>3
  <2>5. g[1] = h[1] /\ g[2] = h[2] /\ g[3] = c /\ g[4] = d
    BY <1>7, <2>1
  <2>6. \A i \in 5..k : g[i] = h[i]
    BY <1>7, <2>1
  <2>7. SamePayload(g, h, k)
    BY <2>2, <2>4, <2>5, <2>6, NewHeader, Zenon
  <2>8. SizeValue(g) = SizeValue(h)
    BY <2>5 DEF SizeValue
  <2> QED
    BY <2>5, <2>7, <2>8
<1>9. ConnID(g) = n
  BY <1>2, <1>6, <1>8 DEF ConnID
<1>10. FrameControl(g) = FrameControl(h)
  BY <1>3, <1>6, <1>8 DEF FrameControl, Flag
<1> QED
  BY <1>8, <1>9, <1>10 DEF g

\* SetSizeValue changes the size alone, and keeps the lower 16 bits of every
\* size.
THEOREM SizeApart ==
    ASSUME NEW k \in Nat, k >= FrameHeaderSize, NEW h \in Frames(k), NEW n \in Nat
    PROVE  /\ SamePayload(SetSizeValue(h, n), h, k)
           /\ SizeValue(SetSizeValue(h, n)) = n % 65536
           /\ ConnID(SetSizeValue(h, n)) = ConnID(h)
           /\ FrameControl(SetSizeValue(h, n)) = FrameControl(h)
<1>1. h \in [1..k -> Nat] /\ 1 \in 1..k /\ 2 \in 1..k /\ 3 \in 1..k /\ 4 \in 1..k
  BY OldHeader
<1>2. h[3] \in 0..255 /\ h[4] \in 0..255
  BY OldHeader
<1>3. PICK m \in Nat : m = n % 65536 /\ m <= 65535
  OBVIOUS
<1>4. PICK a \in Nat : a = m \div 256
  OBVIOUS
<1>5. PICK b \in Nat : b = n % 256 /\ b = m % 256
  <2>1. PICK d \in Nat : n = 65536 * d + m
    <3>1. n \div 65536 \in Nat /\ n = 65536 * (n \div 65536) + (n % 65536)
      OBVIOUS
    <3> QED
      BY <1>3, <3>1
  <2>2. (65536 * d + m) % 256 = m % 256
    OBVIOUS
  <2>3. m % 256 \in Nat
    OBVIOUS
  <2> QED
    BY <2>1, <2>2, <2>3
<1>6. m = a * 256 + b /\ a <= 255 /\ b <= 255
  BY <1>3, <1>4, <1>5
<1>7. a \in 0..255 /\ b \in 0..255
  BY <1>6
<1> DEFINE g == SetSizeValue(h, n)
           high == (n % 65536) \div 256
           low == n % 256
<1>8. high = a /\ low = b /\ g = [h EXCEPT ![1] = high, ![2] = low]
  <2>1. high = a /\ low = b
    BY <1>3, <1>4, <1>5
  <2>2. g = [h EXCEPT ![1] = high, ![2] = low]
    BY DEF SetSizeValue
  <2> QED
    BY <2>1, <2>2
<1> HIDE DEF g, high, low
<1>9. g \in [1..k -> Nat]
  BY <1>1, <1>8
<1>10. g[1] = a /\ g[2] = b /\ g[3] = h[3] /\ g[4] = h[4]
  BY <1>1, <1>8
<1>11. \A i \in 5..k : g[i] = h[i]
  BY <1>1, <1>8
<1>12. SamePayload(g, h, k)
  <2>1. \A i \in 1..4 : i = 1 \/ i = 2 \/ i = 3 \/ i = 4
    OBVIOUS
  <2>2. \A i \in 1..4 : g[i] \in 0..255
    BY <1>2, <1>7, <1>10, <2>1
  <2> QED
    BY <1>9, <1>11, <2>2 DEF SamePayload, Frames, FrameHeaderSize
<1>13. SizeValue(g) = m /\ ConnID(g) = ConnID(h) /\ FrameControl(g) = FrameControl(h)
  BY <1>6, <1>10 DEF SizeValue, ConnID, FrameControl
<1> QED
  BY <1>3, <1>12, <1>13 DEF g

\* A third byte c in place of the one of h.
LEMMA ThirdByte ==
    ASSUME NEW k \in Nat, k >= FrameHeaderSize, NEW h \in Frames(k), NEW c \in 0..255
    PROVE  /\ SamePayload([h EXCEPT ![3] = c], h, k)
           /\ FrameControl([h EXCEPT ![3] = c]) = {f \in Flag : Has(c, f)}
           /\ SizeValue([h EXCEPT ![3] = c]) = SizeValue(h)
           /\ Unmasked(c) = Unmasked(h[3]) => ConnID([h EXCEPT ![3] = c]) = ConnID(h)
<1> DEFINE g == [h EXCEPT ![3] = c]
<1>1. h \in [1..k -> Nat] /\ 1 \in 1..k /\ 2 \in 1..k /\ 3 \in 1..k /\ 4 \in 1..k
  BY OldHeader
<1>2. h[1] \in 0..255 /\ h[2] \in 0..255 /\ h[4] \in 0..255
  BY OldHeader
<1>3. c \in Nat
  OBVIOUS
<1>4. g \in [1..k -> Nat]
  BY <1>1, <1>3
<1>5. g[1] = h[1] /\ g[2] = h[2] /\ g[3] = c /\ g[4] = h[4]
  BY <1>1
<1>6. \A i \in 5..k : g[i] = h[i]
  BY <1>1
<1> HIDE DEF g
<1>7. SamePayload(g, h, k)
  BY <1>2, <1>4, <1>5, <1>6, NewHeader, Zenon
<1>8. SizeValue(g) = SizeValue(h)
  BY <1>5 DEF SizeValue
<1>9. FrameControl(g) = {f \in Flag : Has(c, f)}
  BY <1>5 DEF FrameControl
<1>10. Unmasked(c) = Unmasked(h[3]) => ConnID(g) = ConnID(h)
  BY <1>5 DEF ConnID
<1> QED
  BY <1>7, <1>8, <1>9, <1>10, Zenon DEF g

\* SetFlow, SetHead and SetBody add one flag and change nothing else, whether
\* or not the flag was set.
THEOREM FlagApart ==
    ASSUME NEW k \in Nat, k >= FrameHeaderSize, NEW h \in Frames(k), NEW f \in Flag
    PROVE  /\ SamePayload(SetFlag(h, f), h, k)
           /\ FrameControl(SetFlag(h, f)) = FrameControl(h) \cup {f}
           /\ ConnID(SetFlag(h, f)) = ConnID(h)
           /\ SizeValue(SetFlag(h, f)) = SizeValue(h)
<1>1. PICK b \in 0..255 : b = h[3]
  BY OldHeader, SMTT(40)
<1>2. PICK x \in 0..1, y \in 0..1, z \in 0..1, r \in 0..31 : IsByte(b, x, y, z, r)
  BY Bits, ZenonT(40)
<1>3. b \in Nat
  OBVIOUS
<1>4. /\ Has(b, "Flow") <=> x = 1
      /\ Has(b, "Body") <=> y = 1
      /\ Has(b, "Head") <=> z = 1
      /\ Unmasked(b) = r
  <2>1. Shows(b, x, y, z, r)
    BY <1>2, <1>3, BitsOf, Zenon
  <2> QED
    BY <2>1 DEF Shows
<1>5. /\ "Flow" \in FrameControl(h) <=> x = 1
      /\ "Body" \in FrameControl(h) <=> y = 1
      /\ "Head" \in FrameControl(h) <=> z = 1
      /\ FrameControl(h) \in SUBSET Flag
  BY <1>1, <1>4 DEF FrameControl, Flag
<1>6. PICK c \in 0..255 :
         /\ c = Or(b, f) /\ Unmasked(c) = r
         /\ Has(c, "Flow") <=> x = 1 \/ f = "Flow"
         /\ Has(c, "Body") <=> y = 1 \/ f = "Body"
         /\ Has(c, "Head") <=> z = 1 \/ f = "Head"
  <2>1. PICK u \in 0..1, v \in 0..1, w \in 0..1 :
           /\ Or(b, f) = 128 * u + 64 * v + 32 * w + r
           /\ u = 1 <=> x = 1 \/ f = "Flow"
           /\ v = 1 <=> y = 1 \/ f = "Body"
           /\ w = 1 <=> z = 1 \/ f = "Head"
    <3>1. CASE f = "Flow"
      <4>1. Or(b, f) = 128 * 1 + 64 * y + 32 * z + r /\ 1 \in 0..1
        BY <1>2, <1>4, <3>1 DEF Or, Bit, IsByte
      <4> QED
        BY <3>1, <4>1
    <3>2. CASE f = "Body"
      <4>1. Or(b, f) = 128 * x + 64 * 1 + 32 * z + r /\ 1 \in 0..1
        BY <1>2, <1>4, <3>2 DEF Or, Bit, IsByte
      <4> QED
        BY <3>2, <4>1
    <3>3. CASE f = "Head"
      <4>1. Or(b, f) = 128 * x + 64 * y + 32 * 1 + r /\ 1 \in 0..1
        BY <1>2, <1>4, <3>3 DEF Or, Bit, IsByte
      <4> QED
        BY <3>3, <4>1
    <3> QED
      BY <3>1, <3>2, <3>3 DEF Flag
  <2>2. PICK c \in Nat : c = Or(b, f) /\ IsByte(c, u, v, w, r)
    BY <2>1 DEF IsByte
  <2>3. /\ Has(c, "Flow") <=> u = 1
        /\ Has(c, "Body") <=> v = 1
        /\ Has(c, "Head") <=> w = 1
        /\ Unmasked(c) = r /\ c \in 0..255
    <3>1. Shows(c, u, v, w, r)
      BY <2>2, BitsOf, Zenon
    <3> QED
      BY <3>1 DEF Shows
  <2> QED
    BY <2>1, <2>2, <2>3
<1>7. SetFlag(h, f) = [h EXCEPT ![3] = c]
  BY <1>1, <1>6 DEF SetFlag
<1>8. {t \in Flag : Has(c, t)} = FrameControl(h) \cup {f}
  BY <1>5, <1>6 DEF Flag
<1>9. Unmasked(c) = Unmasked(h[3])
  BY <1>1, <1>4, <1>6, SMTT(40)
<1>10. /\ SamePayload([h EXCEPT ![3] = c], h, k)
       /\ FrameControl([h EXCEPT ![3] = c]) = {t \in Flag : Has(c, t)}
       /\ SizeValue([h EXCEPT ![3] = c]) = SizeValue(h)
       /\ ConnID([h EXCEPT ![3] = c]) = ConnID(h)
  BY <1>9, ThirdByte, ZenonT(40)
<1> QED
  BY <1>7, <1>8, <1>10, Zenon

\* SetMuxerControl makes a frame of the Muxer with exactly the flags given,
\* whatever the flags and the Conn ID were before.
THEOREM MuxerControlSet ==
    ASSUME NEW k \in Nat, k >= FrameHeaderSize, NEW h \in Frames(k), NEW fs \in SUBSET Flag
    PROVE  /\ SamePayload(SetMuxerControl(h, fs), h, k)
           /\ IsMuxerControl(SetMuxerControl(h, fs))
           /\ FrameControl(SetMuxerControl(h, fs)) = fs
           /\ SizeValue(SetMuxerControl(h, fs)) = SizeValue(h)
<1>1. PICK b \in 0..255 : b = h[3]
  BY OldHeader, ZenonT(40)
<1>2. PICK r \in 0..31 : r = Unmasked(b)
  BY DEF Unmasked
<1>3. PICK x \in 0..1, y \in 0..1, z \in 0..1 :
         /\ IsByte(Control(fs), x, y, z, 0)
         /\ x = 1 <=> "Flow" \in fs
         /\ y = 1 <=> "Body" \in fs
         /\ z = 1 <=> "Head" \in fs
  BY ControlBits
<1>4. PICK c \in Nat : c = Unmasked(b) + Control(fs) /\ IsByte(c, x, y, z, r) /\ c <= 255
  BY <1>2, <1>3 DEF IsByte
<1>5. c \in 0..255
  BY <1>4
<1>6. {t \in Flag : Has(c, t)} = fs
  <2>1. Shows(c, x, y, z, r)
    BY <1>4, BitsOf, Zenon
  <2>2. /\ Has(c, "Flow") <=> "Flow" \in fs
        /\ Has(c, "Body") <=> "Body" \in fs
        /\ Has(c, "Head") <=> "Head" \in fs
    BY <1>3, <2>1 DEF Shows
  <2> QED
    BY <2>2, ZenonT(40) DEF Flag
<1> DEFINE g == [h EXCEPT ![3] = c]
<1>7. SetMuxerControl(h, fs) = SetConnID(g, MuxerConnID)
  BY <1>1, <1>4 DEF SetMuxerControl
<1>8. SamePayload(g, h, k) /\ FrameControl(g) = fs /\ SizeValue(g) = SizeValue(h)
  BY <1>5, <1>6, ThirdByte, ZenonT(40)
<1> HIDE DEF g
<1>9. g \in Frames(k) /\ MuxerConnID \in 0..MuxerConnID
  BY <1>8 DEF SamePayload, MuxerConnID
<1> DEFINE m == SetConnID(g, MuxerConnID)
<1>10. /\ SamePayload(m, g, k) /\ ConnID(m) = MuxerConnID
       /\ FrameControl(m) = FrameControl(g) /\ SizeValue(m) = SizeValue(g)
  BY <1>9, ConnIDApart
<1> HIDE DEF m
<1>11. SamePayload(m, h, k)
  BY <1>8, <1>10 DEF SamePayload
<1> QED
  BY <1>7, <1>8, <1>10, <1>11 DEF m, IsMuxerControl

\* A frame that the pool hands out for a Conn has the Conn's ID, no flags and
\* no size, whatever was in its header when it was freed.
THEOREM AllocIsClean ==
    ASSUME NEW k \in Nat, k >= FrameHeaderSize, NEW h \in Frames(k), NEW n \in 0..MuxerConnID
    PROVE  /\ ClearID(h, n) \in Frames(k)
           /\ ConnID(ClearID(h, n)) = n
           /\ FrameControl(ClearID(h, n)) = {}
           /\ SizeValue(ClearID(h, n)) = 0
<1> DEFINE g == [i \in DOMAIN h |-> 0]
<1>1. DOMAIN h = 1..k /\ 1 \in 1..k /\ 2 \in 1..k /\ 3 \in 1..k /\ k >= 4
  BY OldHeader
<1>2. g \in [1..k -> Nat] /\ \A i \in 1..k : g[i] = 0
  BY <1>1
<1>3. ClearID(h, n) = SetConnID(g, n)
  BY DEF ClearID
<1> HIDE DEF g
<1>4. g \in Frames(k)
  BY <1>1, <1>2, SMTT(40) DEF Frames, FrameHeaderSize
<1>5. g[1] = 0 /\ g[2] = 0 /\ g[3] = 0
  BY <1>1, <1>2
<1>6. SizeValue(g) = 0
  BY <1>5 DEF SizeValue
<1>7. FrameControl(g) = {}
  <2>1. ~Has(0, "Flow") /\ ~Has(0, "Body") /\ ~Has(0, "Head")
    BY DEF Has, Bit
  <2> QED
    BY <1>5, <2>1 DEF FrameControl, Flag
<1>8. /\ SamePayload(SetConnID(g, n), g, k) /\ ConnID(SetConnID(g, n)) = n
      /\ FrameControl(SetConnID(g, n)) = FrameControl(g)
      /\ SizeValue(SetConnID(g, n)) = SizeValue(g)
  BY <1>4, ConnIDApart
<1> QED
  BY <1>3, <1>6, <1>7, <1>8 DEF SamePayload

----------------------------------------------------------------------------
(* Arithmetic with products and remainders of unknown numbers.             *)

\* Multiplication distributes over addition.
LEMMA Distributes ==
    ASSUME NEW a \in Nat, NEW c \in Nat, NEW w \in Nat
    PROVE  (a + c) * w = a * w + c * w
OBVIOUS

\* Division with a remainder.
LEMMA DivMod ==
    ASSUME NEW a \in Nat, NEW M \in Nat \ {0}
    PROVE  /\ a % M \in Nat /\ a % M < M /\ a \div M \in Nat
           /\ a = M * (a \div M) + (a % M)
OBVIOUS

\* A number below the modulus is its own remainder, also a modulus later.
LEMMA SmallMod ==
    ASSUME NEW y \in Nat, NEW M \in Nat, y < M
    PROVE  y % M = y /\ (M + y) % M = y
<1>1. M \in Nat \ {0} /\ M + y \in Nat
  OBVIOUS
<1>2. ASSUME NEW d \in Nat, NEW m \in Nat, m < M, NEW e \in 0..1, M * e + y = M * d + m
      PROVE  m = y
  <2>1. CASE d = e
    BY <1>2, <2>1
  <2>2. CASE d < e
    <3>1. d = 0 /\ e = 1
      BY <2>2
    <3> QED
      BY <1>2, <3>1
  <2>3. CASE d > e
    <3>1. PICK k \in Nat : d = e + 1 + k
      <4>1. d - e - 1 \in Nat
        BY <2>3
      <4> QED
        BY <4>1
    <3>2. M * d = M * e + M + M * k /\ M * e \in Nat /\ M * k \in Nat
      BY <3>1
    <3> QED
      BY <1>2, <3>2
  <2> QED
    BY <2>1, <2>2, <2>3
<1>3. y % M = y
  <2>1. PICK d \in Nat, m \in Nat : m = y % M /\ m < M /\ y = M * d + m
    BY <1>1, DivMod
  <2>2. M * 0 + y = M * d + m
    BY <2>1
  <2> QED
    BY <1>2, <2>1, <2>2
<1>4. (M + y) % M = y
  <2>1. PICK d \in Nat, m \in Nat : m = (M + y) % M /\ m < M /\ M + y = M * d + m
    BY <1>1, DivMod
  <2>2. M * 1 + y = M * d + m
    BY <2>1
  <2> QED
    BY <1>2, <2>1, <2>2
<1> QED
  BY <1>3, <1>4

----------------------------------------------------------------------------
(* Induction over data: the library's induction theorems take an operator, *)
(* so a set stands for what holds of a number, and a function for the step *)
(* of a recursion.                                                         *)

\* Every set of numbers that is not empty has a least element.
LEMMA Least ==
    ASSUME NEW T, T \subseteq Nat, T # {}
    PROVE  \E x \in T : \A y \in T : x <= y
<1> DEFINE R == OpToRel(<, Nat)
<1>1. PICK x \in T : \A y \in T : ~(<<y, x>> \in R)
  <2>1. IsWellFoundedOn(R, Nat)
    BY NatLessThanWellFounded
  <2> HIDE DEF R
  <2> QED
    BY <2>1, WFMin
<1>2. ASSUME NEW y \in T PROVE x <= y
  <2>1. ~(<<y, x>> \in {ss \in Nat \X Nat : ss[1] < ss[2]})
    BY <1>1 DEF OpToRel
  <2> QED
    BY <2>1
<1> QED
  BY <1>2

\* From 0 to n, one by one.
LEMMA Induct ==
    ASSUME NEW S, NEW n \in Nat,
           0 \in S, \A i \in 0..(n - 1) : i \in S => i + 1 \in S
    PROVE  \A i \in 0..n : i \in S
<1> DEFINE T == {i \in 0..n : i \notin S}
<1>1. SUFFICES ASSUME T # {} PROVE FALSE
  OBVIOUS
<1>2. PICK x \in T : \A y \in T : x <= y
  <2>1. T \subseteq Nat
    OBVIOUS
  <2> HIDE DEF T
  <2> QED
    BY <1>1, <2>1, Least
<1>3. x # 0 /\ x \in 0..n
  OBVIOUS
<1>4. x - 1 \in 0..n /\ x - 1 \in 0..(n - 1) /\ x - 1 \in S
  BY <1>2, <1>3
<1> QED
  BY <1>3, <1>4

\* From all smaller numbers.
LEMMA StrongInduct ==
    ASSUME NEW S, \A n \in Nat : (\A m \in 0..(n - 1) : m \in S) => n \in S
    PROVE  \A n \in Nat : n \in S
<1> DEFINE T == {i \in Nat : i \notin S}
<1>1. SUFFICES ASSUME T # {} PROVE FALSE
  OBVIOUS
<1>2. PICK x \in T : \A y \in T : x <= y
  <2>1. T \subseteq Nat
    OBVIOUS
  <2> HIDE DEF T
  <2> QED
    BY <1>1, <2>1, Least
<1>3. \A m \in 0..(x - 1) : m \in S
  BY <1>2
<1> QED
  BY <1>3

\* g begins with a, and the step F leads from each value to the next.
Iteration(g, a, n, F) == g[0] = a /\ \A i \in 1..n : g[i] = F[<<i, g[i - 1]>>]

\* A recursion from i - 1 to i defines a function.
LEMMA Iterates ==
    ASSUME NEW S, NEW a \in S, NEW n \in Nat, NEW F \in [(1..n) \X S -> S]
    PROVE  \E g \in [0..n -> S] : Iteration(g, a, n, F)
<1> DEFINE P(k) == \E g \in [0..k -> S] :
              g[0] = a /\ \A i \in 1..k : g[i] = F[<<i, g[i - 1]>>]
           T == {k \in 0..n : P(k)}
<1>1. 0 \in T
  <2> DEFINE g == [i \in 0..0 |-> a]
  <2>1. g \in [0..0 -> S] /\ g[0] = a /\ \A i \in 1..0 : g[i] = F[<<i, g[i - 1]>>]
    OBVIOUS
  <2> HIDE DEF g
  <2>2. P(0) /\ 0 \in 0..n
    BY <2>1
  <2> QED
    BY <2>2
<1>2. ASSUME NEW k \in 0..(n - 1), k \in T PROVE k + 1 \in T
  <2>1. PICK g \in [0..k -> S] :
            g[0] = a /\ \A i \in 1..k : g[i] = F[<<i, g[i - 1]>>]
    BY <1>2
  <2> DEFINE h == [i \in 0..(k + 1) |-> IF i = k + 1 THEN F[<<k + 1, g[k]>>] ELSE g[i]]
  <2>2. k + 1 \in 1..n /\ g[k] \in S
    BY <2>1
  <2>3. h \in [0..(k + 1) -> S] /\ h[0] = a
    BY <2>1, <2>2
  <2>4. ASSUME NEW i \in 1..(k + 1) PROVE h[i] = F[<<i, h[i - 1]>>]
    <3>1. i - 1 \in 0..k /\ h[i - 1] = g[i - 1]
      BY <2>4
    <3>2. CASE i = k + 1
      <4>1. i - 1 = k /\ h[i] = F[<<k + 1, g[k]>>]
        BY <3>2
      <4> HIDE DEF h
      <4> QED
        BY <3>1, <3>2, <4>1, Zenon
    <3>3. CASE i # k + 1
      <4>1. i \in 1..k /\ h[i] = g[i]
        BY <3>3
      <4> QED
        BY <2>1, <3>1, <4>1
    <3> QED
      BY <3>2, <3>3
  <2> HIDE DEF h
  <2>5. P(k + 1)
    BY <2>3, <2>4
  <2> QED
    BY <2>2, <2>5
<1> HIDE DEF T
<1>3. n \in T
  BY <1>1, <1>2, Induct
<1> QED
  BY <1>3 DEF T, Iteration

----------------------------------------------------------------------------
(* Words.                                                                  *)

\* More is at least two.
LEMMA MoreType == More \in Nat /\ More >= 2
BY WidthAssumption

\* Every byte weighs More times what the byte before it does.
LEMMA WeightDef ==
    /\ LastGroup \in Nat
    /\ Weight \in [0..LastGroup -> Nat]
    /\ Weight[0] = 1
    /\ \A i \in 1..LastGroup : Weight[i] = More * Weight[i - 1]
<1> DEFINE E(f) == f = [i \in 0..LastGroup |-> IF i = 0 THEN 1 ELSE More * f[i - 1]]
<1>1. LastGroup \in Nat /\ More \in Nat
  BY CodecAssumption, WidthAssumption
<1>2. PICK g \in [0..LastGroup -> Nat] :
          g[0] = 1 /\ \A i \in 1..LastGroup : g[i] = More * g[i - 1]
  <2> DEFINE F == [p \in (1..LastGroup) \X Nat |-> More * p[2]]
  <2>1. F \in [(1..LastGroup) \X Nat -> Nat]
    BY <1>1
  <2>2. \A i \in 1..LastGroup, v \in Nat : F[<<i, v>>] = More * v
    OBVIOUS
  <2> HIDE DEF F
  <2>3. PICK g \in [0..LastGroup -> Nat] : Iteration(g, 1, LastGroup, F)
    <3>1. 1 \in Nat
      OBVIOUS
    <3> QED
      BY <1>1, <2>1, <3>1, Iterates, Zenon
  <2>4. \A i \in 1..LastGroup : g[i - 1] \in Nat
    BY <1>1, <2>3
  <2> QED
    BY <2>2, <2>3, <2>4 DEF Iteration
<1>3. E(g)
  <2>1. g = [i \in 0..LastGroup |-> g[i]]
    OBVIOUS
  <2>2. ASSUME NEW i \in 0..LastGroup
        PROVE  g[i] = IF i = 0 THEN 1 ELSE More * g[i - 1]
    BY <1>1, <1>2
  <2> QED
    BY <2>1, <2>2
<1>4. Weight = CHOOSE f : E(f)
  BY Zenon DEF Weight
<1>5. E(Weight)
  <2> HIDE DEF E
  <2> QED
    BY <1>3, <1>4, Zenon
<1>6. \A i \in 0..LastGroup : Weight[i] = g[i]
  <2> DEFINE S == {i \in 0..LastGroup : Weight[i] = g[i]}
  <2>1. \A i \in 0..LastGroup : Weight[i] = IF i = 0 THEN 1 ELSE More * Weight[i - 1]
    BY <1>5
  <2> HIDE DEF E
  <2>2. 0 \in S
    BY <1>1, <1>2, <2>1
  <2>3. ASSUME NEW i \in 0..(LastGroup - 1), i \in S PROVE i + 1 \in S
    <3>1. i + 1 \in 0..LastGroup /\ i + 1 \in 1..LastGroup /\ i + 1 # 0 /\ (i + 1) - 1 = i
      BY <1>1
    <3>2. Weight[i + 1] = More * Weight[i] /\ g[i + 1] = More * g[i]
      BY <1>2, <2>1, <3>1
    <3> QED
      BY <2>3, <3>1, <3>2
  <2> HIDE DEF S
  <2>4. \A i \in 0..LastGroup : i \in S
    BY <1>1, <2>2, <2>3, Induct
  <2> QED
    BY <2>4 DEF S
<1>7. Weight = [i \in 0..LastGroup |-> Weight[i]]
  BY <1>5
<1>8. Weight = g
  <2>1. g = [i \in 0..LastGroup |-> g[i]]
    OBVIOUS
  <2> HIDE DEF E
  <2> QED
    BY <1>6, <1>7, <2>1
<1> HIDE DEF E
<1> QED
  BY <1>1, <1>2, <1>8

\* A weight is at least 1, and at most that of the last byte.
LEMMA WeightBounds ==
    \A i \in 0..LastGroup :
       Weight[i] \in Nat /\ 1 <= Weight[i] /\ Weight[i] <= Weight[LastGroup]
<1>1. LastGroup \in Nat /\ More \in Nat /\ More >= 2
  BY MoreType, WeightDef
<1>2. \A i \in 0..LastGroup : Weight[i] \in Nat
  BY WeightDef
<1>3. \A i \in 0..LastGroup : 1 <= Weight[i]
  <2> DEFINE S == {i \in 0..LastGroup : 1 <= Weight[i]}
  <2>1. 0 \in S
    BY <1>1, WeightDef
  <2>2. ASSUME NEW i \in 0..(LastGroup - 1), i \in S PROVE i + 1 \in S
    <3>1. i + 1 \in 1..LastGroup /\ (i + 1) - 1 = i /\ i + 1 \in 0..LastGroup /\ i \in 0..LastGroup
      BY <1>1
    <3>2. PICK w \in Nat : w = Weight[i] /\ 1 <= w
      BY <1>2, <2>2, <3>1
    <3>3. Weight[i + 1] = More * w
      BY <3>1, <3>2, WeightDef
    <3>4. 1 <= More * w
      BY <1>1, <3>2
    <3> QED
      BY <3>1, <3>3, <3>4
  <2> HIDE DEF S
  <2>3. \A i \in 0..LastGroup : i \in S
    BY <1>1, <2>1, <2>2, Induct
  <2> QED
    BY <2>3 DEF S
<1>4. \A i \in 0..LastGroup : Weight[i] <= Weight[LastGroup]
  <2> DEFINE S == {k \in 0..LastGroup : Weight[LastGroup - k] <= Weight[LastGroup]}
  <2>1. 0 \in S
    <3>1. LastGroup - 0 = LastGroup /\ LastGroup \in 0..LastGroup /\ 0 \in 0..LastGroup
      BY <1>1
    <3>2. Weight[LastGroup] <= Weight[LastGroup]
      BY <1>2, <3>1
    <3> QED
      BY <3>1, <3>2
  <2>2. ASSUME NEW k \in 0..(LastGroup - 1), k \in S PROVE k + 1 \in S
    <3>1. PICK j \in 1..LastGroup : j = LastGroup - k
      BY <1>1
    <3>2. LastGroup - (k + 1) = j - 1 /\ k + 1 \in 0..LastGroup
          /\ j - 1 \in 0..LastGroup /\ j \in 0..LastGroup /\ LastGroup \in 0..LastGroup
      BY <1>1, <3>1
    <3>3. PICK w \in Nat : w = Weight[j - 1]
      BY <1>2, <3>2
    <3>4. Weight[j] = More * w /\ Weight[j] <= Weight[LastGroup] /\ Weight[LastGroup] \in Nat
      BY <1>2, <2>2, <3>1, <3>2, <3>3, WeightDef
    <3>5. w <= More * w
      BY <1>1
    <3>6. More * w \in Nat
      BY <1>1
    <3>7. w <= Weight[LastGroup]
      BY <3>4, <3>5, <3>6
    <3> QED
      BY <3>2, <3>3, <3>7
  <2> HIDE DEF S
  <2>3. \A k \in 0..LastGroup : k \in S
    BY <1>1, <2>1, <2>2, Induct
  <2>4. ASSUME NEW i \in 0..LastGroup PROVE Weight[i] <= Weight[LastGroup]
    <3>1. LastGroup - i \in S /\ LastGroup - (LastGroup - i) = i
      BY <1>1, <2>3
    <3> QED
      BY <3>1 DEF S
  <2> QED
    BY <2>4
<1> QED
  BY <1>2, <1>3, <1>4

\* A word has two halves, one for each sign.
LEMMA WordParts ==
    /\ Weight[LastGroup] \in Nat /\ Weight[LastGroup] >= 1
    /\ Word = 2 * Weight[LastGroup]
    /\ Word \in Nat \ {0}
    /\ Word \div 2 = Weight[LastGroup]
<1>1. LastGroup \in Nat /\ LastGroup \in 0..LastGroup
  BY WeightDef
<1>2. Weight[LastGroup] \in Nat /\ Weight[LastGroup] >= 1
  BY <1>1, WeightBounds
<1>3. Word = 2 * Weight[LastGroup]
  BY DEF Word
<1> QED
  BY <1>2, <1>3

----------------------------------------------------------------------------
(* Lengths.                                                                *)

\* More and MaxLen are numbers.
LEMMA Widths ==
    /\ More \in Nat /\ More >= 2 /\ 2 * More \in Nat \ {0}
    /\ MaxLen \in Nat /\ MaxLen = (2 * More) * More
<1>1. More \in Nat /\ More >= 2
  BY MoreType
<1> HIDE DEF More
<1> QED
  BY <1>1 DEF MaxLen

\* A length of two bytes is split into a quotient and a remainder.
LEMMA LenParts ==
    ASSUME NEW n \in Nat, n < MaxLen
    PROVE  \E q \in Nat, r \in Nat :
              /\ q = n \div (2 * More) /\ r = n % (2 * More)
              /\ q < More /\ r < 2 * More /\ n = (2 * More) * q + r
              /\ (More + q) % More = q
<1>1. PICK m \in Nat, d \in Nat \ {0} :
         m = More /\ d = 2 * More /\ m >= 2 /\ MaxLen = d * m
  BY Widths
<1>2. PICK q \in Nat : q = n \div d
  OBVIOUS
<1>3. PICK r \in Nat : r = n % d
  OBVIOUS
<1>4. r < d /\ n = d * q + r
  BY <1>2, <1>3
<1>5. q < m
  <2>1. SUFFICES ASSUME q >= m PROVE FALSE
    OBVIOUS
  <2>2. d * q >= d * m
    BY <2>1
  <2> QED
    BY <1>1, <1>4, <2>2
<1>6. (m + q) % m = q
  BY <1>1, <1>5
<1> QED
  BY <1>1, <1>2, <1>3, <1>4, <1>5, <1>6, Zenon

\* What LenBytes writes: one byte that is not marked, or two.
LEMMA LenWritten ==
    ASSUME NEW n \in Nat, n < MaxLen
    PROVE  \/ n < More /\ LenBytes(n) = <<n>>
           \/ \E q \in Nat, r \in Nat :
                 /\ LenBytes(n) = <<More + q, r>>
                 /\ q < More /\ n = (2 * More) * q + r /\ (More + q) % More = q
<1>1. n \in 0..(MaxLen - 1)
  BY Widths
<1>2. CASE n < More
  BY <1>1, <1>2 DEF LenBytes
<1>3. CASE ~(n < More)
  <2>1. LenBytes(n) = <<More + n \div (2 * More), n % (2 * More)>>
    BY <1>1, <1>3, Zenon DEF LenBytes
  <2> QED
    BY <2>1, LenParts
<1> QED
  BY <1>2, <1>3

\* Bytes in front of others are found where they were put.
LEMMA Begins ==
    ASSUME NEW p \in Seq(Nat), NEW rest \in Seq(Nat)
    PROVE  /\ p \o rest \in Seq(Nat) /\ Len(p) \in Nat /\ Len(rest) \in Nat
           /\ Len(p \o rest) = Len(p) + Len(rest)
           /\ \A i \in 1..Len(p) : (p \o rest)[i] = p[i]
<1>1. Len(p) \in Nat /\ Len(rest) \in Nat
  BY LenProperties
<1> QED
  BY <1>1, ConcatProperties

\* What ReadLen makes of a sequence of bytes that begins with them.
LEMMA LenRead ==
    ASSUME NEW b \in Seq(Nat), NEW n \in Nat, n < MaxLen,
           Len(b) >= Len(LenBytes(n)),
           \A i \in 1..Len(LenBytes(n)) : b[i] = LenBytes(n)[i]
    PROVE  ReadLen(b) = Value(n, Len(LenBytes(n)))
<1>1. More \in Nat /\ More >= 2 /\ Len(b) \in Nat
  BY Widths, LenProperties
<1>2. CASE n < More /\ LenBytes(n) = <<n>>
  <2>1. b[1] = n /\ Len(b) >= 1 /\ Len(LenBytes(n)) = 1
    BY <1>2
  <2>2. b # <<>>
    BY <1>1, <2>1, EmptySeq
  <2> QED
    BY <1>2, <2>1, <2>2 DEF ReadLen
<1>3. CASE \E q \in Nat, r \in Nat :
              /\ LenBytes(n) = <<More + q, r>>
              /\ q < More /\ n = (2 * More) * q + r /\ (More + q) % More = q
  <2>1. PICK q \in Nat, r \in Nat :
              /\ LenBytes(n) = <<More + q, r>>
              /\ q < More /\ n = (2 * More) * q + r /\ (More + q) % More = q
    BY <1>3
  <2>2. Len(LenBytes(n)) = 2 /\ LenBytes(n)[1] = More + q /\ LenBytes(n)[2] = r
    BY <2>1
  <2>3. b[1] = More + q /\ b[2] = r /\ Len(b) >= 2
    BY <2>2
  <2>4. b # <<>> /\ Len(b) # 1
    BY <1>1, <2>3, EmptySeq
  <2>5. ~(b[1] < More)
    BY <1>1, <2>3
  <2>6. (b[1] % More) * 2 * More + b[2] = n
    <3>1. PICK m \in Nat : m = More
      BY <1>1
    <3>2. q * 2 * m + r = (2 * m) * q + r
      OBVIOUS
    <3> QED
      BY <2>1, <2>3, <3>1, <3>2, Zenon
  <2> QED
    BY <2>2, <2>4, <2>5, <2>6 DEF ReadLen
<1> QED
  BY <1>2, <1>3, LenWritten

\* The bytes are numbers.
LEMMA LenType ==
    ASSUME NEW n \in Nat, n < MaxLen
    PROVE  LenBytes(n) \in Seq(Nat)
<1>1. More \in Nat
  BY Widths
<1>2. CASE LenBytes(n) = <<n>>
  BY <1>2
<1>3. CASE \E q \in Nat, r \in Nat : LenBytes(n) = <<More + q, r>>
  <2>1. PICK q \in Nat, r \in Nat : LenBytes(n) = <<More + q, r>>
    BY <1>3
  <2>2. More + q \in Nat
    BY <1>1
  <2> QED
    BY <2>1, <2>2
<1> QED
  BY <1>2, <1>3, LenWritten

\* ReadLen reads every length that WriteLen writes, and takes no other byte.
THEOREM LenRoundTrip ==
    ASSUME NEW n \in Nat, n < MaxLen, NEW rest \in Seq(Nat)
    PROVE  ReadLen(LenBytes(n) \o rest) = Value(n, Len(LenBytes(n)))
<1> DEFINE b == LenBytes(n) \o rest
<1>1. LenBytes(n) \in Seq(Nat)
  BY LenType
<1>2. /\ b \in Seq(Nat)
      /\ Len(LenBytes(n)) \in Nat /\ Len(rest) \in Nat
      /\ Len(b) = Len(LenBytes(n)) + Len(rest)
      /\ \A i \in 1..Len(LenBytes(n)) : b[i] = LenBytes(n)[i]
  BY <1>1, Begins
<1> HIDE DEF b
<1>3. Len(b) >= Len(LenBytes(n))
  BY <1>2
<1>4. ReadLen(b) = Value(n, Len(LenBytes(n)))
  BY <1>2, <1>3, LenRead, Zenon
<1> QED
  BY <1>4 DEF b

----------------------------------------------------------------------------
(* Unsigned numbers.                                                       *)

\* The sum of the first groups of a number.
Sums(s, b, n) ==
    /\ s \in [0..n -> Nat]
    /\ s[0] = 0
    /\ \A i \in 1..n : s[i] = s[i - 1] + (b[i] % More) * Weight[i - 1]

\* Exact is the sum of all groups.
LEMMA ExactSum ==
    ASSUME NEW b \in Seq(Nat), NEW n \in Nat, n <= Len(b), n <= LastGroup + 1
    PROVE  \E s : Sums(s, b, n) /\ Exact(b, n) = s[n]
<1> DEFINE A == [i \in 1..n |-> (b[i] % More) * Weight[i - 1]]
           E(f) == f = [i \in 0..n |-> IF i = 0 THEN 0
                          ELSE f[i - 1] + (b[i] % More) * Weight[i - 1]]
<1>1. LastGroup \in Nat /\ More \in Nat /\ More >= 2 /\ Len(b) \in Nat
  BY MoreType, WeightDef, LenProperties
<1>2. A \in [1..n -> Nat]
  <2> SUFFICES ASSUME NEW i \in 1..n PROVE (b[i] % More) * Weight[i - 1] \in Nat
    OBVIOUS
  <2>1. i \in 1..Len(b) /\ i - 1 \in 0..LastGroup
    BY <1>1
  <2>2. b[i] \in Nat /\ Weight[i - 1] \in Nat
    BY <2>1, WeightBounds
  <2>3. PICK r \in Nat : r = b[i] % More
    BY <1>1, <2>2
  <2> QED
    BY <2>2, <2>3
<1>3. \A i \in 1..n : A[i] = (b[i] % More) * Weight[i - 1]
  OBVIOUS
<1> HIDE DEF A
<1>4. PICK g \in [0..n -> Nat] : g[0] = 0 /\ \A i \in 1..n : g[i] = g[i - 1] + A[i]
  <2> DEFINE F == [p \in (1..n) \X Nat |-> p[2] + A[p[1]]]
  <2>1. F \in [(1..n) \X Nat -> Nat]
    BY <1>2
  <2>2. \A i \in 1..n, v \in Nat : F[<<i, v>>] = v + A[i]
    OBVIOUS
  <2> HIDE DEF F
  <2>3. PICK g \in [0..n -> Nat] : Iteration(g, 0, n, F)
    <3>1. 0 \in Nat
      OBVIOUS
    <3> QED
      BY <2>1, <3>1, Iterates, Zenon
  <2>4. \A i \in 1..n : g[i - 1] \in Nat
    BY <2>3
  <2> QED
    BY <2>2, <2>3, <2>4 DEF Iteration
<1>5. E(g)
  <2>1. g = [i \in 0..n |-> g[i]]
    OBVIOUS
  <2>2. ASSUME NEW i \in 0..n
        PROVE  g[i] = IF i = 0 THEN 0 ELSE g[i - 1] + (b[i] % More) * Weight[i - 1]
    BY <1>3, <1>4
  <2> QED
    BY <2>1, <2>2
<1>6. Exact(b, n) = (CHOOSE f : E(f))[n]
  BY Zenon DEF Exact
<1>7. PICK f : E(f) /\ Exact(b, n) = f[n]
  <2> HIDE DEF E
  <2> QED
    BY <1>5, <1>6, Zenon
<1>8. \A i \in 0..n : f[i] = IF i = 0 THEN 0 ELSE f[i - 1] + A[i]
  <2>1. ASSUME NEW i \in 0..n
        PROVE  f[i] = IF i = 0 THEN 0 ELSE f[i - 1] + (b[i] % More) * Weight[i - 1]
    BY <1>7
  <2> HIDE DEF E
  <2> QED
    BY <1>3, <2>1
<1> HIDE DEF E
<1>9. \A i \in 0..n : f[i] = g[i]
  <2> DEFINE S == {i \in 0..n : f[i] = g[i]}
  <2>1. 0 \in S
    BY <1>4, <1>8
  <2>2. ASSUME NEW i \in 0..(n - 1), i \in S PROVE i + 1 \in S
    <3>1. i + 1 \in 0..n /\ i + 1 \in 1..n /\ i + 1 # 0 /\ (i + 1) - 1 = i
      OBVIOUS
    <3>2. f[i + 1] = f[i] + A[i + 1] /\ g[i + 1] = g[i] + A[i + 1]
      BY <1>4, <1>8, <3>1
    <3> QED
      BY <2>2, <3>1, <3>2
  <2> HIDE DEF S
  <2>3. \A i \in 0..n : i \in S
    BY <2>1, <2>2, Induct
  <2> QED
    BY <2>3 DEF S
<1>10. Exact(b, n) = g[n]
  <2>1. n \in 0..n
    OBVIOUS
  <2> QED
    BY <1>7, <1>9, <2>1
<1>11. Sums(g, b, n)
  BY <1>3, <1>4 DEF Sums
<1> QED
  BY <1>10, <1>11

\* A digit more: what fits under w fits under M * w.
LEMMA DigitFits ==
    ASSUME NEW M \in Nat, NEW r \in Nat, r < M, NEW v \in Nat, NEW w \in Nat, v < w
    PROVE  v + r * w < M * w
<1>1. PICK d \in Nat : M = r + 1 + d
  <2>1. M - r - 1 \in Nat /\ M = r + 1 + (M - r - 1)
    OBVIOUS
  <2> QED
    BY <2>1
<1>2. M * w = r * w + w + d * w
  BY <1>1
<1>3. d * w \in Nat /\ r * w \in Nat
  OBVIOUS
<1> QED
  BY <1>2, <1>3

\* The first i groups are smaller than a 1 in the byte after them.
LEMMA SumsFit ==
    ASSUME NEW b \in Seq(Nat), NEW n \in Nat, n <= Len(b), n <= LastGroup + 1,
           NEW s, Sums(s, b, n), NEW k \in Nat, k <= n, k <= LastGroup
    PROVE  \A i \in 0..k : s[i] < Weight[i]
<1> DEFINE S == {i \in 0..k : s[i] < Weight[i]}
<1>1. LastGroup \in Nat /\ More \in Nat /\ More >= 2 /\ Len(b) \in Nat
  BY MoreType, WeightDef, LenProperties
<1>2. 0 \in S
  <2>1. s[0] = 0 /\ Weight[0] = 1
    BY WeightDef DEF Sums
  <2> QED
    BY <2>1
<1>3. ASSUME NEW i \in 0..(k - 1), i \in S PROVE i + 1 \in S
  <2>1. /\ i + 1 \in 1..n /\ (i + 1) - 1 = i /\ i + 1 \in 1..Len(b)
        /\ i + 1 \in 1..LastGroup /\ i \in 0..LastGroup /\ i \in 0..n /\ i + 1 \in 0..k
    BY <1>1
  <2>2. PICK v \in Nat, w \in Nat : v = s[i] /\ w = Weight[i] /\ v < w
    BY <1>3, <2>1, WeightBounds DEF Sums
  <2>3. PICK r \in Nat : r = b[i + 1] % More /\ r < More
    <3>1. b[i + 1] \in Nat
      BY <2>1
    <3> QED
      BY <1>1, <3>1
  <2>4. s[i + 1] = v + r * w
    BY <2>1, <2>2, <2>3 DEF Sums
  <2>5. Weight[i + 1] = More * w
    BY <2>1, <2>2, WeightDef
  <2>6. v + r * w < More * w
    BY <1>1, <2>2, <2>3, DigitFits
  <2> QED
    BY <2>1, <2>4, <2>5, <2>6
<1> HIDE DEF S
<1>4. \A i \in 0..k : i \in S
  BY <1>2, <1>3, Induct
<1> QED
  BY <1>4 DEF S

\* A number that ends where ReadUint64 lets it end is less than a word.
LEMMA ExactFits ==
    ASSUME NEW b \in Seq(Nat), NEW n \in Nat, 1 <= n, n <= Len(b),
           ~Overflows(n - 1, b[n])
    PROVE  Exact(b, n) \in Nat /\ Exact(b, n) < Word
<1>1. LastGroup \in Nat /\ More \in Nat /\ More >= 2 /\ Len(b) \in Nat
  BY MoreType, WeightDef, LenProperties
<1>2. n - 1 <= LastGroup /\ (n - 1 = LastGroup => ~(b[n] > 1))
  BY <1>1 DEF Overflows
<1>3. n <= LastGroup + 1
  BY <1>1, <1>2
<1>4. PICK s : Sums(s, b, n) /\ Exact(b, n) = s[n]
  BY <1>3, ExactSum
<1>5. PICK W \in Nat : W = Weight[LastGroup] /\ W >= 1 /\ Word = 2 * W
  BY WordParts
<1>6. s[n] \in Nat
  BY <1>4 DEF Sums
<1>7. CASE n <= LastGroup
  <2>1. s[n] < Weight[n]
    <3>1. n \in 0..n /\ n <= n
      OBVIOUS
    <3> QED
      BY <1>3, <1>4, <1>7, <3>1, SumsFit
  <2>2. Weight[n] \in Nat /\ Weight[n] <= W
    <3>1. n \in 0..LastGroup
      BY <1>1, <1>7
    <3> QED
      BY <1>5, <3>1, WeightBounds
  <2> QED
    BY <1>4, <1>5, <1>6, <2>1, <2>2
<1>8. CASE n = LastGroup + 1
  <2>1. n - 1 = LastGroup /\ LastGroup \in 0..LastGroup /\ LastGroup \in 0..n /\ LastGroup <= n
        /\ n \in 1..n /\ n \in 1..Len(b)
    BY <1>1, <1>8
  <2>2. s[LastGroup] < W
    <3>1. LastGroup <= LastGroup
      BY <1>1
    <3>2. \A i \in 0..LastGroup : s[i] < Weight[i]
      BY <1>1, <1>3, <1>4, <2>1, <3>1, SumsFit, Zenon
    <3> QED
      BY <1>5, <2>1, <3>2
  <2>3. PICK v \in Nat : v = s[LastGroup]
    BY <1>4, <2>1 DEF Sums
  <2>4. PICK r \in Nat : r = b[n] % More /\ r < 2
    <3>1. b[n] \in Nat /\ b[n] <= 1
      <4>1. b[n] \in Nat
        BY <2>1
      <4> QED
        BY <1>2, <2>1, <4>1
    <3>2. PICK y \in Nat, M \in Nat : y = b[n] /\ M = More /\ y <= 1 /\ M >= 2
      BY <1>1, <3>1, WidthAssumption
    <3>3. y % M = y
      BY <3>2, SmallMod
    <3> QED
      BY <3>2, <3>3
  <2>5. s[n] = v + r * W
    BY <1>4, <1>5, <2>1, <2>3, <2>4 DEF Sums
  <2>6. v + r * W < 2 * W
    BY <2>2, <2>3, <2>4, DigitFits
  <2> QED
    BY <1>4, <1>5, <1>6, <2>5, <2>6
<1> QED
  BY <1>1, <1>3, <1>7, <1>8

\* ReadUint64 stops at the first byte that does not say "more".
LEMMA UintEnds ==
    ASSUME NEW b \in Seq(Nat), NEW n \in 1..Len(b), b[n] < More,
           \A i \in 1..(n - 1) : ~(b[i] < More)
    PROVE  ReadUint64(b) = IF Overflows(n - 1, b[n]) THEN Panic
                           ELSE Value(Exact(b, n) % Word, n)
<1> DEFINE ends == {i \in DOMAIN b : b[i] < More}
           First1 == CHOOSE i \in ends : \A j \in ends : i <= j
<1>1. Len(b) \in Nat /\ DOMAIN b = 1..Len(b)
  BY LenProperties
<1>2. n \in ends /\ \A j \in ends : n <= j
  BY <1>1
<1>3. ends # {}
  BY <1>2
<1>4. First1 \in ends /\ \A j \in ends : First1 <= j
  <2> HIDE DEF ends
  <2> QED
    BY <1>2, Zenon
<1>5. ends \subseteq Nat
  BY <1>1
<1>6. First1 = n
  <2> HIDE DEF First1, ends
  <2>1. First1 \in Nat /\ n \in Nat
    BY <1>2, <1>4, <1>5
  <2> QED
    BY <1>2, <1>4, <2>1
<1>7. ReadUint64(b) = IF ends = {} \/ Overflows(First1 - 1, b[First1]) THEN Panic
                      ELSE Value(Exact(b, First1) % Word, First1)
  BY Zenon DEF ReadUint64
<1> HIDE DEF First1, ends
<1> QED
  BY <1>3, <1>6, <1>7, Zenon

\* Where a number that is read ends.
LEMMA UintEnd ==
    ASSUME NEW b \in Seq(Nat), ReadUint64(b).ok
    PROVE  \E n \in 1..Len(b) :
              /\ b[n] < More /\ ~Overflows(n - 1, b[n])
              /\ \A i \in 1..(n - 1) : ~(b[i] < More)
              /\ ReadUint64(b) = Value(Exact(b, n) % Word, n)
<1> DEFINE ends == {i \in DOMAIN b : b[i] < More}
<1>1. Len(b) \in Nat /\ DOMAIN b = 1..Len(b)
  BY LenProperties
<1>2. ends # {}
  <2>1. ~Panic.ok
    BY DEF Panic
  <2>2. ends = {} => ReadUint64(b) = Panic
    BY Zenon DEF ReadUint64
  <2> QED
    BY <2>1, <2>2, Zenon
<1>3. PICK n \in ends : \A j \in ends : n <= j
  <2>1. ends \subseteq Nat
    BY <1>1
  <2> HIDE DEF ends
  <2> QED
    BY <1>2, <2>1, Least
<1>4. n \in 1..Len(b) /\ b[n] < More /\ \A i \in 1..(n - 1) : ~(b[i] < More)
  BY <1>1, <1>3
<1>5. ReadUint64(b) = IF Overflows(n - 1, b[n]) THEN Panic
                      ELSE Value(Exact(b, n) % Word, n)
  BY <1>4, UintEnds
<1>6. ~Overflows(n - 1, b[n])
  <2>1. ~Panic.ok
    BY DEF Panic
  <2> QED
    BY <1>5, <2>1, Zenon
<1> QED
  BY <1>4, <1>5, <1>6, Zenon

\* ReadUint64 returns the exact number that the bytes stand for or panics,
\* whatever the bytes are: it never returns a number that was cut to fit a
\* word.
THEOREM UintNeverWraps ==
    ASSUME NEW b \in Seq(Nat), ReadUint64(b).ok
    PROVE  /\ ReadUint64(b).value = Exact(b, ReadUint64(b).took)
           /\ ReadUint64(b).value \in Uint
           /\ ReadUint64(b).took \in 1..Len(b)
<1>1. PICK n \in 1..Len(b) :
          /\ ~Overflows(n - 1, b[n])
          /\ ReadUint64(b) = Value(Exact(b, n) % Word, n)
  BY UintEnd
<1>2. n \in Nat /\ 1 <= n /\ n <= Len(b) /\ Word \in Nat \ {0}
  BY LenProperties, WordParts
<1>3. PICK e \in Nat : e = Exact(b, n) /\ e < Word
  BY <1>1, <1>2, ExactFits
<1>4. e % Word = e
  <2>1. PICK W \in Nat : W = Word /\ e < W
    BY <1>2, <1>3
  <2>2. e % W = e
    BY <2>1
  <2> QED
    BY <2>1, <2>2
<1>5. ReadUint64(b) = Value(e, n)
  BY <1>1, <1>3, <1>4
<1>6. ReadUint64(b).value = e /\ ReadUint64(b).took = n
  BY <1>5 DEF Value
<1>7. e \in Uint
  BY <1>2, <1>3 DEF Uint
<1> QED
  BY <1>3, <1>6, <1>7

\* The recursion of WriteUint64, which halves its number, defines a function.
LEMMA UintRecursion ==
    ASSUME NEW n \in Nat, NEW M \in Nat, M >= 2
    PROVE  \E g : g = [x \in 0..(n - 1) |-> IF x < M THEN <<x>>
                           ELSE <<M + (x % M)>> \o g[x \div M]]
<1> DEFINE Step(g, x) == IF x < M THEN <<x>> ELSE <<M + (x % M)>> \o g[x \div M]
           P(k) == \E g : g = [x \in 0..(k - 1) |-> Step(g, x)]
           S == {k \in 0..n : P(k)}
<1>1. 0 \in S
  <2> DEFINE g == [x \in 0..(0 - 1) |-> <<>>]
  <2>1. g = [x \in 0..(0 - 1) |-> Step(g, x)]
    OBVIOUS
  <2> HIDE DEF g, Step
  <2>2. P(0) /\ 0 \in 0..n
    BY <2>1
  <2> QED
    BY <2>2
<1>2. ASSUME NEW i \in 0..(n - 1), i \in S PROVE i + 1 \in S
  <2>1. PICK g : g = [x \in 0..(i - 1) |-> Step(g, x)]
    BY <1>2
  <2> DEFINE h == [x \in 0..i |-> IF x = i THEN Step(g, x) ELSE g[x]]
  <2>2. ASSUME NEW x \in 0..i PROVE h[x] = Step(h, x)
    <3>1. h[x] = Step(g, x)
      <4> HIDE DEF Step
      <4>1. x # i => x \in 0..(i - 1)
        OBVIOUS
      <4>2. x # i => g[x] = Step(g, x)
        BY <2>1, <4>1
      <4> QED
        BY <4>2
    <3>2. CASE x < M
      <4>1. Step(g, x) = <<x>> /\ Step(h, x) = <<x>>
        BY <3>2
      <4> HIDE DEF h, Step
      <4> QED
        BY <3>1, <4>1
    <3>3. CASE ~(x < M)
      <4>1. x \div M \in 0..(x - 1)
        BY <3>3
      <4>2. h[x \div M] = g[x \div M]
        BY <4>1
      <4>3. Step(g, x) = <<M + (x % M)>> \o g[x \div M]
        BY <3>3
      <4>4. Step(h, x) = <<M + (x % M)>> \o h[x \div M]
        BY <3>3
      <4> HIDE DEF h, Step
      <4> QED
        BY <3>1, <4>2, <4>3, <4>4, Zenon
    <3> QED
      BY <3>2, <3>3
  <2>3. h = [x \in 0..i |-> h[x]]
    OBVIOUS
  <2> HIDE DEF h, Step
  <2>4. h = [x \in 0..i |-> Step(h, x)]
    BY <2>2, <2>3
  <2>5. (i + 1) - 1 = i /\ i + 1 \in 0..n
    OBVIOUS
  <2>6. P(i + 1)
    BY <2>4, <2>5
  <2> QED
    BY <2>5, <2>6
<1> HIDE DEF S
<1>3. n \in S
  BY <1>1, <1>2, Induct
<1> QED
  BY <1>3 DEF S

\* What WriteUint64 appends.
LEMMA UintDef ==
    \A x \in Uint : UintBytes[x] =
       IF x < More THEN <<x>>
       ELSE <<More + (x % More)>> \o UintBytes[x \div More]
<1> DEFINE E(g) == g = [x \in Uint |-> IF x < More THEN <<x>>
                           ELSE <<More + (x % More)>> \o g[x \div More]]
<1>1. \E g : E(g)
  <2>1. More \in Nat /\ More >= 2 /\ Word \in Nat
    BY MoreType, WordParts
  <2> QED
    BY <2>1, UintRecursion DEF Uint
<1>2. UintBytes = CHOOSE g : E(g)
  BY Zenon DEF UintBytes
<1>3. E(UintBytes)
  <2> HIDE DEF E
  <2> QED
    BY <1>1, <1>2, Zenon
<1> QED
  BY <1>3

\* q[i] is what is left of x when i groups have been written, and u are the
\* bytes: the groups of x, each but the last with a mark that says "more".
Groups(q, u, x) ==
    /\ u \in Seq(Nat) /\ Len(u) \in Nat /\ Len(u) >= 1
    /\ q \in [0..(Len(u) - 1) -> Nat]
    /\ q[0] = x
    /\ \A i \in 1..(Len(u) - 1) :
          /\ q[i - 1] >= More
          /\ q[i] = q[i - 1] \div More
          /\ u[i] = More + (q[i - 1] % More)
    /\ q[Len(u) - 1] < More
    /\ u[Len(u)] = q[Len(u) - 1]

\* One group before the others.
LEMMA GroupsMore ==
    ASSUME NEW x \in Nat, x >= More, NEW y, y = x \div More,
           NEW q, NEW v, Groups(q, v, y),
           NEW u, u = <<More + (x % More)>> \o v
    PROVE  \E p : Groups(p, u, x)
<1> DEFINE p == [i \in 0..Len(v) |-> IF i = 0 THEN x ELSE q[i - 1]]
<1>1. More \in Nat /\ More >= 2
  BY MoreType
<1>2. /\ v \in Seq(Nat) /\ Len(v) \in Nat /\ Len(v) >= 1
      /\ q \in [0..(Len(v) - 1) -> Nat] /\ q[0] = y
  BY DEF Groups
<1>3. PICK c \in Nat : c = More + (x % More)
  BY <1>1
<1>4. /\ u \in Seq(Nat) /\ Len(u) = Len(v) + 1 /\ u[1] = c
      /\ \A i \in 1..Len(v) : u[i + 1] = v[i]
  BY <1>2, <1>3
<1>5. Len(u) - 1 = Len(v) /\ Len(u) \in Nat /\ Len(u) >= 1
  BY <1>2, <1>4
<1>6. p \in [0..(Len(u) - 1) -> Nat] /\ p[0] = x
  BY <1>2, <1>5
<1>7. ASSUME NEW i \in 1..(Len(u) - 1)
      PROVE  /\ p[i - 1] >= More
             /\ p[i] = p[i - 1] \div More
             /\ u[i] = More + (p[i - 1] % More)
  <2>1. i \in 1..Len(v) /\ i \in 0..Len(v) /\ i - 1 \in 0..Len(v) /\ i # 0
    BY <1>2, <1>5
  <2>2. p[i] = q[i - 1]
    BY <2>1
  <2>3. CASE i = 1
    <3>1. i - 1 = 0 /\ p[i - 1] = x /\ q[i - 1] = y
      BY <1>2, <2>1, <2>3
    <3>2. u[i] = c
      BY <1>4, <2>3
    <3> HIDE DEF p
    <3> QED
      BY <1>3, <2>2, <3>1, <3>2
  <2>4. CASE i # 1
    <3>1. PICK j \in 1..(Len(v) - 1) : j = i - 1
      BY <1>2, <2>1, <2>4
    <3>2. p[i - 1] = q[j - 1] /\ p[i] = q[j]
      BY <1>2, <2>2, <3>1
    <3>3. j \in 1..Len(v) /\ j + 1 = i
      BY <1>2, <3>1
    <3>4. u[i] = v[j]
      BY <1>4, <3>3
    <3>5. q[j - 1] >= More /\ q[j] = q[j - 1] \div More /\ v[j] = More + (q[j - 1] % More)
      BY <3>1 DEF Groups
    <3> HIDE DEF p
    <3> QED
      BY <3>2, <3>4, <3>5
  <2> QED
    BY <2>3, <2>4
<1>8. p[Len(u) - 1] < More /\ u[Len(u)] = p[Len(u) - 1]
  <2>1. p[Len(u) - 1] = q[Len(v) - 1]
    BY <1>2, <1>5
  <2>2. u[Len(u)] = v[Len(v)]
    <3>1. Len(v) \in 1..Len(v) /\ Len(v) + 1 = Len(u)
      BY <1>2, <1>4
    <3> QED
      BY <1>4, <3>1
  <2>3. q[Len(v) - 1] < More /\ v[Len(v)] = q[Len(v) - 1]
    BY DEF Groups
  <2> HIDE DEF p
  <2> QED
    BY <2>1, <2>2, <2>3
<1> HIDE DEF p
<1>9. Groups(p, u, x)
  BY <1>4, <1>5, <1>6, <1>7, <1>8 DEF Groups
<1> QED
  BY <1>9

\* WriteUint64 writes the groups of its number.
LEMMA UintGroups ==
    \A x \in Uint : \E q : Groups(q, UintBytes[x], x)
<1> DEFINE S == {x \in Nat : x < Word => \E q : Groups(q, UintBytes[x], x)}
<1>1. More \in Nat /\ More >= 2 /\ Word \in Nat
  BY MoreType, WordParts
<1>2. ASSUME NEW x \in Nat, \A y \in 0..(x - 1) : y \in S PROVE x \in S
  <2> SUFFICES ASSUME x < Word PROVE \E q : Groups(q, UintBytes[x], x)
    OBVIOUS
  <2>1. x \in Uint
    BY <1>1 DEF Uint
  <2>2. CASE x < More
    <3>1. UintBytes[x] = <<x>>
      BY <2>1, <2>2, UintDef
    <3> DEFINE q == [i \in 0..0 |-> x]
               u == <<x>>
    <3>2. u \in Seq(Nat) /\ Len(u) = 1 /\ u[1] = x /\ Len(u) - 1 = 0
      OBVIOUS
    <3>3. q \in [0..0 -> Nat] /\ q[0] = x
      OBVIOUS
    <3> HIDE DEF q, u
    <3>4. \A i \in 1..(Len(u) - 1) : FALSE
      BY <3>2
    <3>5. Groups(q, u, x)
      BY <2>2, <3>2, <3>3, <3>4 DEF Groups
    <3> QED
      BY <3>1, <3>5 DEF u
  <2>3. CASE ~(x < More)
    <3>1. PICK y \in 0..(x - 1) : y = x \div More
      BY <1>1, <2>3
    <3>2. y < Word /\ y \in S
      BY <1>1, <1>2, <3>1
    <3>3. PICK q : Groups(q, UintBytes[y], y)
      BY <3>2
    <3>4. UintBytes[x] = <<More + (x % More)>> \o UintBytes[y]
      BY <2>1, <2>3, <3>1, UintDef
    <3>5. x >= More
      BY <1>1, <2>3
    <3> QED
      BY <3>1, <3>3, <3>4, <3>5, GroupsMore
  <2> QED
    BY <2>2, <2>3
<1> HIDE DEF S
<1>3. \A x \in Nat : x \in S
  BY <1>2, StrongInduct
<1>4. ASSUME NEW x \in Uint PROVE x \in Nat /\ x < Word
  BY <1>1 DEF Uint
<1> QED
  BY <1>3, <1>4 DEF S

\* The bytes b begin with u.
Prefix(u, b) == Len(u) <= Len(b) /\ \A i \in 1..Len(u) : b[i] = u[i]

\* What ReadUint64 has summed up and what it has yet to read are the number.
LEMMA GroupsSum ==
    ASSUME NEW x \in Nat, NEW u, NEW q, Groups(q, u, x),
           NEW b \in Seq(Nat), Prefix(u, b),
           NEW n \in Nat, n <= Len(u), n <= LastGroup + 1, NEW s, Sums(s, b, n),
           NEW k \in Nat, k <= n, k <= Len(u) - 1, k <= LastGroup
    PROVE  \A i \in 0..k : s[i] + q[i] * Weight[i] = x
<1> DEFINE S == {i \in 0..k : s[i] + q[i] * Weight[i] = x}
<1>1. LastGroup \in Nat /\ More \in Nat /\ More >= 2 /\ Len(u) \in Nat /\ Len(u) >= 1
  BY MoreType, WeightDef DEF Groups
<1>2. 0 \in S
  <2>1. s[0] = 0 /\ Weight[0] = 1 /\ q[0] = x
    BY WeightDef DEF Sums, Groups
  <2>2. 0 + x * 1 = x
    OBVIOUS
  <2> QED
    BY <2>1, <2>2
<1>3. ASSUME NEW i \in 0..(k - 1), i \in S PROVE i + 1 \in S
  <2>1. /\ i + 1 \in 1..n /\ (i + 1) - 1 = i /\ i + 1 \in 1..Len(u)
        /\ i + 1 \in 1..(Len(u) - 1) /\ i \in 0..(Len(u) - 1)
        /\ i + 1 \in 1..LastGroup /\ i \in 0..LastGroup /\ i \in 0..n /\ i + 1 \in 0..k
    BY <1>1
  <2>2. PICK v \in Nat, w \in Nat, z \in Nat : v = s[i] /\ w = Weight[i] /\ z = q[i]
    BY <2>1, WeightBounds DEF Sums, Groups
  <2>3. b[i + 1] = More + (z % More) /\ q[i + 1] = z \div More
    BY <2>1, <2>2 DEF Groups, Prefix
  <2>4. b[i + 1] % More = z % More
    <3>1. PICK r \in Nat : r = z % More /\ r < More
      BY <1>1
    <3>2. (More + r) % More = r
      BY <1>1, <3>1, SmallMod
    <3> QED
      BY <2>3, <3>1, <3>2
  <2>5. s[i + 1] = v + (z % More) * w
    BY <2>1, <2>2, <2>4 DEF Sums
  <2>6. Weight[i + 1] = More * w
    BY <2>1, <2>2, WeightDef
  <2>7. v + z * w = x
    BY <1>3, <2>2
  <2>8. (v + (z % More) * w) + (z \div More) * (More * w) = x
    <3>1. PICK M \in Nat \ {0} : M = More
      BY <1>1
    <3>2. PICK r \in Nat, d \in Nat : r = z % M /\ d = z \div M /\ z = M * d + r
      <4>1. z % M \in Nat /\ z \div M \in Nat /\ z = M * (z \div M) + (z % M)
        OBVIOUS
      <4> QED
        BY <4>1
    <3>3. z * w = (M * d) * w + r * w
      <4>1. PICK p \in Nat : p = M * d
        OBVIOUS
      <4>2. (p + r) * w = p * w + r * w
        BY Distributes
      <4> QED
        BY <3>2, <4>1, <4>2, Zenon
    <3>4. (M * d) * w = d * (M * w)
      OBVIOUS
    <3>5. (M * d) * w \in Nat /\ r * w \in Nat
      OBVIOUS
    <3>6. (v + r * w) + d * (M * w) = v + z * w
      BY <3>3, <3>4, <3>5
    <3> QED
      BY <2>7, <3>1, <3>2, <3>6, Zenon
  <2>9. s[i + 1] + q[i + 1] * Weight[i + 1] = x
    BY <2>3, <2>5, <2>6, <2>8, Zenon
  <2> QED
    BY <2>1, <2>9
<1> HIDE DEF S
<1>4. \A i \in 0..k : i \in S
  BY <1>2, <1>3, Induct
<1> QED
  BY <1>4 DEF S

\* The groups of a word fit into LastGroup + 1 bytes, and the last of so many
\* is at most 1.
LEMMA GroupsFit ==
    ASSUME NEW x \in Nat, x < Word, NEW u, NEW q, Groups(q, u, x),
           NEW b \in Seq(Nat), Prefix(u, b)
    PROVE  /\ Len(u) - 1 <= LastGroup
           /\ Len(u) - 1 = LastGroup => u[Len(u)] <= 1
<1>1. /\ LastGroup \in Nat /\ More \in Nat /\ More >= 2
      /\ Len(u) \in Nat /\ Len(u) >= 1 /\ Len(b) \in Nat
  BY MoreType, WeightDef, LenProperties DEF Groups
<1>2. CASE Len(u) - 1 < LastGroup
  BY <1>1, <1>2
<1>3. CASE Len(u) - 1 >= LastGroup
  <2>1. /\ LastGroup <= Len(b) /\ LastGroup <= LastGroup + 1 /\ LastGroup <= LastGroup
        /\ LastGroup <= Len(u) /\ LastGroup <= Len(u) - 1
        /\ LastGroup \in 0..LastGroup /\ LastGroup \in 0..(Len(u) - 1)
    BY <1>1, <1>3 DEF Prefix
  <2>2. PICK s : Sums(s, b, LastGroup)
    BY <1>1, <2>1, ExactSum
  <2>3. \A i \in 0..LastGroup : s[i] + q[i] * Weight[i] = x
    BY <1>1, <2>1, <2>2, GroupsSum
  <2>4. PICK v \in Nat, w \in Nat, z \in Nat :
            v = s[LastGroup] /\ w = Weight[LastGroup] /\ z = q[LastGroup]
    BY <2>1, <2>2, WeightBounds DEF Sums, Groups
  <2>5. v + z * w = x /\ x < 2 * w
    <3>1. Word = 2 * w
      BY <2>4, WordParts
    <3> QED
      BY <2>1, <2>3, <2>4, <3>1
  <2>6. z <= 1
    <3>1. SUFFICES ASSUME z >= 2 PROVE FALSE
      OBVIOUS
    <3>2. PICK d \in Nat : z = 2 + d
      <4>1. z - 2 \in Nat /\ z = 2 + (z - 2)
        BY <3>1
      <4> QED
        BY <4>1
    <3>3. z * w = 2 * w + d * w /\ d * w \in Nat
      BY <3>2
    <3> QED
      BY <2>5, <3>3
  <2>7. ~(LastGroup < Len(u) - 1)
    <3>1. SUFFICES ASSUME LastGroup < Len(u) - 1 PROVE FALSE
      OBVIOUS
    <3>2. LastGroup + 1 \in 1..(Len(u) - 1) /\ (LastGroup + 1) - 1 = LastGroup
      BY <1>1, <3>1
    <3>3. z >= More
      BY <2>4, <3>2 DEF Groups
    <3> QED
      BY <1>1, <2>6, <3>3
  <2>8. Len(u) - 1 = LastGroup
    BY <1>1, <1>3, <2>7
  <2>9. u[Len(u)] = z
    BY <2>4, <2>8 DEF Groups
  <2> QED
    BY <1>1, <2>6, <2>8, <2>9
<1> QED
  BY <1>1, <1>2, <1>3

\* The parser reads a number that is there, whatever follows it.
LEMMA UintRead ==
    ASSUME NEW x \in Uint, NEW b \in Seq(Nat), Prefix(UintBytes[x], b)
    PROVE  ReadUint64(b) = Value(x, Len(UintBytes[x]))
<1>1. PICK u : u = UintBytes[x]
  OBVIOUS
<1>2. PICK q : Groups(q, u, x)
  BY <1>1, UintGroups
<1>3. x \in Nat /\ x < Word /\ Word \in Nat \ {0} /\ Prefix(u, b)
  BY <1>1, WordParts DEF Uint
<1>4. PICK n \in Nat : n = Len(u) /\ n >= 1
  BY <1>2 DEF Groups
<1>5. LastGroup \in Nat /\ More \in Nat /\ More >= 2 /\ Len(b) \in Nat
  BY MoreType, WeightDef, LenProperties
<1>6. n - 1 <= LastGroup /\ (n - 1 = LastGroup => u[n] <= 1)
  BY <1>2, <1>3, <1>4, GroupsFit
<1>7. /\ n \in 1..Len(b) /\ n <= Len(b) /\ n <= LastGroup + 1 /\ n <= n /\ n \in 1..n
      /\ n - 1 \in Nat /\ n - 1 <= n /\ n - 1 <= n - 1 /\ n - 1 \in 0..(n - 1)
      /\ n - 1 \in 0..LastGroup /\ n \in 0..n /\ n - 1 \in 0..n
  BY <1>3, <1>4, <1>5, <1>6 DEF Prefix
<1>8. PICK z \in Nat : z = q[n - 1] /\ z < More /\ u[n] = z /\ b[n] = z
  BY <1>2, <1>3, <1>4, <1>7 DEF Groups, Prefix
<1>9. ASSUME NEW i \in 1..(n - 1) PROVE ~(b[i] < More)
  <2>1. i \in 1..n /\ i - 1 \in 0..(n - 1)
    BY <1>4
  <2>2. b[i] = More + (q[i - 1] % More) /\ q[i - 1] \in Nat
    BY <1>2, <1>3, <1>4, <2>1 DEF Groups, Prefix
  <2>3. q[i - 1] % More \in Nat
    BY <1>5, <2>2
  <2> QED
    BY <1>5, <2>2, <2>3
<1>10. ~Overflows(n - 1, b[n])
  BY <1>5, <1>6, <1>7, <1>8 DEF Overflows
<1>11. ReadUint64(b) = Value(Exact(b, n) % Word, n)
  <2>1. ReadUint64(b) = IF Overflows(n - 1, b[n]) THEN Panic
                        ELSE Value(Exact(b, n) % Word, n)
    BY <1>7, <1>8, <1>9, UintEnds
  <2> QED
    BY <1>10, <2>1
<1>12. Exact(b, n) = x
  <2>1. PICK s : Sums(s, b, n) /\ Exact(b, n) = s[n]
    BY <1>7, ExactSum
  <2>2. \A i \in 0..(n - 1) : s[i] + q[i] * Weight[i] = x
    <3>1. PICK k \in Nat : k = n - 1
      BY <1>7
    <3>2. n <= Len(u) /\ k <= Len(u) - 1 /\ k <= n /\ k <= LastGroup
      BY <1>4, <1>6, <1>7, <3>1
    <3>3. \A i \in 0..k : s[i] + q[i] * Weight[i] = x
      BY <1>2, <1>3, <1>7, <2>1, <3>2, GroupsSum, SMTT(40)
    <3> QED
      BY <3>1, <3>3
  <2>3. PICK v \in Nat, w \in Nat : v = s[n - 1] /\ w = Weight[n - 1]
    BY <1>7, <2>1, WeightBounds DEF Sums
  <2>4. v + z * w = x
    BY <1>7, <1>8, <2>2, <2>3
  <2>5. s[n] = v + (b[n] % More) * w
    BY <1>7, <2>1, <2>3 DEF Sums
  <2>6. b[n] % More = z
    <3>1. z % More = z
      BY <1>5, <1>8, SmallMod, Zenon
    <3> QED
      BY <1>8, <3>1
  <2> QED
    BY <2>1, <2>4, <2>5, <2>6
<1>13. x % Word = x
  <2>1. PICK W \in Nat : W = Word /\ x < W
    BY <1>3
  <2>2. x % W = x
    BY <1>3, <2>1
  <2> QED
    BY <2>1, <2>2
<1> QED
  BY <1>1, <1>4, <1>11, <1>12, <1>13

\* A sequence begins with what it was made from.
LEMMA PrefixOf ==
    ASSUME NEW u \in Seq(Nat), NEW rest \in Seq(Nat)
    PROVE  u \o rest \in Seq(Nat) /\ Prefix(u, u \o rest)
<1>1. /\ u \o rest \in Seq(Nat) /\ Len(u) \in Nat /\ Len(rest) \in Nat
      /\ Len(u \o rest) = Len(u) + Len(rest)
      /\ \A i \in 1..Len(u) : (u \o rest)[i] = u[i]
  BY Begins
<1>2. Len(u) <= Len(u \o rest)
  BY <1>1
<1> QED
  BY <1>1, <1>2 DEF Prefix

\* WriteUint64 writes bytes.
LEMMA UintType ==
    ASSUME NEW x \in Uint
    PROVE  UintBytes[x] \in Seq(Nat) /\ Len(UintBytes[x]) >= 1
BY UintGroups DEF Groups

\* ReadUint64 reads every number that WriteUint64 writes, for every width of
\* a word, and takes no byte of what follows.
THEOREM UintRoundTrip ==
    ASSUME NEW x \in Uint, NEW rest \in Seq(Nat)
    PROVE  ReadUint64(UintBytes[x] \o rest) = Value(x, Len(UintBytes[x]))
BY UintType, PrefixOf, UintRead

----------------------------------------------------------------------------
(* Signed numbers.                                                         *)

\* ReadInt64 changes the value that ReadUint64 read and nothing else.
LEMMA NewValue ==
    ASSUME NEW u \in Int, NEW v \in Int, NEW t \in Int
    PROVE  LET r == [[ok |-> TRUE, value |-> u, took |-> t] EXCEPT !.value = v]
           IN  r.ok /\ r.value = v /\ r.took = t
  OBVIOUS

\* WriteInt64 turns every signed number into an unsigned one of a word, from
\* which it can be had back: no sign is lost at either end of the range.
LEMMA ZigZagParts ==
    ASSUME NEW x \in Int64
    PROVE  /\ ZigZag(x) \in Uint
           /\ \E u \in Nat :
                 u = ZigZag(x) /\ x = IF u % 2 = 0 THEN u \div 2 ELSE -(u \div 2) - 1
<1>1. PICK h \in Nat : h = Word \div 2 /\ Word = 2 * h /\ h > 0
  BY WordParts
<1>2. x \in Int /\ -h <= x /\ x < h
  BY <1>1 DEF Int64
<1>3. PICK u \in Nat : u = ZigZag(x) /\ u < 2 * h
                        /\ x = IF u % 2 = 0 THEN u \div 2 ELSE -(u \div 2) - 1
  <2>1. CASE x >= 0
    <3>1. (2 * x) % Word = 2 * x
      <4>1. 2 * x \in Nat /\ 2 * x < 2 * h /\ 2 * h \in Nat
        BY <1>2, <2>1
      <4> QED
        BY <1>1, <4>1, SmallMod
    <3>2. ZigZag(x) = 2 * x
      BY <1>2, <2>1, <3>1 DEF ZigZag
    <3>3. 2 * x \in Nat /\ 2 * x < 2 * h /\ (2 * x) % 2 = 0 /\ (2 * x) \div 2 = x
      BY <1>2, <2>1
    <3> QED
      BY <3>2, <3>3
  <2>2. CASE x < 0
    <3>1. PICK y \in Nat : y = -x - 1 /\ y < h
      BY <1>2, <2>2
    <3>2. ZigZag(x) = 2 * y + 1
      <4>1. CASE x = -h
        <5>1. (2 * x) % Word = 0
          BY <1>1, <4>1
        <5> QED
          BY <1>1, <1>2, <2>2, <3>1, <4>1, <5>1 DEF ZigZag
      <4>2. CASE x # -h
        <5>1. (2 * x) % Word = 2 * x + 2 * h
          BY <1>1, <1>2, <2>2, <4>2
        <5> QED
          BY <1>1, <1>2, <2>2, <3>1, <5>1 DEF ZigZag
      <4> QED
        BY <4>1, <4>2
    <3>3. (2 * y + 1) % 2 = 1 /\ (2 * y + 1) \div 2 = y /\ 2 * y + 1 < 2 * h
      BY <3>1
    <3>4. x = -y - 1
      BY <1>2, <3>1
    <3> QED
      BY <3>2, <3>3, <3>4
  <2> QED
    BY <1>2, <2>1, <2>2
<1>4. ZigZag(x) \in Uint
  BY <1>1, <1>3 DEF Uint
<1> QED
  BY <1>3, <1>4

\* ReadInt64 gets the sign and the number back.
LEMMA SignRead ==
    ASSUME NEW x \in Int64, NEW b \in Seq(Nat), NEW t \in Nat,
           ReadUint64(b) = Value(ZigZag(x), t)
    PROVE  ReadInt64(b).ok /\ ReadInt64(b).value = x /\ ReadInt64(b).took = t
<1>1. x \in Int
  BY WordParts DEF Int64
<1>2. PICK u \in Nat :
          u = ZigZag(x) /\ x = IF u % 2 = 0 THEN u \div 2 ELSE -(u \div 2) - 1
  BY ZigZagParts
<1>3. ReadUint64(b) = [ok |-> TRUE, value |-> u, took |-> t]
  BY <1>2 DEF Value
<1>4. ReadInt64(b).ok /\ ReadInt64(b).value = x /\ ReadInt64(b).took = t
  <2>1. ReadUint64(b).ok
    BY <1>3
  <2>2. ReadInt64(b) = [ReadUint64(b) EXCEPT !.value =
                           IF @ % 2 = 0 THEN @ \div 2 ELSE -(@ \div 2) - 1]
    BY <2>1 DEF ReadInt64, Then
  <2> DEFINE v == IF u % 2 = 0 THEN u \div 2 ELSE -(u \div 2) - 1
             rec == [ok |-> TRUE, value |-> u, took |-> t]
  <2>3. ReadInt64(b) = [rec EXCEPT !.value = v]
    <3>1. rec.value = u /\ ReadUint64(b) = rec
      BY <1>3
    <3> HIDE DEF rec
    <3>2. [ReadUint64(b) EXCEPT !.value =
             IF @ % 2 = 0 THEN @ \div 2 ELSE -(@ \div 2) - 1]
             = [rec EXCEPT !.value = v]
      BY <3>1, Zenon
    <3> QED
      BY <2>2, <3>2
  <2>4. v = x
    BY <1>2
  <2> HIDE DEF v
  <2>5. v \in Int
    BY <1>1, <2>4
  <2> QED
    BY <2>3, <2>4, <2>5, NewValue
<1> QED
  BY <1>4

\* WriteInt64 writes bytes.
LEMMA IntType ==
    ASSUME NEW x \in Int64
    PROVE  IntBytes(x) \in Seq(Nat) /\ Len(IntBytes(x)) >= 1
BY ZigZagParts, UintType DEF IntBytes

\* ReadInt64 reads every number that WriteInt64 writes, for every width of a
\* word and at either end of the range, and takes no byte of what follows.
THEOREM IntRoundTrip ==
    ASSUME NEW x \in Int64, NEW rest \in Seq(Nat)
    PROVE  LET read == ReadInt64(IntBytes(x) \o rest)
           IN  read.ok /\ read.value = x /\ read.took = Len(IntBytes(x))
<1>1. ZigZag(x) \in Uint
  BY ZigZagParts
<1>2. PICK b \in Seq(Nat), t \in Nat : b = IntBytes(x) \o rest /\ t = Len(IntBytes(x))
  <2>1. IntBytes(x) \in Seq(Nat)
    BY IntType
  <2>2. IntBytes(x) \o rest \in Seq(Nat) /\ Len(IntBytes(x)) \in Nat
    BY <2>1, Begins
  <2> QED
    BY <2>2
<1>3. ReadUint64(b) = Value(ZigZag(x), t)
  BY <1>1, <1>2, UintRoundTrip DEF IntBytes
<1>4. ReadInt64(b).ok /\ ReadInt64(b).value = x /\ ReadInt64(b).took = t
  BY <1>3, SignRead
<1> QED
  BY <1>2, <1>4

----------------------------------------------------------------------------
(* Strings.                                                                *)

\* A slice of a sequence of bytes.
LEMMA Slice ==
    ASSUME NEW b \in Seq(Nat), NEW m \in Nat, NEW k \in Nat,
           1 <= m, m <= k, k <= Len(b)
    PROVE  /\ SubSeq(b, m, k) \in Seq(Nat)
           /\ Len(SubSeq(b, m, k)) = k - m + 1
           /\ \A i \in 1..(k - m + 1) : SubSeq(b, m, k)[i] = b[m + i - 1]
<1>1. Len(b) \in Nat /\ \A i \in 1..Len(b) : b[i] \in Nat
  BY LenProperties
<1>2. SubSeq(b, m, k) \in Seq(Nat)
  BY <1>1
<1>3. Len(SubSeq(b, m, k)) = k - m + 1
  BY <1>1
<1>4. \A i \in 1..(k - m + 1) : SubSeq(b, m, k)[i] = b[m + i - 1]
  BY <1>1
<1> QED
  BY <1>2, <1>3, <1>4, Zenon

\* Fields written one after another are one sequence of bytes.
LEMMA Regroup ==
    ASSUME NEW p \in Seq(Nat), NEW q \in Seq(Nat), NEW rest \in Seq(Nat)
    PROVE  (p \o q) \o rest = p \o (q \o rest)
<1> DEFINE a == (p \o q) \o rest
           b == p \o (q \o rest)
<1>1. Len(p) \in Nat /\ Len(q) \in Nat /\ Len(rest) \in Nat
  OBVIOUS
<1>2. p \o q \in Seq(Nat) /\ q \o rest \in Seq(Nat)
  OBVIOUS
<1>3. a \in Seq(Nat) /\ b \in Seq(Nat)
  BY <1>2
<1>4. Len(p \o q) = Len(p) + Len(q) /\ Len(q \o rest) = Len(q) + Len(rest)
  OBVIOUS
<1>5. /\ Len(a) = Len(p) + Len(q) + Len(rest)
      /\ Len(b) = Len(p) + Len(q) + Len(rest)
  BY <1>1, <1>2, <1>4
<1>6. ASSUME NEW i \in 1..Len(a) PROVE a[i] = b[i]
  BY <1>1, <1>2, <1>4, <1>5, ConcatProperties
<1> HIDE DEF a, b
<1>7. a = b
  BY <1>3, <1>5, <1>6, SeqEqual
<1> QED
  BY <1>7 DEF a, b

\* The bytes of a string that has any, and what follows them: ReadLen finds
\* the length, and the string is where the length says.
LEMMA StringPlaced ==
    ASSUME NEW s \in Seq(Nat), s # <<>>, Len(s) < MaxLen, NEW rest \in Seq(Nat),
           NEW b \in Seq(Nat), b = StringBytes(s) \o rest,
           NEW l \in Nat, l = Len(LenBytes(Len(s)))
    PROVE  /\ l \in Nat /\ Len(s) \in Nat /\ Len(s) > 0
           /\ Len(StringBytes(s)) = l + Len(s)
           /\ b \in Seq(Nat) /\ Len(b) \in Nat /\ Len(b) >= l + Len(s)
           /\ ReadLen(b) = Value(Len(s), l)
           /\ SubSeq(b, l + 1, l + Len(s)) = s
<1> DEFINE p == LenBytes(Len(s))
<1>1. Len(s) \in Nat /\ Len(s) > 0
  <2>1. Len(s) \in Nat
    BY LenProperties
  <2>2. Len(s) # 0
    BY EmptySeq
  <2> QED
    BY <2>1, <2>2
<1>2. p \in Seq(Nat)
  BY <1>1, LenType
<1>3. ReadLen(p \o (s \o rest)) = Value(Len(s), l)
  <2>1. s \o rest \in Seq(Nat)
    BY ConcatProperties
  <2> QED
    BY <1>1, <2>1, LenRoundTrip, Zenon
<1>4. StringBytes(s) = p \o s
  BY Zenon DEF StringBytes
<1> HIDE DEF p
<1>5. p \o s \in Seq(Nat) /\ Len(p \o s) = Len(p) + Len(s) /\ Len(p) \in Nat
  BY <1>2, ConcatProperties, LenProperties
<1>6. b = p \o (s \o rest)
  <2>1. b = (p \o s) \o rest
    BY <1>4
  <2> QED
    BY <1>2, <2>1, Regroup, Zenon
<1>7. l = Len(p)
  BY DEF p
<1>8. b \in Seq(Nat) /\ Len(b) = Len(p \o s) + Len(rest) /\ Len(rest) \in Nat
  <2>1. b = (p \o s) \o rest
    BY <1>4
  <2> QED
    BY <1>5, <2>1, ConcatProperties, LenProperties
<1>9. SubSeq(b, l + 1, l + Len(s)) = s
  <2> DEFINE n == l + Len(s)
  <2>1. /\ l \in Nat /\ n \in Nat /\ l < n /\ n - (l + 1) + 1 = Len(s)
        /\ l + 1 \in Nat /\ 1 <= l + 1 /\ l + 1 <= n
    BY <1>1, <1>5, <1>7
  <2>2. n <= Len(b) /\ Len(b) \in Nat
    BY <1>1, <1>5, <1>7, <1>8
  <2> HIDE DEF n
  <2> DEFINE r == SubSeq(b, l + 1, n)
  <2>3. /\ r \in Seq(Nat)
        /\ Len(r) = n - (l + 1) + 1
        /\ \A i \in 1..(n - (l + 1) + 1) : r[i] = b[(l + 1) + i - 1]
    <3>1. PICK m \in Nat : m = l + 1
      BY <2>1
    <3>2. 1 <= m /\ m <= n /\ n \in Nat /\ n <= Len(b)
      BY <2>1, <2>2, <3>1
    <3>3. /\ SubSeq(b, m, n) \in Seq(Nat)
          /\ Len(SubSeq(b, m, n)) = n - m + 1
          /\ \A i \in 1..(n - m + 1) : SubSeq(b, m, n)[i] = b[m + i - 1]
      BY <3>2, Slice, ZenonT(40)
    <3> QED
      BY <3>1, <3>3, Zenon
  <2> HIDE DEF r
  <2>4. Len(r) = Len(s)
    BY <2>1, <2>3
  <2>5. \A i \in 1..Len(s) : r[i] = s[i]
    <3> SUFFICES ASSUME NEW i \in 1..Len(s) PROVE r[i] = s[i]
      OBVIOUS
    <3>1. r[i] = b[l + i]
      <4>1. i \in 1..(n - (l + 1) + 1) /\ (l + 1) + i - 1 = l + i
        BY <2>1
      <4> QED
        BY <2>3, <4>1, Zenon
    <3>2. s \o rest \in Seq(Nat) /\ (s \o rest)[i] = s[i]
      BY Begins
    <3>3. l + i > Len(p) /\ l + i <= Len(p) + Len(s \o rest)
      BY <1>1, <1>5, <1>7, <1>8, ConcatProperties, SMTT(40)
    <3> QED
      BY <1>1, <1>2, <1>5, <1>6, <1>7, <3>1, <3>2, <3>3, ConcatProperties
  <2>6. r = s
    BY <2>3, <2>4, <2>5, SeqEqual, Zenon
  <2> QED
    BY <2>6, Zenon DEF r, n
<1>10. Len(b) \in Nat /\ Len(b) >= l + Len(s)
  BY <1>1, <1>5, <1>7, <1>8
<1>11. Len(StringBytes(s)) = l + Len(s)
  BY <1>4, <1>5, <1>7
<1> QED
  BY <1>1, <1>3, <1>5, <1>6, <1>7, <1>8, <1>9, <1>10, <1>11, Zenon

\* ReadString reads every string that WriteString writes and takes no byte of
\* what follows; the empty string is read as such, and not as NULL.
THEOREM StringRoundTrip ==
    ASSUME NEW s \in Seq(Nat), Len(s) < MaxLen, NEW rest \in Seq(Nat)
    PROVE  ReadString(StringBytes(s) \o rest) = Value(s, Len(StringBytes(s)))
<1>1. CASE s # <<>>
  <2>1. PICK b \in Seq(Nat), l \in Nat :
            b = StringBytes(s) \o rest /\ l = Len(LenBytes(Len(s)))
    <3>1. Len(s) \in Nat
      BY LenProperties
    <3>2. LenBytes(Len(s)) \in Seq(Nat)
      BY <3>1, LenType
    <3>3. Len(LenBytes(Len(s))) \in Nat
      BY <3>2, LenProperties
    <3>4. StringBytes(s) = LenBytes(Len(s)) \o s
      BY <1>1 DEF StringBytes
    <3>5. StringBytes(s) \o rest \in Seq(Nat)
      BY <3>2, <3>4, ConcatProperties
    <3> QED
      BY <3>3, <3>5, Zenon
  <2>2. /\ l \in Nat /\ Len(s) \in Nat /\ Len(s) > 0
        /\ Len(StringBytes(s)) = l + Len(s)
        /\ Len(b) \in Nat /\ Len(b) >= l + Len(s)
        /\ ReadLen(b) = Value(Len(s), l)
        /\ SubSeq(b, l + 1, l + Len(s)) = s
    BY <1>1, <2>1, StringPlaced, Zenon
  <2>3. ReadLen(b).ok /\ ReadLen(b).value = Len(s) /\ ReadLen(b).took = l
    BY <2>2 DEF Value
  <2>4. ~(l + Len(s) > Len(b))
    BY <2>2
  <2>5. ReadString(b) = Value(SubSeq(b, l + 1, l + Len(s)), l + Len(s))
    BY <2>2, <2>3, <2>4 DEF ReadString, Then
  <2> QED
    BY <2>1, <2>2, <2>5, Zenon
<1>2. CASE s = <<>>
  <2>1. StringBytes(s) = <<0, 1>> /\ Len(StringBytes(s)) = 2
    BY <1>2 DEF StringBytes
  <2>2. PICK b : b = <<0, 1>> \o rest
    BY Zenon
  <2>3. /\ b \in Seq(Nat) /\ Len(b) \in Nat /\ Len(b) >= 2
        /\ b[1] = 0 /\ b[2] = 1
    BY <2>2, LenProperties
  <2>4. More \in Nat /\ More >= 2
    BY Widths
  <2>5. ReadLen(b) = Value(0, 1)
    <3>1. b # <<>>
      BY <2>3, EmptySeq
    <3> QED
      BY <2>3, <2>4, <3>1 DEF ReadLen
  <2>6. PICK c \in Seq(Nat) : c = Drop(b, 1) /\ Len(c) \in Nat /\ Len(c) >= 1 /\ c[1] = 1
    <3>1. Drop(b, 1) = SubSeq(b, 2, Len(b))
      BY DEF Drop
    <3>2. \A i \in 2..Len(b) : b[i] \in Nat
      BY <2>3, LenProperties
    <3>3. /\ SubSeq(b, 2, Len(b)) \in Seq(Nat)
          /\ Len(SubSeq(b, 2, Len(b))) = IF 2 <= Len(b) THEN Len(b) - 2 + 1 ELSE 0
          /\ \A i \in 1..(Len(b) - 2 + 1) : SubSeq(b, 2, Len(b))[i] = b[2 + i - 1]
      BY <2>3, <3>2, SubSeqProperties
    <3>4. SubSeq(b, 2, Len(b))[1] = 1
      <4>1. 1 \in 1..(Len(b) - 2 + 1) /\ 2 + 1 - 1 = 2
        BY <2>3
      <4> QED
        BY <2>3, <3>3, <4>1
    <3>5. Len(SubSeq(b, 2, Len(b))) \in Nat /\ Len(SubSeq(b, 2, Len(b))) >= 1
      BY <2>3, <3>3
    <3> QED
      BY <3>1, <3>3, <3>4, <3>5, Zenon
  <2>7. ReadLen(Drop(b, 1)) = Value(1, 1)
    <3>1. c # <<>>
      BY <2>6, EmptySeq
    <3> QED
      BY <2>4, <2>6, <3>1 DEF ReadLen
  <2>8. ReadLen(b).ok /\ ReadLen(b).value = 0 /\ ReadLen(b).took = 1
    BY <2>5 DEF Value
  <2>9. /\ ReadLen(Drop(b, 1)).ok /\ ReadLen(Drop(b, 1)).value = 1
        /\ ReadLen(Drop(b, 1)).took = 1
    BY <2>7 DEF Value
  <2>10. ReadString(b) = Value(<<>>, 1 + 1)
    BY <2>8, <2>9 DEF ReadString, Then
  <2>11. StringBytes(s) \o rest = b
    BY <2>1, <2>2, Zenon
  <2>12. 1 + 1 = 2
    OBVIOUS
  <2>13. ReadString(b) = Value(<<>>, 2)
    BY <2>10, <2>12
  <2> QED
    BY <1>2, <2>1, <2>11, <2>13, Zenon
<1> QED
  BY <1>1, <1>2
=============================================================================
