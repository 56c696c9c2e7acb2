---------------------------- MODULE FrameHeader ----------------------------
(***************************************************************************)
(* The four bytes of a frame header (src/frameheader.go): a 16-bit Size,   *)
(* three flags and a 13-bit Conn ID, packed so that the flags share a byte *)
(* with the high bits of the ID.  A setter is an operator from a header to *)
(* a header.                                                               *)
(***************************************************************************)
EXTENDS Integers, Sequences

\* rap.go: the ID of Muxer control frames, all 13 bits set
MuxerConnID == 8191

FrameHeaderSize == 4

Flag == {"Head", "Body", "Flow"}

Bit == [Head |-> 32, Body |-> 64, Flow |-> 128]

\* Is the flag's bit set in the byte b?
Has(b, f) == (b \div Bit[f]) % 2 = 1

\* b | bit
Or(b, f) == IF Has(b, f) THEN b ELSE b + Bit[f]

\* b & FrameFlagMask, and b with the mask's bits cleared
Masked(b) == (b \div 32) * 32
Unmasked(b) == b % 32

\* The byte with exactly these flags, as in SetMuxerControl's argument.
Control(fs) ==
    (IF "Head" \in fs THEN 32 ELSE 0) + (IF "Body" \in fs THEN 64 ELSE 0)
    + (IF "Flow" \in fs THEN 128 ELSE 0)

----------------------------------------------------------------------------
(* Reading a header.                                                       *)

SizeValue(h) == h[1] * 256 + h[2]

ConnID(h) == Unmasked(h[3]) * 256 + h[4]

\* FrameControl, and MuxerControl for a frame of the Muxer
FrameControl(h) == {f \in Flag : Has(h[3], f)}

IsMuxerControl(h) == ConnID(h) = MuxerConnID

HasPayload(h) == ~Has(h[3], "Flow") /\ (Has(h[3], "Body") \/ Has(h[3], "Head"))

IsAck(h) == Masked(h[3]) = Control({"Flow"})

\* Mutant: a final frame is known by its Flow bit.
IsFinal_Mutant(h) == Has(h[3], "Flow")

IsFinal(h) == Has(h[3], "Flow") /\ Has(h[3], "Body")

IsFinalAck(h) == Masked(h[3]) = Control(Flag)

----------------------------------------------------------------------------
(* Setting a header.                                                       *)

\* setLargeValue: the argument is converted to 16 bits
SetSizeValue(h, n) == [h EXCEPT ![1] = (n % 65536) \div 256, ![2] = n % 256]

\* SetConnID, and setSmallValue
SetConnID(h, n) == [h EXCEPT ![3] = Masked(@) + n \div 256, ![4] = n % 256]

SetMuxerControl(h, fs) ==
    SetConnID([h EXCEPT ![3] = Unmasked(@) + Control(fs)], MuxerConnID)

\* SetFlow, SetHead and SetBody
SetFlag(h, f) == [h EXCEPT ![3] = Or(@, f)]

\* Mutant: what a recycled frame has in its header is kept.
ClearID_Mutant(h, n) == SetConnID(h, n)

\* Clear, then SetConnID
ClearID(h, n) == SetConnID([i \in DOMAIN h |-> 0], n)
=============================================================================
