--------------------------- MODULE ConnPoolProofs ---------------------------
(***************************************************************************)
(* The Conn pool is right for any number of callers and of Conn IDs.       *)
(*                                                                         *)
(* OneOwner is inductive together with where a caller may hold a Conn      *)
(* (Local) and what is known of the Conns in the channel (Made).  That     *)
(* ConnRelease always finds room is a matter of counting (Counted): the    *)
(* releasing caller's own Conn is not in the channel.                      *)
(***************************************************************************)
EXTENDS ConnPool, FiniteSetTheorems, SequenceTheorems, TLAPS

Local ==
    \A g \in Caller :
        /\ conn[g] # 0 <=> pc[g] \in {"publish", "hold"}
        /\ conn[g] <= connLastID
        /\ pc[g] = "cas" => lastID[g] < MaxConnID

Made == \A i \in DOMAIN conns : conns[i] <= connLastID

Counted ==
    /\ IsFiniteSet(Holders)
    /\ connLastID = Len(conns) + Cardinality(Holders)

IInv ==
    /\ TypeOK
    /\ Local
    /\ Made
    /\ Counted
    /\ OneOwner
    /\ ReleaseFits

----------------------------------------------------------------------------
\* The pool starts empty, with no ID reserved.
LEMMA InitIInv == Init => IInv
<1> SUFFICES ASSUME Init PROVE IInv
  OBVIOUS
<1>1. TypeOK
  <2>1. <<>> \in Seq(ConnID) /\ 0 \in 0..MaxConnID
    BY MaxConnAssumption
  <2> QED
    BY <2>1, Zenon DEF Init, TypeOK
<1>2. conns = <<>> /\ Len(conns) = 0 /\ DOMAIN conns = {} /\ connLastID = 0
  BY DEF Init
<1>3. \A g \in Caller : conn[g] = 0 /\ pc[g] = "idle"
  BY Zenon DEF Init
<1>4. Holders = {}
  BY <1>3 DEF Holders
<1>5. Counted
  BY <1>2, <1>4, FS_EmptySet DEF Counted
<1>6. Local /\ Made
  BY <1>2, <1>3 DEF Local, Made
<1>7. OneOwner
  BY <1>2, <1>4 DEF OneOwner
<1>8. ReleaseFits
  BY <1>3 DEF Init, ReleaseFits
<1> QED
  BY <1>1, <1>5, <1>6, <1>7, <1>8 DEF IInv

\* What TypeOK says of one caller and of the channel.
LEMMA PoolTypes ==
    ASSUME TypeOK, NEW g \in Caller
    PROVE  /\ conn[g] \in 0..MaxConnID /\ conn[g] \in Int
           /\ lastID[g] \in 0..MaxConnID /\ lastID[g] \in Int
           /\ connLastID \in 0..MaxConnID /\ connLastID \in Int
           /\ Len(conns) \in Nat
           /\ DOMAIN conns = 1..Len(conns)
           /\ \A i \in DOMAIN conns : conns[i] \in 1..MaxConnID
BY MaxConnAssumption DEF TypeOK, ConnID

\* A step that takes a recycled Conn from the channel.
LEMMA TakeIInv ==
    ASSUME IInv, NEW g \in Caller, pc[g] \in {"idle", "wait"}, Take(g)
    PROVE  IInv'
<1>1. TypeOK /\ Local /\ Made /\ Counted /\ OneOwner /\ ReleaseFits
  BY DEF IInv
<1>2. /\ conns \in Seq(ConnID) /\ conns # <<>>
      /\ conns' = Tail(conns)
      /\ UNCHANGED <<connLastID, connLookup, lastID, full>>
  BY <1>1 DEF Take, TypeOK
<1>3. /\ conns' \in Seq(ConnID)
      /\ Len(conns') = Len(conns) - 1
      /\ \A i \in 1..Len(conns') : conns'[i] = conns[i + 1]
      /\ Head(conns) = conns[1] /\ Head(conns) \in ConnID
      /\ Len(conns) \in Nat /\ Len(conns) > 0
  BY <1>2, HeadTailProperties
<1>4. DOMAIN conns = 1..Len(conns) /\ DOMAIN conns' = 1..Len(conns')
  BY <1>2, <1>3
<1>5. \A h \in Caller : /\ conn'[h] = IF h = g THEN conns[1] ELSE conn[h]
                        /\ pc'[h] = IF h = g THEN "hold" ELSE pc[h]
  BY <1>1, <1>3, Zenon DEF Take, TypeOK
<1>6. TypeOK'
  <2>1. ConnID \subseteq 0..MaxConnID
    BY MaxConnAssumption DEF ConnID
  <2>2. conn' \in [Caller -> 0..MaxConnID]
    BY <1>1, <1>3, <2>1 DEF Take, TypeOK
  <2>3. pc' \in [Caller -> {"idle", "load", "cas", "publish", "wait", "hold"}]
    BY <1>1 DEF Take, TypeOK
  <2> QED
    BY <1>1, <1>2, <1>3, <2>2, <2>3, Zenon DEF TypeOK
<1>7. /\ conn[g] = 0
      /\ conns[1] \in 1..MaxConnID /\ conns[1] # 0
      /\ conns[1] <= connLastID
  <2>1. 1 \in DOMAIN conns
    BY <1>3, <1>4
  <2> QED
    BY <1>1, <1>3, <2>1 DEF Local, Made, ConnID
<1>8. Holders' = Holders \cup {g} /\ g \notin Holders
  BY <1>5, <1>7 DEF Holders
<1>9. Counted'
  <2>1. IsFiniteSet(Holders) /\ Cardinality(Holders) \in Nat
    BY <1>1, FS_CardinalityType DEF Counted
  <2>2. IsFiniteSet(Holders') /\ Cardinality(Holders') = Cardinality(Holders) + 1
    BY <1>8, <2>1, FS_AddElement
  <2>3. connLastID' = Len(conns) + Cardinality(Holders)
    BY <1>1, <1>2 DEF Counted
  <2> QED
    BY <1>3, <2>1, <2>2, <2>3 DEF Counted
<1>10. Local'
  BY <1>1, <1>2, <1>5, <1>7 DEF Local
<1>11. \A i \in DOMAIN conns' : i + 1 \in DOMAIN conns /\ conns'[i] = conns[i + 1] /\ i + 1 # 1
  BY <1>3, <1>4
<1>12. Made'
  BY <1>1, <1>2, <1>11 DEF Made
<1>13. OneOwner'
  <2>1. \A h \in Holders : \A i \in DOMAIN conns : conn[h] # conns[i]
    BY <1>1 DEF OneOwner
  <2>2. \A i, j \in DOMAIN conns : conns[i] = conns[j] => i = j
    BY <1>1 DEF OneOwner
  <2>3. 1 \in DOMAIN conns
    BY <1>3, <1>4
  <2>4. \A h, k \in Holders' : conn'[h] = conn'[k] => h = k
    BY <1>1, <1>5, <1>8, <2>1, <2>3 DEF OneOwner, Holders
  <2>5. \A h \in Holders' : \A i \in DOMAIN conns' : conn'[h] # conns'[i]
    BY <1>5, <1>8, <1>11, <2>1, <2>2, <2>3 DEF Holders
  <2>6. \A i, j \in DOMAIN conns' : conns'[i] = conns'[j] => i = j
    <3> SUFFICES ASSUME NEW i \in DOMAIN conns', NEW j \in DOMAIN conns',
                        conns'[i] = conns'[j]
                 PROVE  i = j
      OBVIOUS
    <3>1. i + 1 = j + 1
      BY <1>11, <2>2
    <3> QED
      BY <3>1, <1>3, <1>4
  <2>7. ASSUME NEW c \in 1..connLastID'
        PROVE  \/ \E h \in Holders' : conn'[h] = c
               \/ \E i \in DOMAIN conns' : conns'[i] = c
    <3>1. CASE \E h \in Holders : conn[h] = c
      BY <3>1, <1>5, <1>8 DEF Holders
    <3>2. ASSUME NEW i \in DOMAIN conns, conns[i] = c
          PROVE  \/ \E h \in Holders' : conn'[h] = c
                 \/ \E j \in DOMAIN conns' : conns'[j] = c
      <4>1. CASE i = 1
        BY <4>1, <3>2, <1>5, <1>8
      <4>2. CASE i # 1
        <5>1. i - 1 \in DOMAIN conns' /\ (i - 1) + 1 = i
          BY <4>2, <1>3, <1>4
        <5> QED
          BY <5>1, <1>11, <3>2
      <4> QED
        BY <4>1, <4>2
    <3> QED
      BY <3>1, <3>2, <1>1, <1>2 DEF OneOwner
  <2> QED
    BY <2>4, <2>5, <2>6, <2>7 DEF OneOwner
<1>14. ReleaseFits'
  BY <1>1, <1>2, <1>5, <1>7 DEF ReleaseFits
<1> QED
  BY <1>6, <1>9, <1>10, <1>12, <1>13, <1>14 DEF IInv

\* A step that moves no Conn: it only moves callers on.
LEMMA StayIInv ==
    ASSUME IInv, TypeOK',
           UNCHANGED <<conns, connLastID, conn, full>>,
           \A h \in Caller :
               /\ pc'[h] \in {"publish", "hold"} <=> pc[h] \in {"publish", "hold"}
               /\ pc'[h] = "cas" => lastID'[h] < MaxConnID
    PROVE  IInv'
<1>1. TypeOK /\ Local /\ Made /\ Counted /\ OneOwner /\ ReleaseFits
  BY DEF IInv
<1>2. Holders' = Holders
  BY DEF Holders
<1>3. Local' /\ Made'
  BY <1>1 DEF Local, Made
<1>4. Counted' /\ OneOwner'
  BY <1>1, <1>2 DEF Counted, OneOwner
<1>5. ReleaseFits'
  BY <1>1 DEF ReleaseFits
<1> QED
  BY <1>3, <1>4, <1>5 DEF IInv

\* A successful compare-and-swap: the new ID is above all that exist.
LEMMA ReserveIInv ==
    ASSUME IInv, NEW g \in Caller, CAS(g), Swapped(g)
    PROVE  IInv'
<1>1. TypeOK /\ Local /\ Made /\ Counted /\ OneOwner /\ ReleaseFits
  BY DEF IInv
<1> DEFINE new == connLastID + 1
<1>2. /\ pc[g] = "cas" /\ connLastID' = new
      /\ conn' = [conn EXCEPT ![g] = new]
      /\ pc' = [pc EXCEPT ![g] = "publish"]
      /\ UNCHANGED <<conns, connLookup, lastID, full>>
  BY Zenon DEF CAS, Swapped
<1>3. \A h \in Caller : /\ conn[h] \in 0..MaxConnID /\ conn[h] \in Int
                        /\ conn[h] <= connLastID
  BY <1>1, PoolTypes DEF Local
<1>4. /\ connLastID \in 0..MaxConnID /\ connLastID \in Int
      /\ new \in 1..MaxConnID /\ new # 0 /\ conn[g] = 0
  <2>1. connLastID < MaxConnID /\ conn[g] = 0
    BY <1>1, <1>2 DEF Local, Swapped
  <2> QED
    BY <1>1, <2>1, MaxConnAssumption DEF TypeOK
<1>5. \A h \in Caller : /\ conn'[h] = IF h = g THEN new ELSE conn[h]
                        /\ pc'[h] = IF h = g THEN "publish" ELSE pc[h]
  BY <1>1, <1>2, Zenon DEF TypeOK
<1>6. TypeOK'
  <2>1. conn' \in [Caller -> 0..MaxConnID]
    BY <1>1, <1>2, <1>4 DEF TypeOK
  <2>2. pc' \in [Caller -> {"idle", "load", "cas", "publish", "wait", "hold"}]
    BY <1>1, <1>2 DEF TypeOK
  <2>3. connLastID' \in 0..MaxConnID
    BY <1>2, <1>4
  <2> QED
    BY <1>1, <1>2, <2>1, <2>2, <2>3, Zenon DEF TypeOK
<1>7. \A i \in DOMAIN conns : conns[i] \in 1..MaxConnID /\ conns[i] <= connLastID
  BY <1>1, PoolTypes DEF Made
<1>8. Holders' = Holders \cup {g} /\ g \notin Holders
  BY <1>4, <1>5 DEF Holders
<1>9. Counted'
  <2>1. IsFiniteSet(Holders) /\ Cardinality(Holders) \in Nat /\ Len(conns) \in Nat
    BY <1>1, FS_CardinalityType, PoolTypes DEF Counted
  <2>2. IsFiniteSet(Holders') /\ Cardinality(Holders') = Cardinality(Holders) + 1
    BY <1>8, <2>1, FS_AddElement
  <2>3. connLastID = Len(conns) + Cardinality(Holders)
    BY <1>1 DEF Counted
  <2> QED
    BY <1>2, <2>1, <2>2, <2>3 DEF Counted
<1>10. Local'
  BY <1>1, <1>2, <1>3, <1>4, <1>5 DEF Local
<1>11. Made'
  BY <1>1, <1>2, <1>4, <1>7 DEF Made
<1>12. OneOwner'
  <2>1. \A h, k \in Holders' : conn'[h] = conn'[k] => h = k
    BY <1>1, <1>3, <1>4, <1>5, <1>8 DEF OneOwner, Holders
  <2>2. \A h \in Holders' : \A i \in DOMAIN conns' : conn'[h] # conns'[i]
    BY <1>1, <1>2, <1>4, <1>5, <1>7, <1>8 DEF OneOwner, Holders
  <2>3. \A i, j \in DOMAIN conns' : conns'[i] = conns'[j] => i = j
    BY <1>1, <1>2 DEF OneOwner
  <2>4. ASSUME NEW c \in 1..connLastID'
        PROVE  \/ \E h \in Holders' : conn'[h] = c
               \/ \E i \in DOMAIN conns' : conns'[i] = c
    <3>1. CASE c = new
      BY <3>1, <1>5, <1>8
    <3>2. CASE c # new
      <4>1. c \in 1..connLastID
        BY <3>2, <1>2, <1>4
      <4> QED
        BY <4>1, <1>1, <1>2, <1>5, <1>8 DEF OneOwner, Holders
    <3> QED
      BY <3>1, <3>2
  <2> QED
    BY <2>1, <2>2, <2>3, <2>4 DEF OneOwner
<1>13. ReleaseFits'
  BY <1>1, <1>2, <1>5 DEF ReleaseFits
<1> QED
  BY <1>6, <1>9, <1>10, <1>11, <1>12, <1>13 DEF IInv

\* ConnRelease: by counting there is room, and the Conn moves to the channel.
LEMMA ReleaseIInv ==
    ASSUME IInv, NEW g \in Caller, ConnRelease(g)
    PROVE  IInv'
<1>1. TypeOK /\ Local /\ Made /\ Counted /\ OneOwner /\ ReleaseFits
  BY DEF IInv
<1>2. /\ pc[g] = "hold" /\ conn[g] # 0 /\ g \in Holders
      /\ conn[g] <= connLastID
      /\ conn[g] \in ConnID
  <2>1. pc[g] = "hold" /\ conn[g] # 0
    BY <1>1 DEF ConnRelease, Local
  <2>2. conn[g] \in ConnID
    BY <1>1, <2>1, PoolTypes DEF ConnID
  <2> QED
    BY <1>1, <2>1, <2>2 DEF Local, Holders
<1>3. IsFiniteSet(Holders) /\ Cardinality(Holders) \in Nat /\ Len(conns) \in Nat
  BY <1>1, FS_CardinalityType, PoolTypes DEF Counted
<1>4. /\ IsFiniteSet(Holders \ {g})
      /\ Cardinality(Holders \ {g}) = Cardinality(Holders) - 1
      /\ Cardinality(Holders \ {g}) \in Nat
  BY <1>2, <1>3, FS_RemoveElement, FS_CardinalityType
<1>5. Len(conns) < MaxConnID
  <2>1. connLastID = Len(conns) + Cardinality(Holders) /\ connLastID \in 0..MaxConnID
    BY <1>1, PoolTypes DEF Counted
  <2>2. Cardinality(Holders) >= 1
    BY <1>3, <1>4
  <2> QED
    BY <1>3, <2>1, <2>2, MaxConnAssumption
<1>6. /\ conns' = Append(conns, conn[g])
      /\ conn' = [conn EXCEPT ![g] = 0]
      /\ pc' = [pc EXCEPT ![g] = "idle"]
      /\ UNCHANGED <<connLastID, connLookup, lastID, full>>
  BY <1>5 DEF ConnRelease
<1>7. conns \in Seq(ConnID)
  BY <1>1 DEF TypeOK
<1>8. /\ conns' \in Seq(ConnID)
      /\ Len(conns') = Len(conns) + 1
      /\ \A i \in 1..Len(conns) : conns'[i] = conns[i]
      /\ conns'[Len(conns) + 1] = conn[g]
  BY <1>2, <1>6, <1>7, AppendProperties
<1>9. DOMAIN conns = 1..Len(conns) /\ DOMAIN conns' = 1..(Len(conns) + 1)
  BY <1>7, <1>8
<1>10. \A i \in DOMAIN conns' :
           \/ i \in DOMAIN conns /\ conns'[i] = conns[i]
           \/ i = Len(conns) + 1 /\ conns'[i] = conn[g]
  BY <1>3, <1>8, <1>9
<1>11. \A h \in Caller : /\ conn'[h] = IF h = g THEN 0 ELSE conn[h]
                         /\ pc'[h] = IF h = g THEN "idle" ELSE pc[h]
  BY <1>1, <1>6, Zenon DEF TypeOK
<1>12. TypeOK'
  <2>1. conn' \in [Caller -> 0..MaxConnID]
    BY <1>1, <1>6, MaxConnAssumption DEF TypeOK
  <2>2. pc' \in [Caller -> {"idle", "load", "cas", "publish", "wait", "hold"}]
    BY <1>1, <1>6 DEF TypeOK
  <2> QED
    BY <1>1, <1>6, <1>8, <2>1, <2>2, Zenon DEF TypeOK
<1>13. Holders' = Holders \ {g}
  BY <1>11 DEF Holders
<1>14. Counted'
  <2>1. connLastID' = Len(conns) + Cardinality(Holders)
    BY <1>1, <1>6 DEF Counted
  <2>2. IsFiniteSet(Holders') /\ Cardinality(Holders') = Cardinality(Holders) - 1
    BY <1>4, <1>13
  <2> QED
    BY <1>3, <1>8, <2>1, <2>2 DEF Counted
<1>15. Local'
  <2>1. 0 <= connLastID
    BY <1>1, PoolTypes
  <2> QED
    BY <1>1, <1>6, <1>11, <2>1 DEF Local
<1>16. Made'
  BY <1>1, <1>2, <1>6, <1>10 DEF Made
<1>17. OneOwner'
  <2>1. \A h, k \in Holders' : conn'[h] = conn'[k] => h = k
    BY <1>1, <1>11, <1>13 DEF OneOwner, Holders
  <2>2. \A h \in Holders' : \A i \in DOMAIN conns' : conn'[h] # conns'[i]
    BY <1>1, <1>2, <1>10, <1>11, <1>13 DEF OneOwner, Holders
  <2>3. \A i, j \in DOMAIN conns' : conns'[i] = conns'[j] => i = j
    BY <1>1, <1>2, <1>10 DEF OneOwner
  <2>4. ASSUME NEW c \in 1..connLastID'
        PROVE  \/ \E h \in Holders' : conn'[h] = c
               \/ \E i \in DOMAIN conns' : conns'[i] = c
    <3>1. CASE c = conn[g]
      <4>1. Len(conns) + 1 \in DOMAIN conns'
        BY <1>3, <1>9
      <4> QED
        BY <3>1, <4>1, <1>8
    <3>2. CASE \E h \in Holders \ {g} : conn[h] = c
      BY <3>2, <1>11, <1>13 DEF Holders
    <3>3. CASE \E i \in DOMAIN conns : conns[i] = c
      <4>1. DOMAIN conns \subseteq DOMAIN conns'
        BY <1>3, <1>9
      <4> QED
        BY <3>3, <4>1, <1>8, <1>9
    <3> QED
      BY <3>1, <3>2, <3>3, <1>1, <1>6 DEF OneOwner
  <2> QED
    BY <2>1, <2>2, <2>3, <2>4 DEF OneOwner
<1>18. ReleaseFits'
  BY <1>1, <1>6, <1>11 DEF ReleaseFits
<1> QED
  BY <1>12, <1>14, <1>15, <1>16, <1>17, <1>18 DEF IInv

\* Every step preserves the inductive invariant.
LEMMA NextIInv == IInv /\ [Next]_vars => IInv'
<1> SUFFICES ASSUME IInv, [Next]_vars PROVE IInv'
  OBVIOUS
<1>0. TypeOK /\ Local
  BY DEF IInv
<1>1. ASSUME NEW g \in Caller, NewConn(g) PROVE IInv'
  <2>1. CASE Take(g)
    BY <1>1, <2>1, TakeIInv DEF NewConn
  <2>2. CASE /\ pc' = [pc EXCEPT ![g] = "load"]
             /\ UNCHANGED <<conns, connLastID, connLookup, lastID, conn, full>>
    <3>1. pc[g] = "idle"
      BY <1>1 DEF NewConn
    <3>2. TypeOK'
      BY <1>0, <2>2 DEF TypeOK
    <3>3. \A h \in Caller : pc'[h] = IF h = g THEN "load" ELSE pc[h]
      BY <1>0, <2>2, Zenon DEF TypeOK
    <3> QED
      BY <1>0, <2>2, <3>1, <3>2, <3>3, StayIInv DEF Local
  <2> QED
    BY <1>1, <2>1, <2>2 DEF NewConn
<1>2. ASSUME NEW g \in Caller, Load(g) PROVE IInv'
  <2>1. PICK next \in {"cas", "wait", "idle"} :
            /\ pc' = [pc EXCEPT ![g] = next]
            /\ next = "cas" => connLastID < MaxConnID
    <3>1. PICK wait \in BOOLEAN :
              pc' = [pc EXCEPT ![g] = IF ~Exhausted THEN "cas"
                                      ELSE IF wait THEN "wait" ELSE "idle"]
      BY <1>2, Zenon DEF Load
    <3>2. ~Exhausted => connLastID < MaxConnID
      BY <1>0, MaxConnAssumption DEF Exhausted, TypeOK
    <3> QED
      BY <3>1, <3>2
  <2>2. /\ pc[g] = "load"
        /\ lastID' = [lastID EXCEPT ![g] = connLastID]
        /\ UNCHANGED <<conns, connLastID, connLookup, conn, full>>
    BY <1>2 DEF Load
  <2>3. TypeOK'
    BY <1>0, <2>1, <2>2 DEF TypeOK
  <2>4. \A h \in Caller : /\ pc'[h] = IF h = g THEN next ELSE pc[h]
                          /\ lastID'[h] = IF h = g THEN connLastID ELSE lastID[h]
    BY <1>0, <2>1, <2>2, Zenon DEF TypeOK
  <2> QED
    BY <1>0, <2>1, <2>2, <2>3, <2>4, StayIInv DEF Local
<1>3. ASSUME NEW g \in Caller, CAS(g) PROVE IInv'
  <2>1. CASE Swapped(g)
    BY <1>3, <2>1, ReserveIInv
  <2>2. CASE ~Swapped(g)
    <3>1. /\ pc[g] = "cas"
          /\ pc' = [pc EXCEPT ![g] = "load"]
          /\ UNCHANGED <<conns, connLastID, connLookup, lastID, conn, full>>
      BY <1>3, <2>2 DEF CAS
    <3>2. TypeOK'
      BY <1>0, <3>1 DEF TypeOK
    <3>3. \A h \in Caller : pc'[h] = IF h = g THEN "load" ELSE pc[h]
      BY <1>0, <3>1, Zenon DEF TypeOK
    <3> QED
      BY <1>0, <3>1, <3>2, <3>3, StayIInv DEF Local
  <2> QED
    BY <2>1, <2>2
<1>4. ASSUME NEW g \in Caller, Publish(g) PROVE IInv'
  <2>1. /\ pc[g] = "publish"
        /\ pc' = [pc EXCEPT ![g] = "hold"]
        /\ connLookup' = connLookup \cup {conn[g]}
        /\ UNCHANGED <<conns, connLastID, lastID, conn, full>>
    BY <1>4 DEF Publish
  <2>2. conn[g] \in ConnID
    <3>1. conn[g] # 0
      BY <1>0, <2>1 DEF Local
    <3> QED
      BY <1>0, <3>1, PoolTypes DEF ConnID
  <2>3. TypeOK'
    BY <1>0, <2>1, <2>2 DEF TypeOK
  <2>4. \A h \in Caller : pc'[h] = IF h = g THEN "hold" ELSE pc[h]
    BY <1>0, <2>1, Zenon DEF TypeOK
  <2> QED
    BY <1>0, <2>1, <2>3, <2>4, StayIInv DEF Local
<1>5. ASSUME NEW g \in Caller, WaitTake(g) PROVE IInv'
  BY <1>5, TakeIInv DEF WaitTake
<1>6. ASSUME NEW g \in Caller, WaitTimeout(g) PROVE IInv'
  <2>1. /\ pc[g] = "wait"
        /\ pc' = [pc EXCEPT ![g] = "idle"]
        /\ UNCHANGED <<conns, connLastID, connLookup, lastID, conn, full>>
    BY <1>6 DEF WaitTimeout
  <2>2. TypeOK'
    BY <1>0, <2>1 DEF TypeOK
  <2>3. \A h \in Caller : pc'[h] = IF h = g THEN "idle" ELSE pc[h]
    BY <1>0, <2>1, Zenon DEF TypeOK
  <2> QED
    BY <1>0, <2>1, <2>2, <2>3, StayIInv DEF Local
<1>7. ASSUME NEW g \in Caller, ConnRelease(g) PROVE IInv'
  BY <1>7, ReleaseIInv
<1>8. CASE UNCHANGED vars
  <2>1. TypeOK'
    BY <1>0, <1>8 DEF vars, TypeOK
  <2> QED
    BY <1>0, <1>8, <2>1, StayIInv DEF vars, Local
<1> QED
  BY <1>1, <1>2, <1>3, <1>4, <1>5, <1>6, <1>7, <1>8 DEF Next

----------------------------------------------------------------------------
\* The inductive invariant holds of every behaviour of the pool.
THEOREM Invariance == Spec => []IInv
BY InitIInv, NextIInv, PTL DEF Spec

\* NewConn never gives the same Conn to two callers and no Conn is lost,
\* however the compare-and-swap loops and releases interleave.
THEOREM ConnsHaveOneOwner == Spec => []OneOwner
<1>1. IInv => OneOwner
  BY DEF IInv
<1> QED
  BY <1>1, Invariance, PTL

\* ConnRelease never panics.
THEOREM ReleaseNeverPanics == Spec => []ReleaseFits
<1>1. IInv => ReleaseFits
  BY DEF IInv
<1> QED
  BY <1>1, Invariance, PTL

\* AvailableConns is exact when nothing changes between its two loads.
THEOREM AvailableIsExact == Spec => []AvailableExact
<1>1. IInv => AvailableExact
  <2> SUFFICES ASSUME IInv PROVE AvailableExact
    OBVIOUS
  <2>1. connLastID \in 0..MaxConnID /\ conns \in Seq(ConnID)
    BY DEF IInv, TypeOK
  <2>2. Cardinality(Holders) \in Nat /\ Len(conns) \in Nat
    BY <2>1, FS_CardinalityType DEF IInv, Counted
  <2>3. connLastID = Len(conns) + Cardinality(Holders)
    BY DEF IInv, Counted
  <2> QED
    BY <2>1, <2>2, <2>3, MaxConnAssumption DEF AvailableExact, AvailableConns
<1> QED
  BY <1>1, Invariance, PTL
=============================================================================
