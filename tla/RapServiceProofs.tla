-------------------------- MODULE RapServiceProofs --------------------------
(***************************************************************************)
(* The Client and the Server count right, for any number of requests,      *)
(* links, Conns and faults.                                                *)
(*                                                                         *)
(* ConnsAccounted is about living Muxers only, but a request may hold and  *)
(* give back a Conn of a dead one, and a dead Muxer's name is used again:  *)
(* Accounted bounds what is in the pool of every Muxer, and Fresh says     *)
(* that nobody knows a link that was never dialed.                         *)
(***************************************************************************)
EXTENDS RapService, FiniteSetTheorems, TLAPS

\* The requests that have a Conn of l.
Held(l) == {r \in Request : at[r] = l /\ pc[r] # "grab"}

\* The links that have a token of muxerLimiter.
Running == {l \in Link : peer[l] \in {"new", "serving"}}

\* A request names a link exactly while it has a Conn, or is about to take one.
Placed == \A r \in Request : at[r] # None <=> pc[r] \in {"grab", "serve", "finish"}

\* Nobody knows a link that was never dialed.
Fresh ==
    \A l \in Link :
        peer[l] = "none" => /\ l \notin alive /\ l \notin muxers /\ l # mux
                            /\ \A r \in Request : at[r] # l

\* No Conn is in two places, and of a living Muxer none is lost.
Accounted ==
    \A l \in Link :
        /\ conns[l] + waitFin[l] + Cardinality(Held(l)) <= connLastID[l]
        /\ l \in alive => conns[l] + waitFin[l] + Cardinality(Held(l)) = connLastID[l]

\* Client.mu is never held twice.
OneLockHolder ==
    /\ \A r, q \in Request : /\ pc[r] \in {"pick", "grab", "dialing"}
                             /\ pc[q] \in {"pick", "grab", "dialing"}
                             => r = q
    /\ closing \in {"shutting", "closing"}
          => \A r \in Request : pc[r] \notin {"pick", "grab", "dialing"}

IInv ==
    /\ TypeOK
    /\ Placed
    /\ Fresh
    /\ Accounted
    /\ OneLockHolder
    /\ ActiveMuxersExact

----------------------------------------------------------------------------
(* Types and counting.                                                     *)

\* What TypeOK says of a link and of a request.
LEMMA LinkTypes ==
    ASSUME TypeOK, NEW l \in Link
    PROVE  /\ conns[l] \in 0..MaxConnID /\ conns[l] \in Nat
           /\ connLastID[l] \in 0..MaxConnID /\ connLastID[l] \in Nat
           /\ waitFin[l] \in 0..MaxConnID /\ waitFin[l] \in Nat
           /\ peer[l] \in {"none", "backlog", "accepted", "new", "serving", "ended"}
           /\ l # None /\ None \notin Link
           /\ MaxConnID \in Nat /\ MaxConnID > 0
BY ServiceAssumption DEF TypeOK, Link, None

\* The requests that have a Conn of a link are finitely many.
LEMMA HeldFinite ==
    ASSUME NEW l
    PROVE  IsFiniteSet(Held(l)) /\ Cardinality(Held(l)) \in Nat
<1>1. Held(l) \subseteq Request
  BY DEF Held
<1> QED
  BY <1>1, ServiceAssumption, FS_Subset, FS_CardinalityType

\* A request that goes from link at[r] to link a, or to none, changes the
\* number of Conns that are held of each by one, unless it is at "grab".
LEMMA HeldMoves ==
    ASSUME TypeOK, NEW r \in Request, NEW a \in Link \cup {None}, NEW label,
           at' = [at EXCEPT ![r] = a], pc' = [pc EXCEPT ![r] = label],
           NEW l \in Link
    PROVE  /\ Cardinality(Held(l))' \in Nat
           /\ Cardinality(Held(l))' + (IF at[r] = l /\ pc[r] # "grab" THEN 1 ELSE 0)
              = Cardinality(Held(l)) + (IF a = l /\ label # "grab" THEN 1 ELSE 0)
<1>1. /\ \A q \in Request : at'[q] = IF q = r THEN a ELSE at[q]
      /\ \A q \in Request : pc'[q] = IF q = r THEN label ELSE pc[q]
  BY DEF TypeOK
<1>2. r \in Held(l) <=> at[r] = l /\ pc[r] # "grab"
  BY DEF Held
<1>3. IsFiniteSet(Held(l)) /\ Cardinality(Held(l)) \in Nat
  BY HeldFinite
<1>4. CASE a = l /\ label # "grab"
  <2>1. Held(l)' = Held(l) \cup {r}
    BY <1>1, <1>4 DEF Held
  <2>2. Cardinality(Held(l)') = IF r \in Held(l) THEN Cardinality(Held(l))
                                                 ELSE Cardinality(Held(l)) + 1
    BY <1>3, <2>1, FS_AddElement
  <2> QED
    BY <1>2, <1>3, <1>4, <2>2
<1>5. CASE ~(a = l /\ label # "grab")
  <2>1. Held(l)' = Held(l) \ {r}
    BY <1>1, <1>5 DEF Held
  <2>2. Cardinality(Held(l)') = IF r \in Held(l) THEN Cardinality(Held(l)) - 1
                                                 ELSE Cardinality(Held(l))
    BY <1>3, <2>1, FS_RemoveElement
  <2>3. Cardinality(Held(l)') \in Nat
    BY <1>3, <2>1, FS_RemoveElement, FS_CardinalityType
  <2> QED
    BY <1>2, <1>3, <1>5, <2>2, <2>3
<1> QED
  BY <1>4, <1>5

\* The links that have a token are finitely many.
LEMMA RunningFinite == IsFiniteSet(Running) /\ Cardinality(Running) \in Nat
<1>1. IsFiniteSet(Link)
  BY ServiceAssumption, FS_Interval DEF Link
<1>2. Running \subseteq Link
  BY DEF Running
<1> QED
  BY <1>1, <1>2, FS_Subset, FS_CardinalityType

----------------------------------------------------------------------------
(* Frames: what a step preserves because it does not touch the state.      *)

\* A step of the Server or the network leaves the Client's bookkeeping alone,
\* as long as no link is undialed.
LEMMA ServerSide ==
    ASSUME IInv, UNCHANGED <<clientVars, reqVars, poolVars>>,
           \A l \in Link : peer'[l] = "none" => peer[l] = "none"
    PROVE  Placed' /\ Fresh' /\ Accounted' /\ OneLockHolder'
<1>1. UNCHANGED <<muxers, mux, closing, pc, at, alive, conns, connLastID, waitFin>>
  BY DEF clientVars, reqVars, poolVars
<1>2. \A l \in Link : Held(l)' = Held(l)
  BY <1>1 DEF Held
<1>3. Placed' /\ OneLockHolder'
  BY <1>1 DEF IInv, Placed, OneLockHolder
<1>4. Fresh'
  BY <1>1 DEF IInv, Fresh
<1>5. Accounted'
  BY <1>1, <1>2 DEF IInv, Accounted
<1> QED
  BY <1>3, <1>4, <1>5

\* A step of the Client leaves the Server's tokens alone.
LEMMA ClientSide ==
    ASSUME IInv, UNCHANGED <<peer, muxerLimiter>>
    PROVE  ActiveMuxersExact'
BY DEF IInv, ActiveMuxersExact

----------------------------------------------------------------------------
\* A Client without Muxers, and a Server without connections.
LEMMA InitIInv == Init => IInv
<1> SUFFICES ASSUME Init PROVE IInv
  OBVIOUS
<1>1. 0 \in 0..MaxConnID /\ 0 \in 0..MaxMuxers /\ 0 \in 0..MaxFaults
  BY ServiceAssumption
<1>2. TypeOK
  BY <1>1, Zenon DEF Init, TypeOK, None
<1>3. /\ \A r \in Request : at[r] = None /\ pc[r] = "idle"
      /\ \A l \in Link : conns[l] = 0 /\ waitFin[l] = 0 /\ connLastID[l] = 0
      /\ \A l \in Link : peer[l] = "none"
  BY Zenon DEF Init
<1>4. None \notin Link
  BY DEF None, Link
<1>5. Placed /\ OneLockHolder
  BY <1>3 DEF Init, Placed, OneLockHolder
<1>6. Fresh
  BY <1>3, <1>4 DEF Init, Fresh
<1>7. \A l \in Link : Cardinality(Held(l)) = 0
  <2>1. \A l \in Link : Held(l) = {}
    BY <1>3, <1>4 DEF Held
  <2> QED
    BY <2>1, FS_EmptySet
<1>8. Accounted
  BY <1>3, <1>7 DEF Accounted
<1>9. ActiveMuxersExact
  <2>1. {l \in Link : peer[l] \in {"new", "serving"}} = {}
    BY <1>3
  <2>2. muxerLimiter = Cardinality({l \in Link : peer[l] \in {"new", "serving"}})
    BY <2>1, FS_EmptySet DEF Init
  <2>3. muxerLimiter <= MaxMuxers
    BY ServiceAssumption DEF Init
  <2> QED
    BY <2>2, <2>3 DEF ActiveMuxersExact
<1> QED
  BY <1>2, <1>5, <1>6, <1>8, <1>9 DEF IInv

----------------------------------------------------------------------------
(* A request finds a Conn.                                                 *)

\* A request goes to label, with link a: it names a link exactly where it
\* should, and it takes Client.mu only when that is free.
LEMMA RequestGoes ==
    ASSUME IInv, NEW r \in Request, NEW a \in Link \cup {None},
           NEW label \in {"idle", "new", "dial", "pick", "grab", "dialing",
                          "serve", "finish"},
           at' = [at EXCEPT ![r] = a], pc' = [pc EXCEPT ![r] = label],
           a # None <=> label \in {"grab", "serve", "finish"},
           label \in {"pick", "grab", "dialing"}
              => pc[r] \in {"pick", "grab", "dialing"} \/ MuFree,
           closing' = closing
    PROVE  /\ Placed' /\ OneLockHolder'
           /\ pc' \in [Request -> {"idle", "new", "dial", "pick", "grab",
                                   "dialing", "serve", "finish"}]
           /\ at' \in [Request -> Link \cup {None}]
<1>1. TypeOK /\ Placed /\ OneLockHolder
  BY DEF IInv
<1>2. /\ \A q \in Request : at'[q] = IF q = r THEN a ELSE at[q]
      /\ \A q \in Request : pc'[q] = IF q = r THEN label ELSE pc[q]
  BY <1>1 DEF TypeOK
<1>3. Placed'
  BY <1>1, <1>2 DEF Placed
<1>4. OneLockHolder'
  BY <1>1, <1>2 DEF OneLockHolder, MuFree
<1>5. pc' \in [Request -> {"idle", "new", "dial", "pick", "grab", "dialing",
                           "serve", "finish"}]
  BY <1>1, Zenon DEF TypeOK
<1>6. at' \in [Request -> Link \cup {None}]
  BY <1>1, Zenon DEF TypeOK
<1> QED
  BY <1>3, <1>4, <1>5, <1>6

\* A request that only goes somewhere, and comes from no Conn to no Conn.
LEMMA RequestIdles ==
    ASSUME IInv, NEW r \in Request,
           NEW label \in {"idle", "new", "dial", "pick", "dialing"},
           at' = [at EXCEPT ![r] = None], pc' = [pc EXCEPT ![r] = label],
           at[r] = None \/ pc[r] = "grab",
           label \in {"pick", "dialing"}
              => pc[r] \in {"pick", "grab", "dialing"} \/ MuFree,
           tried' \subseteq Request,
           UNCHANGED <<clientVars, poolVars, netVars, serverVars>>
    PROVE  IInv'
<1>1. TypeOK /\ Placed /\ Fresh /\ Accounted
  BY DEF IInv
<1>2. /\ UNCHANGED <<paused, muxers, holes, mux, closing>>
      /\ UNCHANGED <<alive, conns, connLastID, waitFin, cut, faults>>
      /\ UNCHANGED <<listening, serve, peer, muxerLimiter, activeMuxer, stopping>>
  BY DEF clientVars, poolVars, netVars, serverVars
<1>3. /\ Placed' /\ OneLockHolder'
      /\ pc' \in [Request -> {"idle", "new", "dial", "pick", "grab",
                              "dialing", "serve", "finish"}]
      /\ at' \in [Request -> Link \cup {None}]
  BY <1>2, RequestGoes
<1>4. TypeOK'
  BY <1>1, <1>2, <1>3, Zenon DEF TypeOK
<1>5. Fresh'
  <2>1. \A q \in Request : at'[q] = IF q = r THEN None ELSE at[q]
    BY <1>1 DEF TypeOK
  <2>2. None \notin Link
    BY DEF None, Link
  <2> QED
    BY <1>1, <1>2, <2>1, <2>2 DEF Fresh
<1>6. Accounted'
  <2> SUFFICES ASSUME NEW l \in Link
               PROVE  /\ conns[l] + waitFin[l] + Cardinality(Held(l))' <= connLastID[l]
                      /\ l \in alive => conns[l] + waitFin[l] + Cardinality(Held(l))'
                                           = connLastID[l]
    BY <1>2 DEF Accounted
  <2>1. /\ Cardinality(Held(l))' \in Nat
        /\ Cardinality(Held(l))' + (IF at[r] = l /\ pc[r] # "grab" THEN 1 ELSE 0)
           = Cardinality(Held(l)) + (IF None = l /\ label # "grab" THEN 1 ELSE 0)
    BY <1>1, HeldMoves
  <2>2. Cardinality(Held(l)) \in Nat
    BY HeldFinite
  <2>3. None # l
    BY <1>1, LinkTypes
  <2>4. Cardinality(Held(l))' = Cardinality(Held(l))
    BY <2>1, <2>2, <2>3
  <2> QED
    BY <1>1, <2>4 DEF Accounted
<1>7. ActiveMuxersExact'
  BY <1>2, ClientSide
<1> QED
  BY <1>3, <1>4, <1>5, <1>6, <1>7 DEF IInv

\* Muxer.NewConn hands the request a Conn of l, which it did not hold before.
LEMMA RequestTakes ==
    ASSUME IInv, NEW r \in Request, NEW l \in Link,
           pc[r] \in {"new", "grab"}, pc[r] = "grab" => at[r] = l,
           peer[l] # "none", AvailableConns(l) > 0, TakeConn(l),
           at' = [at EXCEPT ![r] = l], pc' = [pc EXCEPT ![r] = "serve"],
           mux' = l, tried' \subseteq Request,
           UNCHANGED <<paused, muxers, holes, closing, alive, waitFin, netVars,
                       serverVars>>
    PROVE  IInv'
<1>1. TypeOK /\ Placed /\ Fresh /\ Accounted
  BY DEF IInv
<1>2. /\ UNCHANGED <<paused, muxers, holes, closing, alive, waitFin, cut, faults>>
      /\ UNCHANGED <<listening, serve, peer, muxerLimiter, activeMuxer, stopping>>
  BY DEF netVars, serverVars
<1>3. /\ Placed' /\ OneLockHolder'
      /\ pc' \in [Request -> {"idle", "new", "dial", "pick", "grab",
                              "dialing", "serve", "finish"}]
      /\ at' \in [Request -> Link \cup {None}]
  <2>1. l # None
    BY <1>1, LinkTypes
  <2> QED
    BY <1>2, <2>1, RequestGoes
<1>4. ASSUME NEW k \in Link
      PROVE  /\ Cardinality(Held(k)) \in Nat /\ Cardinality(Held(k))' \in Nat
             /\ Cardinality(Held(k))' = IF k = l THEN Cardinality(Held(k)) + 1
                                                 ELSE Cardinality(Held(k))
  <2>1. at[r] = k => pc[r] = "grab"
    BY <1>1, LinkTypes DEF Placed
  <2>2. /\ Cardinality(Held(k))' \in Nat
        /\ Cardinality(Held(k))' + (IF at[r] = k /\ pc[r] # "grab" THEN 1 ELSE 0)
           = Cardinality(Held(k)) + (IF l = k /\ "serve" # "grab" THEN 1 ELSE 0)
    BY <1>1, HeldMoves
  <2>3. Cardinality(Held(k)) \in Nat
    BY HeldFinite
  <2> QED
    BY <2>1, <2>2, <2>3
<1>5. /\ conns[l] \in Nat /\ connLastID[l] \in Nat /\ waitFin[l] \in Nat
      /\ conns[l] <= MaxConnID /\ connLastID[l] <= MaxConnID /\ MaxConnID \in Nat
  BY <1>1, LinkTypes
<1>6. /\ conns' \in [Link -> 0..MaxConnID]
      /\ connLastID' \in [Link -> 0..MaxConnID]
      /\ Accounted'
  <2>1. CASE conns[l] > 0
    <3>1. /\ conns' = [conns EXCEPT ![l] = conns[l] - 1]
          /\ connLastID' = connLastID
      BY <2>1 DEF TakeConn
    <3>2. \A k \in Link : conns'[k] = IF k = l THEN conns[l] - 1 ELSE conns[k]
      BY <1>1, <3>1 DEF TypeOK
    <3>3. conns[l] - 1 \in 0..MaxConnID
      BY <1>5, <2>1
    <3>4. conns' \in [Link -> 0..MaxConnID]
      BY <1>1, <3>1, <3>3, Zenon DEF TypeOK
    <3>5. Accounted'
      BY <1>1, <1>2, <1>4, <1>5, <3>1, <3>2, LinkTypes DEF Accounted
    <3>6. connLastID' \in [Link -> 0..MaxConnID]
      BY <1>1, <3>1 DEF TypeOK
    <3> QED
      BY <3>4, <3>5, <3>6
  <2>2. CASE ~(conns[l] > 0)
    <3>1. /\ connLastID' = [connLastID EXCEPT ![l] = connLastID[l] + 1]
          /\ conns' = conns
      BY <2>2 DEF TakeConn
    <3>2. \A k \in Link : connLastID'[k] = IF k = l THEN connLastID[l] + 1 ELSE connLastID[k]
      BY <1>1, <3>1 DEF TypeOK
    <3>3. connLastID[l] + 1 \in 0..MaxConnID
      BY <1>5, <2>2 DEF AvailableConns
    <3>4. connLastID' \in [Link -> 0..MaxConnID]
      BY <1>1, <3>1, <3>3, Zenon DEF TypeOK
    <3>5. Accounted'
      BY <1>1, <1>2, <1>4, <1>5, <3>1, <3>2, LinkTypes DEF Accounted
    <3>6. conns' \in [Link -> 0..MaxConnID]
      BY <1>1, <3>1 DEF TypeOK
    <3> QED
      BY <3>4, <3>5, <3>6
  <2> QED
    BY <2>1, <2>2
<1>7. TypeOK'
  BY <1>1, <1>2, <1>3, <1>6, Zenon DEF TypeOK
<1>8. Fresh'
  <2>1. \A q \in Request : at'[q] = IF q = r THEN l ELSE at[q]
    BY <1>1 DEF TypeOK
  <2> QED
    BY <1>1, <1>2, <2>1 DEF Fresh
<1>9. ActiveMuxersExact'
  BY <1>2, ClientSide
<1> QED
  BY <1>3, <1>6, <1>7, <1>8, <1>9 DEF IInv

\* ServeHTTP, and the calls of NewConn and NewConnMayDial that find no Conn.
LEMMA FindIInv ==
    ASSUME IInv, NEW r \in Request,
           ServeHTTP(r) \/ NewConn(r) \/ NewConnMayDial(r) \/ Pick(r) \/ Grab(r)
             \/ DialFails(r)
    PROVE  IInv'
<1>1. TypeOK /\ Placed /\ Fresh
  BY DEF IInv
<1>2. /\ pc[r] \in {"idle", "new", "dial", "pick", "dialing"}
            => at[r] = None /\ at = [at EXCEPT ![r] = None]
      /\ pc[r] = "grab" => at[r] \in Link /\ at = [at EXCEPT ![r] = at[r]]
  BY <1>1 DEF Placed, TypeOK
<1>3. Best \subseteq Link /\ \A l \in Best : AvailableConns(l) > 0 /\ peer[l] # "none"
  BY <1>1 DEF Best, TypeOK, Fresh
<1>4. tried \subseteq Request
  BY <1>1 DEF TypeOK
<1>5. CASE ServeHTTP(r)
  <2>1. /\ at' = [at EXCEPT ![r] = None]
        /\ \E label \in {"idle", "new"} : pc' = [pc EXCEPT ![r] = label]
        /\ at[r] = None /\ tried' = tried
        /\ UNCHANGED <<clientVars, poolVars, netVars, serverVars>>
    BY <1>2, <1>5 DEF ServeHTTP, Return, Goto
  <2> QED
    BY <1>4, <2>1, RequestIdles
<1>6. CASE NewConn(r)
  <2> DEFINE current == {l \in {mux} \cap Link : AvailableConns(l) > 0}
             choices == IF current # {} THEN current ELSE Best
  <2>1. at[r] = None /\ at = [at EXCEPT ![r] = None] /\ pc[r] = "new" /\ MuFree
    BY <1>2, <1>6 DEF NewConn
  <2>2. CASE current = {} /\ holes
    <3>1. /\ Return(r) /\ UNCHANGED <<mux, conns, connLastID>>
          /\ UNCHANGED <<tried, paused, muxers, holes, closing, alive, waitFin,
                         netVars, serverVars>>
      BY <1>6, <2>2 DEF NewConn
    <3>2. UNCHANGED <<clientVars, poolVars, netVars, serverVars>>
      BY <3>1 DEF clientVars, poolVars
    <3> QED
      BY <1>4, <2>1, <3>1, <3>2, RequestIdles DEF Return, Goto
  <2>3. CASE ~(current = {} /\ holes) /\ choices = {}
    <3>1. /\ Goto(r, "dial") /\ UNCHANGED <<at, mux, conns, connLastID>>
          /\ UNCHANGED <<tried, paused, muxers, holes, closing, alive, waitFin,
                         netVars, serverVars>>
      BY <1>6, <2>3 DEF NewConn
    <3>2. UNCHANGED <<clientVars, poolVars, netVars, serverVars>>
      BY <3>1 DEF clientVars, poolVars
    <3> QED
      BY <1>4, <2>1, <3>1, <3>2, RequestIdles DEF Goto
  <2>4. CASE ~(current = {} /\ holes) /\ choices # {}
    <3>1. /\ \E l \in choices : /\ TakeConn(l) /\ mux' = l
                                /\ at' = [at EXCEPT ![r] = l]
                                /\ pc' = [pc EXCEPT ![r] = "serve"]
          /\ UNCHANGED <<tried, paused, muxers, holes, closing, alive, waitFin,
                         netVars, serverVars>>
      BY <1>6, <2>4 DEF NewConn, Goto
    <3>2. PICK l \in choices : /\ TakeConn(l) /\ mux' = l
                               /\ at' = [at EXCEPT ![r] = l]
                               /\ pc' = [pc EXCEPT ![r] = "serve"]
      BY <3>1
    <3>3. l \in Link /\ AvailableConns(l) > 0 /\ peer[l] # "none"
      BY <1>1, <1>3 DEF Fresh
    <3> HIDE DEF choices
    <3> QED
      BY <1>4, <2>1, <3>1, <3>2, <3>3, RequestTakes
  <2> QED
    BY <2>2, <2>3, <2>4
<1>7. CASE NewConnMayDial(r)
  BY <1>2, <1>4, <1>7, RequestIdles DEF NewConnMayDial, Goto
<1>8. CASE Pick(r)
  <2>1. /\ pc[r] = "pick" /\ at[r] = None /\ at = [at EXCEPT ![r] = None]
        /\ UNCHANGED <<clientVars, poolVars, netVars, serverVars>>
    BY <1>2, <1>8 DEF Pick
  <2>2. \/ /\ \E label \in {"idle", "dialing"} : pc' = [pc EXCEPT ![r] = label]
           /\ at' = [at EXCEPT ![r] = None] /\ tried' \subseteq tried
        \/ \E l \in Best : /\ pc' = [pc EXCEPT ![r] = "grab"]
                           /\ at' = [at EXCEPT ![r] = l] /\ tried' = tried
    BY <1>8, <2>1 DEF Pick, Return, Goto
  <2>3. CASE /\ \E label \in {"idle", "dialing"} : pc' = [pc EXCEPT ![r] = label]
             /\ at' = [at EXCEPT ![r] = None] /\ tried' \subseteq tried
    BY <1>4, <2>1, <2>3, RequestIdles
  <2>4. ASSUME NEW l \in Best, pc' = [pc EXCEPT ![r] = "grab"],
               at' = [at EXCEPT ![r] = l], tried' = tried
        PROVE  IInv'
    <3>1. l \in Link /\ peer[l] # "none"
      BY <1>3
    <3>2. l # None
      BY <1>1, <3>1, LinkTypes
    <3>3. /\ UNCHANGED <<paused, muxers, holes, mux, closing>>
          /\ UNCHANGED <<alive, conns, connLastID, waitFin, cut, faults>>
          /\ UNCHANGED <<listening, serve, peer, muxerLimiter, activeMuxer, stopping>>
      BY <2>1 DEF clientVars, poolVars, netVars, serverVars
    <3>4. /\ Placed' /\ OneLockHolder'
          /\ pc' \in [Request -> {"idle", "new", "dial", "pick", "grab",
                                  "dialing", "serve", "finish"}]
          /\ at' \in [Request -> Link \cup {None}]
      BY <2>1, <2>4, <3>1, <3>2, <3>3, RequestGoes
    <3>5. TypeOK'
      BY <1>1, <2>4, <3>3, <3>4, Zenon DEF TypeOK
    <3>6. Fresh'
      <4>1. \A q \in Request : at'[q] = IF q = r THEN l ELSE at[q]
        BY <1>1, <2>4 DEF TypeOK
      <4> QED
        BY <1>1, <3>1, <3>3, <4>1 DEF Fresh
    <3>7. \A k \in Link : Held(k)' = Held(k)
      <4>1. /\ \A q \in Request : at'[q] = IF q = r THEN l ELSE at[q]
            /\ \A q \in Request : pc'[q] = IF q = r THEN "grab" ELSE pc[q]
        BY <1>1, <2>4 DEF TypeOK
      <4>2. \A k \in Link : at[r] # k
        BY <2>1 DEF None, Link
      <4> QED
        BY <4>1, <4>2 DEF Held
    <3>8. Accounted'
      BY <3>3, <3>7 DEF IInv, Accounted
    <3>9. ActiveMuxersExact'
      BY <3>3, ClientSide
    <3> QED
      BY <3>4, <3>5, <3>6, <3>8, <3>9 DEF IInv
  <2> QED
    BY <2>2, <2>3, <2>4
<1>9. CASE Grab(r)
  <2>1. /\ pc[r] = "grab" /\ at[r] \in Link /\ at = [at EXCEPT ![r] = at[r]]
        /\ peer[at[r]] # "none"
    BY <1>1, <1>2, <1>9 DEF Grab, Fresh
  <2>2. UNCHANGED <<paused, muxers, holes, closing, alive, waitFin, netVars, serverVars>>
    BY <1>9 DEF Grab
  <2>3. CASE AvailableConns(at[r]) > 0
    <3>1. /\ TakeConn(at[r]) /\ mux' = at[r] /\ at' = at
          /\ pc' = [pc EXCEPT ![r] = "serve"] /\ tried' \subseteq Request
      BY <1>4, <1>9, <2>3 DEF Grab, Goto
    <3> QED
      BY <2>1, <2>2, <2>3, <3>1, RequestTakes
  <2>4. CASE ~(AvailableConns(at[r]) > 0)
    <3>1. /\ pc' = [pc EXCEPT ![r] = "pick"] /\ at' = [at EXCEPT ![r] = None]
          /\ UNCHANGED <<mux, conns, connLastID, tried>>
      BY <1>9, <2>4 DEF Grab, Goto
    <3>2. UNCHANGED <<clientVars, poolVars, netVars, serverVars>>
      BY <2>2, <3>1 DEF clientVars, poolVars
    <3> QED
      BY <1>4, <2>1, <3>1, <3>2, RequestIdles
  <2> QED
    BY <2>3, <2>4
<1>10. CASE DialFails(r)
  <2>1. /\ at' = [at EXCEPT ![r] = None] /\ pc' = [pc EXCEPT ![r] = "idle"]
        /\ at[r] = None /\ tried' \subseteq Request
        /\ UNCHANGED <<clientVars, poolVars, netVars, serverVars>>
    BY <1>2, <1>10 DEF DialFails, Return, Goto
  <2> QED
    BY <2>1, RequestIdles
<1> QED
  BY <1>5, <1>6, <1>7, <1>8, <1>9, <1>10

\* dialLocked gives a new Muxer the name of a link nobody holds a Conn of; the
\* request has its first Conn.
LEMMA DialLockedIInv ==
    ASSUME IInv, NEW r \in Request, DialLocked(r)
    PROVE  IInv'
<1>1. TypeOK /\ Placed /\ Fresh /\ Accounted
  BY DEF IInv
<1>2. PICK l \in Link :
          /\ Unused(l)
          /\ muxers' = muxers \cup {l} /\ mux' = l /\ alive' = alive \cup {l}
          /\ conns' = [conns EXCEPT ![l] = 0]
          /\ connLastID' = [connLastID EXCEPT ![l] = 1]
          /\ waitFin' = [waitFin EXCEPT ![l] = 0]
          /\ cut' = cut \ {l} /\ peer' = [peer EXCEPT ![l] = "backlog"]
          /\ activeMuxer' = activeMuxer \ {l} /\ at' = [at EXCEPT ![r] = l]
  BY DEF DialLocked
<1>3. /\ pc[r] = "dialing" /\ tried' = {} /\ pc' = [pc EXCEPT ![r] = "serve"]
      /\ UNCHANGED <<paused, holes, closing, faults, listening, serve,
                     muxerLimiter, stopping>>
  BY DEF DialLocked, Goto
<1>4. /\ \A k \in Link : conns'[k] = IF k = l THEN 0 ELSE conns[k]
      /\ \A k \in Link : waitFin'[k] = IF k = l THEN 0 ELSE waitFin[k]
      /\ \A k \in Link : connLastID'[k] = IF k = l THEN 1 ELSE connLastID[k]
      /\ \A k \in Link : peer'[k] = IF k = l THEN "backlog" ELSE peer[k]
      /\ \A q \in Request : at'[q] = IF q = r THEN l ELSE at[q]
  BY <1>1, <1>2 DEF TypeOK
<1>5. l # None /\ at[r] = None /\ None \notin Link
  BY <1>1, <1>3, LinkTypes DEF Placed
<1>6. /\ Placed' /\ OneLockHolder'
      /\ pc' \in [Request -> {"idle", "new", "dial", "pick", "grab",
                              "dialing", "serve", "finish"}]
      /\ at' \in [Request -> Link \cup {None}]
  BY <1>2, <1>3, <1>5, RequestGoes
<1>7. TypeOK'
  <2>1. 0 \in 0..MaxConnID /\ 1 \in 0..MaxConnID
    BY ServiceAssumption
  <2>2. /\ conns' \in [Link -> 0..MaxConnID] /\ waitFin' \in [Link -> 0..MaxConnID]
        /\ connLastID' \in [Link -> 0..MaxConnID]
    BY <1>1, <1>2, <2>1, Zenon DEF TypeOK
  <2>3. peer' \in [Link -> {"none", "backlog", "accepted", "new", "serving", "ended"}]
    BY <1>1, <1>2, Zenon DEF TypeOK
  <2>4. /\ muxers' \subseteq Link /\ alive' \subseteq Link /\ cut' \subseteq Link
        /\ activeMuxer' \subseteq Link /\ mux' \in Link \cup {None}
        /\ tried' \subseteq Request
    BY <1>1, <1>2, <1>3, Zenon DEF TypeOK
  <2> QED
    BY <1>1, <1>3, <1>6, <2>2, <2>3, <2>4, Zenon DEF TypeOK
<1>8. Fresh'
  BY <1>1, <1>2, <1>4 DEF Fresh
<1>9. Accounted'
  <2> SUFFICES ASSUME NEW k \in Link
               PROVE  /\ conns'[k] + waitFin'[k] + Cardinality(Held(k))' <= connLastID'[k]
                      /\ k \in alive' => conns'[k] + waitFin'[k] + Cardinality(Held(k))'
                                            = connLastID'[k]
    BY DEF Accounted
  <2>1. /\ Cardinality(Held(k))' \in Nat
        /\ Cardinality(Held(k))' + (IF at[r] = k /\ pc[r] # "grab" THEN 1 ELSE 0)
           = Cardinality(Held(k)) + (IF l = k /\ "serve" # "grab" THEN 1 ELSE 0)
    <3>1. TypeOK /\ at' = [at EXCEPT ![r] = l] /\ pc' = [pc EXCEPT ![r] = "serve"]
      BY <1>1, <1>2, <1>3
    <3> QED
      BY <3>1, HeldMoves, Zenon
  <2>2. Cardinality(Held(k)) \in Nat
    BY HeldFinite
  <2>3. CASE k = l
    <3>1. \A q \in Request : at[q] # l
      BY <1>1, <1>2 DEF Unused, Fresh
    <3>2. Held(l) = {}
      BY <3>1 DEF Held
    <3>3. Cardinality(Held(k)) = 0
      BY <3>2, <2>3, FS_EmptySet
    <3> QED
      BY <1>4, <1>5, <2>1, <2>3, <3>3
  <2>4. CASE k # l
    <3>1. Cardinality(Held(k))' = Cardinality(Held(k))
      BY <1>5, <2>1, <2>2, <2>4
    <3> QED
      BY <1>1, <1>2, <1>4, <2>4, <3>1 DEF Accounted
  <2> QED
    BY <2>3, <2>4
<1>10. ActiveMuxersExact'
  <2>1. {k \in Link : peer'[k] \in {"new", "serving"}}
           = {k \in Link : peer[k] \in {"new", "serving"}}
    BY <1>2, <1>4 DEF Unused
  <2> QED
    BY <1>3, <2>1 DEF IInv, ActiveMuxersExact
<1> QED
  BY <1>6, <1>7, <1>8, <1>9, <1>10 DEF IInv

----------------------------------------------------------------------------
(* A request on its Conn.                                                  *)

\* A request gives up the Conn it holds.
LEMMA RequestLeaves ==
    ASSUME IInv, NEW r \in Request, pc[r] \in {"serve", "finish"}, Return(r),
           UNCHANGED closing
    PROVE  /\ Placed' /\ OneLockHolder'
           /\ pc' \in [Request -> {"idle", "new", "dial", "pick", "grab",
                                   "dialing", "serve", "finish"}]
           /\ at' \in [Request -> Link \cup {None}]
           /\ at[r] \in Link
           /\ \A q \in Request : at'[q] \in {None, at[q]}
           /\ \A k \in Link :
                 /\ Cardinality(Held(k)) \in Nat /\ Cardinality(Held(k))' \in Nat
                 /\ Cardinality(Held(k))' = IF k = at[r] THEN Cardinality(Held(k)) - 1
                                                         ELSE Cardinality(Held(k))
<1>1. TypeOK /\ Placed
  BY DEF IInv
<1>2. at' = [at EXCEPT ![r] = None] /\ pc' = [pc EXCEPT ![r] = "idle"]
  BY DEF Return, Goto
<1>3. at[r] \in Link
  BY <1>1 DEF Placed, TypeOK
<1>4. /\ Placed' /\ OneLockHolder'
      /\ pc' \in [Request -> {"idle", "new", "dial", "pick", "grab",
                              "dialing", "serve", "finish"}]
      /\ at' \in [Request -> Link \cup {None}]
  BY <1>2, RequestGoes
<1>5. \A q \in Request : at'[q] \in {None, at[q]}
  BY <1>1, <1>2 DEF TypeOK
<1>6. ASSUME NEW k \in Link
      PROVE  /\ Cardinality(Held(k)) \in Nat /\ Cardinality(Held(k))' \in Nat
             /\ Cardinality(Held(k))' = IF k = at[r] THEN Cardinality(Held(k)) - 1
                                                     ELSE Cardinality(Held(k))
  <2>1. /\ Cardinality(Held(k))' \in Nat
        /\ Cardinality(Held(k))' + (IF at[r] = k /\ pc[r] # "grab" THEN 1 ELSE 0)
           = Cardinality(Held(k)) + (IF None = k /\ "idle" # "grab" THEN 1 ELSE 0)
    <3>1. ASSUME NEW label \in {"idle"}, pc' = [pc EXCEPT ![r] = label]
          PROVE  /\ Cardinality(Held(k))' \in Nat
                 /\ Cardinality(Held(k))' + (IF at[r] = k /\ pc[r] # "grab" THEN 1 ELSE 0)
                    = Cardinality(Held(k)) + (IF None = k /\ label # "grab" THEN 1 ELSE 0)
      <4>1. TypeOK /\ at' = [at EXCEPT ![r] = None]
        BY <1>1, <1>2
      <4> QED
        BY <3>1, <4>1, HeldMoves
    <3> QED
      BY <1>2, <3>1
  <2>2. Cardinality(Held(k)) \in Nat /\ None # k
    BY <1>1, HeldFinite, LinkTypes
  <2> QED
    BY <2>1, <2>2
<1> QED
  BY <1>3, <1>4, <1>5, <1>6

\* The response arrives, the Conn is recycled, its Muxer dies, or the deadline
\* passes.
LEMMA ConnUsedIInv ==
    ASSUME IInv, NEW r \in Request,
           Response(r) \/ Finish(r) \/ Fail(r) \/ Timeout(r)
    PROVE  IInv'
<1>1. TypeOK /\ Placed /\ Fresh /\ Accounted
  BY DEF IInv
<1>2. /\ UNCHANGED <<paused, muxers, holes, mux, closing, tried, alive, connLastID>>
      /\ UNCHANGED <<cut, faults>>
      /\ UNCHANGED <<listening, serve, peer, muxerLimiter, activeMuxer, stopping>>
  BY DEF Response, Finish, Fail, Timeout, clientVars, poolVars, netVars, serverVars
<1>3. ActiveMuxersExact'
  BY <1>2, ClientSide
<1>4. None \notin Link
  BY DEF None, Link
<1>5. CASE Response(r)
  <2>1. /\ pc[r] = "serve" /\ pc' = [pc EXCEPT ![r] = "finish"] /\ at' = at
        /\ UNCHANGED <<conns, waitFin>>
    BY <1>5 DEF Response, Goto, poolVars
  <2>2. at[r] \in Link /\ at = [at EXCEPT ![r] = at[r]] /\ at[r] # None
    BY <1>1, <2>1 DEF Placed, TypeOK
  <2>3. /\ Placed' /\ OneLockHolder'
        /\ pc' \in [Request -> {"idle", "new", "dial", "pick", "grab",
                                "dialing", "serve", "finish"}]
        /\ at' \in [Request -> Link \cup {None}]
    BY <1>2, <2>1, <2>2, RequestGoes
  <2>4. \A k \in Link : Held(k)' = Held(k)
    <3>1. \A q \in Request : pc'[q] = IF q = r THEN "finish" ELSE pc[q]
      BY <1>1, <2>1 DEF TypeOK
    <3> QED
      BY <2>1, <3>1 DEF Held
  <2>5. TypeOK'
    BY <1>1, <1>2, <2>1, <2>3, Zenon DEF TypeOK
  <2>6. Fresh' /\ Accounted'
    BY <1>1, <1>2, <2>1, <2>4 DEF Fresh, Accounted
  <2> QED
    BY <1>3, <2>3, <2>5, <2>6 DEF IInv
<1>6. ASSUME Finish(r) \/ Fail(r) \/ Timeout(r)
      PROVE  IInv'
  <2>1. pc[r] \in {"serve", "finish"} /\ Return(r)
    BY <1>6 DEF Finish, Fail, Timeout
  <2>2. /\ Placed' /\ OneLockHolder'
        /\ pc' \in [Request -> {"idle", "new", "dial", "pick", "grab",
                                "dialing", "serve", "finish"}]
        /\ at' \in [Request -> Link \cup {None}]
        /\ at[r] \in Link
        /\ \A q \in Request : at'[q] \in {None, at[q]}
        /\ \A k \in Link :
              /\ Cardinality(Held(k)) \in Nat /\ Cardinality(Held(k))' \in Nat
              /\ Cardinality(Held(k))' = IF k = at[r] THEN Cardinality(Held(k)) - 1
                                                      ELSE Cardinality(Held(k))
    BY <1>2, <2>1, RequestLeaves
  <2>3. Fresh'
    BY <1>1, <1>2, <1>4, <2>2 DEF Fresh
  <2>4. /\ conns[at[r]] + 1 \in 0..MaxConnID
        /\ waitFin[at[r]] + 1 \in 0..MaxConnID
    BY <1>1, <2>2, LinkTypes DEF Accounted
  <2>5. /\ conns' \in [Link -> 0..MaxConnID]
        /\ waitFin' \in [Link -> 0..MaxConnID]
        /\ Accounted'
    <3>1. CASE Finish(r)
      <4>1. conns' = [conns EXCEPT ![at[r]] = conns[at[r]] + 1] /\ waitFin' = waitFin
        BY <3>1 DEF Finish, ConnRelease
      <4>2. \A k \in Link : conns'[k] = IF k = at[r] THEN conns[k] + 1 ELSE conns[k]
        BY <1>1, <4>1 DEF TypeOK
      <4>3. conns' \in [Link -> 0..MaxConnID] /\ waitFin' \in [Link -> 0..MaxConnID]
        BY <1>1, <2>4, <4>1, Zenon DEF TypeOK
      <4>4. ASSUME NEW k \in Link
            PROVE  conns'[k] + waitFin'[k] + Cardinality(Held(k))'
                      = conns[k] + waitFin[k] + Cardinality(Held(k))
        BY <1>1, <2>2, <4>1, <4>2, LinkTypes
      <4>5. Accounted'
        BY <1>1, <1>2, <4>4 DEF Accounted
      <4> QED
        BY <4>3, <4>5
    <3>2. CASE Fail(r)
      <4>1. conns' = conns /\ waitFin' = waitFin /\ at[r] \notin alive
        BY <3>2 DEF Fail, Aborted, poolVars
      <4>2. Accounted'
        BY <1>1, <1>2, <2>2, <4>1, LinkTypes DEF Accounted
      <4> QED
        BY <1>1, <4>1, <4>2 DEF TypeOK
    <3>3. CASE Timeout(r)
      <4>1. waitFin' = [waitFin EXCEPT ![at[r]] = waitFin[at[r]] + 1] /\ conns' = conns
        BY <3>3 DEF Timeout
      <4>2. \A k \in Link : waitFin'[k] = IF k = at[r] THEN waitFin[k] + 1 ELSE waitFin[k]
        BY <1>1, <4>1 DEF TypeOK
      <4>3. conns' \in [Link -> 0..MaxConnID] /\ waitFin' \in [Link -> 0..MaxConnID]
        BY <1>1, <2>4, <4>1, Zenon DEF TypeOK
      <4>4. ASSUME NEW k \in Link
            PROVE  conns'[k] + waitFin'[k] + Cardinality(Held(k))'
                      = conns[k] + waitFin[k] + Cardinality(Held(k))
        BY <1>1, <2>2, <4>1, <4>2, LinkTypes
      <4>5. Accounted'
        BY <1>1, <1>2, <4>4 DEF Accounted
      <4> QED
        BY <4>3, <4>5
    <3> QED
      BY <1>6, <3>1, <3>2, <3>3
  <2>6. TypeOK'
    BY <1>1, <1>2, <2>2, <2>5, Zenon DEF TypeOK
  <2> QED
    BY <1>3, <2>2, <2>3, <2>5, <2>6 DEF IInv
<1> QED
  BY <1>5, <1>6

\* receivedFinal recycles a Conn that was closed before the Server answered.
LEMMA RecycleIInv ==
    ASSUME IInv, NEW l \in Link, Recycle(l)
    PROVE  IInv'
<1>1. TypeOK /\ Placed /\ Fresh /\ Accounted /\ OneLockHolder
  BY DEF IInv
<1>2. /\ UNCHANGED <<paused, muxers, holes, mux, closing, pc, at, tried>>
      /\ UNCHANGED <<alive, connLastID, cut, faults>>
      /\ UNCHANGED <<listening, serve, peer, muxerLimiter, activeMuxer, stopping>>
  BY DEF Recycle, clientVars, reqVars, netVars, serverVars
<1>3. /\ waitFin[l] > 0 /\ waitFin' = [waitFin EXCEPT ![l] = waitFin[l] - 1]
      /\ conns' = [conns EXCEPT ![l] = conns[l] + 1]
  BY DEF Recycle, ConnRelease
<1>4. /\ \A k \in Link : conns'[k] = IF k = l THEN conns[k] + 1 ELSE conns[k]
      /\ \A k \in Link : waitFin'[k] = IF k = l THEN waitFin[k] - 1 ELSE waitFin[k]
  BY <1>1, <1>3 DEF TypeOK
<1>5. \A k \in Link : Held(k)' = Held(k) /\ Cardinality(Held(k)) \in Nat
  BY <1>2, HeldFinite DEF Held
<1>6. Placed' /\ Fresh' /\ OneLockHolder'
  BY <1>1, <1>2 DEF Placed, Fresh, OneLockHolder
<1>7. Accounted'
  <2>1. ASSUME NEW k \in Link
        PROVE  conns'[k] + waitFin'[k] + Cardinality(Held(k))'
                  = conns[k] + waitFin[k] + Cardinality(Held(k))
    BY <1>1, <1>3, <1>4, <1>5, LinkTypes
  <2> QED
    BY <1>1, <1>2, <2>1 DEF Accounted
<1>8. TypeOK'
  <2>1. conns[l] + 1 \in 0..MaxConnID /\ waitFin[l] - 1 \in 0..MaxConnID
    BY <1>1, <1>3, <1>5, LinkTypes DEF Accounted
  <2>2. conns' \in [Link -> 0..MaxConnID] /\ waitFin' \in [Link -> 0..MaxConnID]
    BY <1>1, <1>3, <2>1, Zenon DEF TypeOK
  <2> QED
    BY <1>1, <1>2, <2>2, Zenon DEF TypeOK
<1>9. ActiveMuxersExact'
  BY <1>2, ClientSide
<1> QED
  BY <1>6, <1>7, <1>8, <1>9 DEF IInv

----------------------------------------------------------------------------
(* The end of the Client's Muxers.                                         *)

\* Muxer.Close empties the pool of a Muxer that is alive no more.
LEMMA CloseMuxerKeeps ==
    ASSUME IInv, NEW l \in Link, CloseMuxer(l), UNCHANGED <<pc, at, connLastID>>
    PROVE  /\ Accounted'
           /\ conns' \in [Link -> 0..MaxConnID] /\ waitFin' \in [Link -> 0..MaxConnID]
           /\ alive' \subseteq alive /\ cut' \subseteq Link
<1>1. TypeOK /\ Accounted
  BY DEF IInv
<1>2. \A k \in Link : Held(k)' = Held(k) /\ Cardinality(Held(k)) \in Nat
  BY HeldFinite DEF Held
<1>3. CASE l \in alive
  <2>1. /\ alive' = alive \ {l} /\ cut' = cut \cup {l}
        /\ conns' = [conns EXCEPT ![l] = 0] /\ waitFin' = [waitFin EXCEPT ![l] = 0]
    BY <1>3 DEF CloseMuxer
  <2>2. /\ \A k \in Link : conns'[k] = IF k = l THEN 0 ELSE conns[k]
        /\ \A k \in Link : waitFin'[k] = IF k = l THEN 0 ELSE waitFin[k]
    BY <1>1, <2>1 DEF TypeOK
  <2>3. Accounted'
    BY <1>1, <1>2, <2>1, <2>2, LinkTypes DEF Accounted
  <2>4. 0 \in 0..MaxConnID
    BY ServiceAssumption
  <2>5. conns' \in [Link -> 0..MaxConnID] /\ waitFin' \in [Link -> 0..MaxConnID]
    BY <1>1, <2>1, <2>4, Zenon DEF TypeOK
  <2> QED
    BY <1>1, <2>1, <2>3, <2>5 DEF TypeOK
<1>4. CASE l \notin alive
  <2>1. UNCHANGED <<alive, cut, conns, waitFin>>
    BY <1>4 DEF CloseMuxer
  <2> QED
    BY <1>1, <1>2, <2>1 DEF TypeOK, Accounted
<1> QED
  BY <1>3, <1>4

\* A Muxer fails, or Shutdown or Close of the Client closes it.
LEMMA MuxerClosesIInv ==
    ASSUME IInv, (\E l \in Link : MuxerFails(l) \/ CloseMuxersLocked(l)) \/ ShutdownMuxers
    PROVE  IInv'
<1>1. TypeOK /\ Placed /\ Fresh /\ Accounted /\ OneLockHolder
  BY DEF IInv
<1>2. /\ UNCHANGED <<paused, mux, pc, at, tried, connLastID, faults>>
      /\ UNCHANGED <<listening, serve, peer, muxerLimiter, activeMuxer, stopping>>
      /\ \/ /\ UNCHANGED <<alive, cut, conns, waitFin, muxers, holes>>
            /\ closing = "shutting" /\ closing' = "done"
         \/ /\ \E l \in Link : CloseMuxer(l)
            /\ muxers' \subseteq muxers /\ holes' \in BOOLEAN
            /\ \/ closing' = closing
               \/ closing = "shutting" /\ closing' = "failed"
  BY <1>1 DEF MuxerFails, CloseMuxersLocked, ShutdownMuxers, clientVars, reqVars,
              serverVars, TypeOK
<1>3. /\ Accounted'
      /\ conns' \in [Link -> 0..MaxConnID] /\ waitFin' \in [Link -> 0..MaxConnID]
      /\ alive' \subseteq alive /\ cut' \subseteq Link
  <2>1. CASE UNCHANGED <<alive, cut, conns, waitFin>>
    BY <1>1, <1>2, <2>1 DEF TypeOK, Accounted, Held
  <2>2. CASE \E l \in Link : CloseMuxer(l)
    BY <1>2, <2>2, CloseMuxerKeeps
  <2> QED
    BY <1>2, <2>1, <2>2
<1>4. TypeOK'
  <2>1. /\ muxers' \subseteq Link /\ holes' \in BOOLEAN /\ alive' \subseteq Link
        /\ closing' \in {"no", "close", "shutdown", "shutting", "failed",
                         "closing", "done"}
    BY <1>1, <1>2, <1>3 DEF TypeOK
  <2> QED
    BY <1>1, <1>2, <1>3, <2>1, Zenon DEF TypeOK
<1>5. Fresh' /\ Placed'
  BY <1>1, <1>2, <1>3 DEF Fresh, Placed
<1>6. OneLockHolder'
  BY <1>1, <1>2 DEF OneLockHolder
<1>7. ActiveMuxersExact'
  BY <1>2, ClientSide
<1> QED
  BY <1>3, <1>4, <1>5, <1>6, <1>7 DEF IInv

\* Close and Shutdown of the Client begin, take the lock, and return.
LEMMA ClientClosesIInv ==
    ASSUME IInv,
           (\E call \in {"close", "shutdown"} : Pause(call)) \/ ShutdownLocks
             \/ CloseLocks \/ CloseReturns
    PROVE  IInv'
<1>1. TypeOK /\ Placed /\ Fresh /\ Accounted /\ OneLockHolder
  BY DEF IInv
<1>2. /\ UNCHANGED <<muxers, holes, mux, pc, at, tried>>
      /\ UNCHANGED <<alive, conns, connLastID, waitFin, cut>>
      /\ UNCHANGED <<listening, serve, peer, muxerLimiter, activeMuxer, stopping>>
      /\ paused' \in BOOLEAN
      /\ faults' = faults \/ (faults < MaxFaults /\ faults' = faults + 1)
      /\ closing' \in {"close", "shutdown", "shutting", "closing", "done"}
      /\ closing' \in {"shutting", "closing"} => MuFree
  <2> USE DEF reqVars, poolVars, netVars, serverVars
  <2>1. CASE \E call \in {"close", "shutdown"} : Pause(call)
    BY <2>1 DEF Pause, CountFault
  <2>2. CASE ShutdownLocks
    BY <1>1, <2>2, Zenon DEF ShutdownLocks, TypeOK
  <2>3. CASE CloseLocks
    BY <1>1, <2>3, Zenon DEF CloseLocks, TypeOK
  <2>4. CASE CloseReturns
    BY <1>1, <2>4, Zenon DEF CloseReturns, TypeOK
  <2> QED
    BY <2>1, <2>2, <2>3, <2>4
<1>3. faults' \in 0..MaxFaults
  BY <1>1, <1>2, ServiceAssumption DEF TypeOK
<1>4. closing' \in {"no", "close", "shutdown", "shutting", "failed", "closing", "done"}
  BY <1>2
<1>5. TypeOK'
  BY <1>1, <1>2, <1>3, <1>4, Zenon DEF TypeOK
<1>6. Placed' /\ Fresh'
  BY <1>1, <1>2 DEF Placed, Fresh
<1>7. Accounted'
  BY <1>1, <1>2 DEF Accounted, Held
<1>8. OneLockHolder'
  BY <1>1, <1>2 DEF OneLockHolder, MuFree
<1>9. ActiveMuxersExact'
  BY <1>2, ClientSide
<1> QED
  BY <1>5, <1>6, <1>7, <1>8, <1>9 DEF IInv

----------------------------------------------------------------------------
(* The Server, the network, and faults.                                    *)

\* A token is taken or given back exactly when a link begins or ceases to be
\* run; the other links are not touched.
LEMMA TokenMoves ==
    ASSUME IInv, NEW l \in Link, NEW label, peer' = [peer EXCEPT ![l] = label]
    PROVE  /\ Cardinality(Running)' \in Nat
           /\ Cardinality(Running)' + (IF peer[l] \in {"new", "serving"} THEN 1 ELSE 0)
              = Cardinality(Running) + (IF label \in {"new", "serving"} THEN 1 ELSE 0)
<1>1. \A k \in Link : peer'[k] = IF k = l THEN label ELSE peer[k]
  BY DEF IInv, TypeOK
<1>2. l \in Running <=> peer[l] \in {"new", "serving"}
  BY DEF Running
<1>3. IsFiniteSet(Running) /\ Cardinality(Running) \in Nat
  BY RunningFinite
<1>4. CASE label \in {"new", "serving"}
  <2>1. Running' = Running \cup {l}
    BY <1>1, <1>4 DEF Running
  <2>2. Cardinality(Running') = IF l \in Running THEN Cardinality(Running)
                                                 ELSE Cardinality(Running) + 1
    BY <1>3, <2>1, FS_AddElement
  <2> QED
    BY <1>2, <1>3, <1>4, <2>2
<1>5. CASE label \notin {"new", "serving"}
  <2>1. Running' = Running \ {l}
    BY <1>1, <1>5 DEF Running
  <2>2. Cardinality(Running') = IF l \in Running THEN Cardinality(Running) - 1
                                                 ELSE Cardinality(Running)
    BY <1>3, <2>1, FS_RemoveElement
  <2>3. Cardinality(Running') \in Nat
    BY <1>3, <2>1, FS_RemoveElement, FS_CardinalityType
  <2> QED
    BY <1>2, <1>3, <1>5, <2>2, <2>3
<1> QED
  BY <1>4, <1>5

\* Serve accepts a connection, waits for a token and starts a Muxer, which
\* ends and gives the token back.
LEMMA ServerLinkIInv ==
    ASSUME IInv, NEW l \in Link,
           Accept(l) \/ TakeSlot(l) \/ TrackMuxer(l) \/ MuxerEnds(l)
    PROVE  IInv'
<1>1. TypeOK /\ Fresh /\ ActiveMuxersExact
  BY DEF IInv
<1>2. /\ UNCHANGED <<clientVars, reqVars, poolVars>>
      /\ UNCHANGED <<cut, faults, listening, stopping>>
  BY DEF Accept, TakeSlot, TrackMuxer, MuxerEnds, netVars
<1>3. PICK label \in {"accepted", "new", "serving", "ended"} :
          /\ peer' = [peer EXCEPT ![l] = label]
          /\ muxerLimiter' + (IF peer[l] \in {"new", "serving"} THEN 1 ELSE 0)
             = muxerLimiter + (IF label \in {"new", "serving"} THEN 1 ELSE 0)
          /\ muxerLimiter' \in Int
          /\ muxerLimiter' <= MaxMuxers
          /\ serve' \in {"accept", "slot", "returned"}
          /\ activeMuxer' \subseteq Link
  <2>1. muxerLimiter \in Nat /\ muxerLimiter <= MaxMuxers /\ MaxMuxers \in Nat
    BY <1>1, ServiceAssumption DEF TypeOK
  <2>2. CASE Accept(l)
    BY <1>1, <2>1, <2>2 DEF Accept, TypeOK
  <2>3. CASE TakeSlot(l)
    BY <1>1, <2>1, <2>3 DEF TakeSlot, HasSlot, TypeOK
  <2>4. CASE TrackMuxer(l)
    BY <1>1, <2>1, <2>4 DEF TrackMuxer, TypeOK
  <2>5. CASE MuxerEnds(l)
    BY <1>1, <2>1, <2>5 DEF MuxerEnds, FreeSlot, TypeOK
  <2> QED
    BY <2>2, <2>3, <2>4, <2>5
<1>4. ActiveMuxersExact' /\ muxerLimiter' \in 0..MaxMuxers
  <2>1. /\ Cardinality(Running)' \in Nat
        /\ Cardinality(Running)' + (IF peer[l] \in {"new", "serving"} THEN 1 ELSE 0)
           = Cardinality(Running) + (IF label \in {"new", "serving"} THEN 1 ELSE 0)
    BY <1>3, TokenMoves
  <2>2. muxerLimiter = Cardinality(Running) /\ Cardinality(Running) \in Nat
    BY <1>1, RunningFinite DEF ActiveMuxersExact, Running
  <2>3. muxerLimiter' = Cardinality(Running)' /\ muxerLimiter' \in Nat
    BY <1>3, <2>1, <2>2
  <2> QED
    BY <1>3, <2>3, ServiceAssumption DEF ActiveMuxersExact, Running
<1>5. Placed' /\ Fresh' /\ Accounted' /\ OneLockHolder'
  <2>1. \A k \in Link : peer'[k] = "none" => peer[k] = "none"
    BY <1>1, <1>3 DEF TypeOK
  <2> QED
    BY <1>2, <2>1, ServerSide
<1>6. TypeOK'
  <2>1. peer' \in [Link -> {"none", "backlog", "accepted", "new", "serving", "ended"}]
    BY <1>1, <1>3 DEF TypeOK
  <2> QED
    BY <1>1, <1>2, <1>3, <1>4, <2>1, Zenon
       DEF TypeOK, clientVars, reqVars, poolVars
<1> QED
  BY <1>4, <1>5, <1>6 DEF IInv

\* What happens to the Server or the network without a token moving.
LEMMA ServerClosesIInv ==
    ASSUME IInv,
           \/ \E l \in Link : CloseActive(l) \/ Cut(l)
           \/ AcceptFails \/ Close \/ Closed \/ Restart
    PROVE  IInv'
<1>1. TypeOK
  BY DEF IInv
<1>2. /\ UNCHANGED <<clientVars, reqVars, poolVars, muxerLimiter>>
      /\ faults' = faults \/ (faults < MaxFaults /\ faults' = faults + 1)
      /\ cut' \subseteq Link /\ activeMuxer' \subseteq Link /\ listening' \in BOOLEAN
      /\ serve' \in {"accept", "slot", "returned"}
      /\ stopping' \in {"no", "muxers", "done"}
      /\ \/ peer' = peer
         \/ peer' = [l \in Link |-> IF l \in Refused THEN "ended" ELSE peer[l]]
  <2> USE <1>1 DEF netVars, serverVars, TypeOK
  <2>1. CASE \E l \in Link : CloseActive(l)
    BY <2>1, Zenon DEF CloseActive
  <2>2. CASE \E l \in Link : Cut(l)
    BY <2>2, Zenon DEF Cut, CountFault
  <2>3. CASE AcceptFails
    BY <2>3, Zenon DEF AcceptFails
  <2>4. CASE Close
    <3>1. cut' \subseteq Link
      BY <2>4 DEF Close, Refused
    <3> QED
      BY <2>4, <3>1, Zenon DEF Close, CountFault
  <2>5. CASE Closed
    BY <2>5, Zenon DEF Closed
  <2>6. CASE Restart
    BY <2>6, Zenon DEF Restart
  <2> QED
    BY <2>1, <2>2, <2>3, <2>4, <2>5, <2>6
<1>3. \A l \in Link : \/ peer'[l] = peer[l]
                      \/ peer[l] = "backlog" /\ peer'[l] = "ended"
  BY <1>2 DEF Refused
<1>4. Placed' /\ Fresh' /\ Accounted' /\ OneLockHolder'
  BY <1>2, <1>3, ServerSide
<1>5. ActiveMuxersExact'
  <2>1. {l \in Link : peer'[l] \in {"new", "serving"}}
           = {l \in Link : peer[l] \in {"new", "serving"}}
    BY <1>3
  <2> QED
    BY <1>2, <2>1 DEF IInv, ActiveMuxersExact
<1>6. TypeOK'
  <2>1. peer' \in [Link -> {"none", "backlog", "accepted", "new", "serving", "ended"}]
    BY <1>1, <1>2 DEF TypeOK
  <2>2. faults' \in 0..MaxFaults
    BY <1>1, <1>2, ServiceAssumption DEF TypeOK
  <2> QED
    BY <1>1, <1>2, <2>1, <2>2, Zenon DEF TypeOK, clientVars, reqVars, poolVars
<1> QED
  BY <1>4, <1>5, <1>6 DEF IInv

\* The Server's process ends: no link is run, and no token is left.
LEMMA CrashIInv ==
    ASSUME IInv, Crash
    PROVE  IInv'
<1>1. TypeOK
  BY DEF IInv
<1>2. /\ UNCHANGED <<clientVars, reqVars, poolVars>>
      /\ faults' = faults \/ (faults < MaxFaults /\ faults' = faults + 1)
      /\ cut' \subseteq Link /\ activeMuxer' = {} /\ listening' = FALSE
      /\ serve' = "returned" /\ stopping' = "no" /\ muxerLimiter' = 0
      /\ peer' = [l \in Link |-> IF l \in {k \in Link : peer[k] # "none"}
                                 THEN "ended" ELSE "none"]
  <2>1. cut' \subseteq Link
    BY <1>1 DEF Crash, TypeOK
  <2> QED
    BY <2>1, Zenon DEF Crash, CountFault
<1>3. \A l \in Link : peer'[l] = IF peer[l] # "none" THEN "ended" ELSE "none"
  BY <1>2
<1>4. Placed' /\ Fresh' /\ Accounted' /\ OneLockHolder'
  BY <1>2, <1>3, ServerSide
<1>5. ActiveMuxersExact'
  <2>1. {l \in Link : peer'[l] \in {"new", "serving"}} = {}
    BY <1>3
  <2>2. muxerLimiter' = Cardinality({l \in Link : peer'[l] \in {"new", "serving"}})
    BY <1>2, <2>1, FS_EmptySet
  <2> QED
    BY <1>2, <2>2, ServiceAssumption DEF ActiveMuxersExact
<1>6. TypeOK'
  <2>1. peer' \in [Link -> {"none", "backlog", "accepted", "new", "serving", "ended"}]
    BY <1>2
  <2>2. faults' \in 0..MaxFaults /\ muxerLimiter' \in 0..MaxMuxers
    BY <1>1, <1>2, ServiceAssumption DEF TypeOK
  <2>3. activeMuxer' \subseteq Link /\ listening' \in BOOLEAN
    BY <1>2
  <2> QED
    BY <1>1, <1>2, <2>1, <2>2, <2>3, Zenon DEF TypeOK, clientVars, reqVars, poolVars
<1> QED
  BY <1>4, <1>5, <1>6 DEF IInv

----------------------------------------------------------------------------
\* Every step preserves the inductive invariant.
LEMMA NextIInv == IInv /\ [Next]_vars => IInv'
<1> SUFFICES ASSUME IInv, [Next]_vars PROVE IInv'
  OBVIOUS
<1>1. ASSUME NEW r \in Request,
             \/ ServeHTTP(r) \/ NewConn(r) \/ NewConnMayDial(r) \/ Pick(r)
             \/ Grab(r) \/ DialLocked(r) \/ DialFails(r)
             \/ Response(r) \/ Finish(r) \/ Fail(r) \/ Timeout(r)
      PROVE  IInv'
  BY <1>1, FindIInv, DialLockedIInv, ConnUsedIInv
<1>2. ASSUME NEW l \in Link,
             \/ Recycle(l) \/ MuxerFails(l) \/ CloseMuxersLocked(l)
             \/ Accept(l) \/ TakeSlot(l) \/ TrackMuxer(l) \/ MuxerEnds(l)
             \/ CloseActive(l) \/ Cut(l)
      PROVE  IInv'
  BY <1>2, RecycleIInv, MuxerClosesIInv, ServerLinkIInv, ServerClosesIInv
<1>3. CASE \/ \E call \in {"close", "shutdown"} : Pause(call)
           \/ ShutdownLocks \/ ShutdownMuxers \/ CloseLocks \/ CloseReturns
  BY <1>3, MuxerClosesIInv, ClientClosesIInv
<1>4. CASE AcceptFails \/ Close \/ Closed \/ Crash \/ Restart
  BY <1>4, ServerClosesIInv, CrashIInv
<1>5. CASE UNCHANGED vars
  <2>1. UNCHANGED <<clientVars, reqVars, poolVars, netVars, serverVars>>
    BY <1>5 DEF vars
  <2>2. UNCHANGED <<peer, muxerLimiter>>
    BY <2>1 DEF serverVars
  <2>3. Placed' /\ Fresh' /\ Accounted' /\ OneLockHolder'
    BY <2>1, <2>2, ServerSide
  <2>4. TypeOK'
    BY <2>1, Zenon DEF IInv, TypeOK, clientVars, reqVars, poolVars, netVars, serverVars
  <2> QED
    BY <2>2, <2>3, <2>4, ClientSide DEF IInv
<1> QED
  BY <1>1, <1>2, <1>3, <1>4, <1>5 DEF Next

\* The inductive invariant holds of every behaviour of Client and Server.
THEOREM Invariance == Spec => []IInv
BY InitIInv, NextIInv, PTL DEF Spec

\* Every variable keeps its type: no pool holds more Conns than a Muxer has,
\* and no counter runs below zero.
THEOREM TypeCorrect == Spec => []TypeOK
<1>1. IInv => TypeOK
  BY DEF IInv
<1> QED
  BY <1>1, Invariance, PTL

\* The tokens of muxerLimiter are exactly the Muxers the Server runs, and never
\* more than MaxMuxers, across ends of Muxers, Close, crashes and restarts.
THEOREM TokensExact == Spec => []ActiveMuxersExact
<1>1. IInv => ActiveMuxersExact
  BY DEF IInv
<1> QED
  BY <1>1, Invariance, PTL

\* No Conn of a living Muxer is lost or in two places, whatever requests,
\* timeouts and faults came before.
THEOREM NoConnLost == Spec => []ConnsAccounted
<1>1. IInv => ConnsAccounted
  <2> SUFFICES ASSUME IInv, NEW l \in alive
               PROVE  connLastID[l] = conns[l] + waitFin[l]
                                      + Cardinality({r \in Request : at[r] = l /\ pc[r] # "grab"})
    BY DEF ConnsAccounted
  <2>1. l \in Link
    BY DEF IInv, TypeOK
  <2> QED
    BY <2>1 DEF IInv, Accounted, Held
<1> QED
  BY <1>1, Invariance, PTL

\* Client.mu, which no variable stands for, is never held by two requests, nor
\* by a request while Muxers are shut down or closed.
THEOREM ClientMuExclusive == Spec => []OneLockHolder
<1>1. IInv => OneLockHolder
  BY DEF IInv
<1> QED
  BY <1>1, Invariance, PTL
=============================================================================
