----------------------------- MODULE RapService -----------------------------
(***************************************************************************)
(* A Client (src/client.go) and the Server (src/server.go) it dials: how   *)
(* requests find a Muxer with a free Conn, when the Client dials, what the *)
(* Server does with a connection, and how the two survive each other's     *)
(* Close, a lost connection and a crash and restart of the Server.         *)
(*                                                                         *)
(* A link is a network connection with a Muxer at either end.  RapMuxer    *)
(* and RapConn have what happens on a link: here a Muxer lives or is dead, *)
(* its pool is a number of Conns, and a request on a Conn is answered,     *)
(* times out, or fails with its Muxer.  Locks are not variables: who holds *)
(* Client.mu and Server.mu follows from where the goroutines are.          *)
(***************************************************************************)
EXTENDS Naturals, FiniteSets

CONSTANTS
    Request,       \* the goroutines that call Client.ServeHTTP, again and again
    MaxLinks,      \* bound: network connections at a time
    MaxConnID,     \* Conns of a Muxer
    MaxMuxers,     \* Server.MaxMuxers, the capacity of muxerLimiter
    MaxFaults      \* bound: lost connections, Server crashes, and calls of
                   \* Close and Shutdown

ASSUME ServiceAssumption ==
    /\ MaxConnID \in Nat \ {0}
    /\ MaxMuxers \in Nat \ {0}
    /\ MaxLinks \in Nat /\ MaxFaults \in Nat
    /\ IsFiniteSet(Request)

Link == 1..MaxLinks

\* A nil *Muxer.
None == 0

VARIABLES
    \* the Client
    paused,        \* Client.paused
    muxers,        \* the links whose Muxers are in Client.muxers
    holes,         \* does Client.muxers have nil entries?
    mux,           \* Client.mux
    closing,       \* where Client.Close or Client.Shutdown is
    pc,            \* where a request is
    at,            \* the link it has chosen, or has a Conn of
    tried,         \* the requests whose startTime is before a failed dial
    \* the Client's Muxers
    alive,         \* the links whose Muxer at the Client has not been closed
    conns,         \* the number of Conns in the channel mux.conns
    connLastID,    \* Muxer.connLastID
    waitFin,       \* closed Conns that wait for the Server's final frame
    \* the network
    cut,           \* the links whose network connection is broken or closed
    faults,        \* how many of the events MaxFaults bounds have happened
    \* the Server
    listening,     \* is the listener open?
    serve,         \* where Serve is
    peer,          \* what the Server has made of a link
    muxerLimiter,  \* the number of tokens in Server.muxerLimiter
    activeMuxer,   \* the links in Server.activeMuxer
    stopping       \* where Server.Close is

clientVars == <<paused, muxers, holes, mux, closing>>
reqVars    == <<pc, at, tried>>
poolVars   == <<alive, conns, connLastID, waitFin>>
netVars    == <<cut, faults>>
serverVars == <<listening, serve, peer, muxerLimiter, activeMuxer, stopping>>
vars       == <<clientVars, reqVars, poolVars, netVars, serverVars>>

\* The type invariant.
TypeOK ==
    /\ paused \in BOOLEAN /\ holes \in BOOLEAN
    /\ muxers \subseteq Link
    /\ mux \in Link \cup {None}
    /\ closing \in {"no", "close", "shutdown", "shutting", "failed",
                    "closing", "done"}
    /\ pc \in [Request -> {"idle", "new", "dial", "pick", "grab", "dialing",
                           "serve", "finish"}]
    /\ at \in [Request -> Link \cup {None}]
    /\ tried \subseteq Request
    /\ alive \subseteq Link
    /\ conns \in [Link -> 0..MaxConnID]
    /\ connLastID \in [Link -> 0..MaxConnID]
    /\ waitFin \in [Link -> 0..MaxConnID]
    /\ cut \subseteq Link
    /\ faults \in 0..MaxFaults
    /\ listening \in BOOLEAN
    /\ serve \in {"accept", "slot", "returned"}
    /\ peer \in [Link -> {"none", "backlog", "accepted", "new", "serving",
                          "ended"}]
    /\ muxerLimiter \in 0..MaxMuxers
    /\ activeMuxer \subseteq Link
    /\ stopping \in {"no", "muxers", "done"}

\* NewClient, and a Server whose Serve has tracked its listener.
Init ==
    /\ paused = FALSE /\ holes = FALSE
    /\ muxers = {}
    /\ mux = None
    /\ closing = "no"
    /\ pc = [r \in Request |-> "idle"]
    /\ at = [r \in Request |-> None]
    /\ tried = {}
    /\ alive = {}
    /\ conns = [l \in Link |-> 0]
    /\ connLastID = [l \in Link |-> 0]
    /\ waitFin = [l \in Link |-> 0]
    /\ cut = {}
    /\ faults = 0
    /\ listening = TRUE
    /\ serve = "accept"
    /\ peer = [l \in Link |-> "none"]
    /\ muxerLimiter = 0
    /\ activeMuxer = {}
    /\ stopping = "no"

----------------------------------------------------------------------------
(* Client: a request finds a Conn.                                         *)

\* Mutant: Shutdown calls closeMuxers with the lock still held.
MuFree_Mutant ==
    /\ \A r \in Request : pc[r] \notin {"pick", "grab", "dialing"}
    /\ closing \notin {"shutting", "failed", "closing"}

\* Client.mu is held in the loop of NewConnMayDial, its dial included, and
\* while the Muxers are shut down or closed.
MuFree ==
    /\ \A r \in Request : pc[r] \notin {"pick", "grab", "dialing"}
    /\ closing \notin {"shutting", "closing"}

AvailableConns(l) == conns[l] + (MaxConnID - connLastID[l])

\* Muxer.NewConn: a recycled Conn before a new ID.
TakeConn(l) ==
    IF conns[l] > 0
    THEN conns' = [conns EXCEPT ![l] = @ - 1] /\ UNCHANGED connLastID
    ELSE connLastID' = [connLastID EXCEPT ![l] = @ + 1] /\ UNCHANGED conns

\* The Muxers selectBestMuxLocked may return: those with the most Conns.
\* Dead Muxers are still in muxers and count with the IDs they have left.
Best ==
    {l \in muxers : /\ AvailableConns(l) > 0
                    /\ \A k \in muxers : AvailableConns(k) <= AvailableConns(l)}

Goto(r, label) == pc' = [pc EXCEPT ![r] = label]

\* The request is over, with the Server's answer or with an error.
Return(r) == Goto(r, "idle") /\ at' = [at EXCEPT ![r] = None]

\* ServeHTTP, up to the call of NewConn: 503 if the Client is closed.
ServeHTTP(r) ==
    /\ pc[r] = "idle"
    /\ IF paused THEN Return(r)
                 ELSE Goto(r, "new") /\ UNCHANGED at
    /\ UNCHANGED <<tried, clientVars, poolVars, netVars, serverVars>>

\* Client.NewConn: from the current Muxer, else from the best.  A nil entry
\* in muxers, which Shutdown leaves there, makes selectBestMuxLocked panic.
NewConn(r) ==
    /\ pc[r] = "new"
    /\ MuFree
    /\ LET current == {l \in {mux} \cap Link : AvailableConns(l) > 0}
           choices == IF current # {} THEN current ELSE Best
       IN IF current = {} /\ holes
          THEN Return(r) /\ UNCHANGED <<mux, conns, connLastID>>
          ELSE IF choices = {}
          THEN Goto(r, "dial") /\ UNCHANGED <<at, mux, conns, connLastID>>
          ELSE \E l \in choices : /\ TakeConn(l)
                                  /\ mux' = l
                                  /\ at' = [at EXCEPT ![r] = l]
                                  /\ Goto(r, "serve")
    /\ UNCHANGED <<tried, paused, muxers, holes, closing, alive, waitFin, netVars,
                   serverVars>>

\* NewConnMayDial: startTime was taken before the lock.
NewConnMayDial(r) ==
    /\ pc[r] = "dial"
    /\ MuFree
    /\ Goto(r, "pick")
    /\ UNCHANGED <<at, tried, clientVars, poolVars, netVars,
                   serverVars>>

\* c.lastAttempt.Before(startTime); a successful dial zeroes lastAttempt.
MayDial(r) == r \notin tried

\* One turn of its loop: the best Muxer, else a dial, unless one has failed
\* since startTime; then offlineError.
Pick(r) ==
    /\ pc[r] = "pick"
    /\ IF holes
       THEN Return(r) /\ tried' = tried \ {r}
       ELSE \/ \E l \in Best : /\ Goto(r, "grab")
                               /\ at' = [at EXCEPT ![r] = l]
                               /\ UNCHANGED tried
            \/ /\ Best = {}
               /\ IF MayDial(r)
                  THEN Goto(r, "dialing") /\ UNCHANGED <<at, tried>>
                  ELSE Return(r) /\ tried' = tried \ {r}
    /\ UNCHANGED <<clientVars, poolVars, netVars, serverVars>>

\* NewConnWait.  The Muxer may have died and emptied its pool since Pick: the
\* timer then sends the loop around.
Grab(r) ==
    /\ pc[r] = "grab"
    /\ IF AvailableConns(at[r]) > 0
       THEN /\ TakeConn(at[r])
            /\ mux' = at[r]
            /\ Goto(r, "serve")
            /\ tried' = tried \ {r}
            /\ UNCHANGED at
       ELSE /\ Goto(r, "pick")
            /\ at' = [at EXCEPT ![r] = None]
            /\ UNCHANGED <<mux, conns, connLastID, tried>>
    /\ UNCHANGED <<paused, muxers, holes, closing, alive,
                   waitFin, netVars, serverVars>>

\* A link that was never used, or one whose Muxers are dead and have no Conn
\* left: it stays in Client.muxers for ever, where it counts for nothing, and
\* the model uses its name for a new one.
Unused(l) ==
    \/ peer[l] = "none"
    \/ /\ peer[l] = "ended" /\ l \notin alive
       /\ conns[l] = 0 /\ connLastID[l] = MaxConnID
       /\ \A r \in Request : at[r] # l

\* dialLocked, and NewConnWait on the new Muxer.  The kernel completes the
\* connection, whether or not Serve is ready to accept it.
DialLocked(r) ==
    /\ pc[r] = "dialing"
    /\ listening
    /\ \E l \in Link :
          /\ Unused(l) /\ \A k \in 1..l - 1 : ~Unused(k)
          /\ muxers' = muxers \cup {l}
          /\ mux' = l
          /\ alive' = alive \cup {l}
          /\ conns' = [conns EXCEPT ![l] = 0]
          /\ connLastID' = [connLastID EXCEPT ![l] = 1]
          /\ waitFin' = [waitFin EXCEPT ![l] = 0]
          /\ cut' = cut \ {l}
          /\ peer' = [peer EXCEPT ![l] = "backlog"]
          /\ activeMuxer' = activeMuxer \ {l}
          /\ at' = [at EXCEPT ![r] = l]
    /\ tried' = {}
    /\ Goto(r, "serve")
    /\ UNCHANGED <<paused, holes, closing, faults, listening, serve,
                   muxerLimiter, stopping>>

\* The dial fails: nobody listens, or the bound on links is reached.  Whoever
\* waits for Client.mu now shares the failure.
DialFails(r) ==
    /\ pc[r] = "dialing"
    /\ ~listening \/ \A l \in Link : ~Unused(l)
    /\ tried' = {q \in Request : pc[q] = "dial"}
    /\ Return(r)
    /\ UNCHANGED <<clientVars, poolVars, netVars, serverVars>>

----------------------------------------------------------------------------
(* Client: a request on its Conn.                                          *)

Served(l) == l \in alive \ cut /\ peer[l] = "serving"

\* serveHTTP, when the Server has answered: the response and, with it, the
\* final frame of the Server's end.
Response(r) ==
    /\ pc[r] = "serve"
    /\ Served(at[r])
    /\ Goto(r, "finish")
    /\ UNCHANGED <<at, tried, clientVars, poolVars, netVars,
                   serverVars>>

\* Mutant: the Conn is released to no pool.
ConnRelease_Mutant(l) == UNCHANGED conns

\* Muxer.ConnRelease
ConnRelease(l) == conns' = [conns EXCEPT ![l] = @ + 1]

\* The deferred Close recycles the Conn, as both final frames are sent.  It
\* goes back to its Muxer's pool even if the Muxer has died meanwhile.
Finish(r) ==
    /\ pc[r] = "finish"
    /\ ConnRelease(at[r])
    /\ Return(r)
    /\ UNCHANGED <<tried, clientVars, alive, connLastID, waitFin, netVars,
                   serverVars>>

\* Mutant: a blocked Read or Write does not select on ConnAbortChannel.
Aborted_Mutant(l) == FALSE

\* mux.ConnAbortChannel is closed.
Aborted(l) == l \notin alive

\* The Muxer is dead: serveHTTP panics with the error, and Close leaves the
\* Conn waiting for a final frame that will not come.
Fail(r) ==
    /\ pc[r] = "serve"
    /\ Aborted(at[r])
    /\ Return(r)
    /\ UNCHANGED <<tried, clientVars, poolVars, netVars, serverVars>>

\* The deadlines that ReadTimeout and WriteTimeout set are longer than the
\* Server takes to answer, but not than a connection may wait to be served.
TimedOut(l) == peer[l] \in {"backlog", "accepted", "new"}

\* The deadline passes: serveHTTP panics, and Close sends a final frame.
Timeout(r) ==
    /\ pc[r] = "serve"
    /\ at[r] \in alive
    /\ TimedOut(at[r])
    /\ waitFin' = [waitFin EXCEPT ![at[r]] = @ + 1]
    /\ Return(r)
    /\ UNCHANGED <<tried, clientVars, alive, conns, connLastID, netVars,
                   serverVars>>

\* The Server answers the request that was given up, or its final frame:
\* receivedFinal recycles the Conn.
Recycle(l) ==
    /\ Served(l)
    /\ waitFin[l] > 0
    /\ waitFin' = [waitFin EXCEPT ![l] = @ - 1]
    /\ ConnRelease(l)
    /\ UNCHANGED <<clientVars, reqVars, alive, connLastID, netVars, serverVars>>

----------------------------------------------------------------------------
(* Client: the end of Muxers.                                              *)

\* Muxer.Close of a Client's Muxer: the network connection is closed and the
\* pool emptied.  Closing a closed one does nothing.
CloseMuxer(l) ==
    IF l \in alive
    THEN /\ alive' = alive \ {l}
         /\ cut' = cut \cup {l}
         /\ conns' = [conns EXCEPT ![l] = 0]
         /\ waitFin' = [waitFin EXCEPT ![l] = 0]
    ELSE UNCHANGED <<alive, cut, conns, waitFin>>

\* Muxer.ServeHTTP at the Client: an I/O error closes the Muxer.  The Client
\* is not told.
MuxerFails(l) ==
    /\ l \in alive \cap cut
    /\ CloseMuxer(l)
    /\ UNCHANGED <<clientVars, reqVars, connLastID, faults, serverVars>>

CountFault == faults < MaxFaults /\ faults' = faults + 1

\* Close and Shutdown begin by setting paused, without the lock.
Pause(call) ==
    /\ closing = "no"
    /\ CountFault
    /\ paused' = TRUE
    /\ closing' = call
    /\ UNCHANGED <<muxers, holes, mux, reqVars, poolVars, cut, serverVars>>

\* shutdownMuxers takes the lock.
ShutdownLocks ==
    /\ closing = "shutdown"
    /\ MuFree
    /\ closing' = "shutting"
    /\ UNCHANGED <<paused, muxers, holes, mux, reqVars, poolVars, netVars,
                   serverVars>>

\* Muxer.Shutdown interrupts the Conns and, after ReadTimeout, fails, since
\* connLookup[0] is never nil (see RapMuxer).  So the first Muxer is the last
\* one shut down, and with no Muxer Shutdown succeeds.
ShutdownMuxers ==
    /\ closing = "shutting"
    /\ IF muxers = {}
       THEN closing' = "done" /\ UNCHANGED <<muxers, holes, alive, cut, conns, waitFin>>
       ELSE \E l \in muxers : /\ CloseMuxer(l)
                              /\ muxers' = muxers \ {l}
                              /\ holes' = TRUE
                              /\ closing' = "failed"
    /\ UNCHANGED <<paused, mux, reqVars, connLastID, faults, serverVars>>

\* Close, or closeMuxers after a failed Shutdown, takes the lock.
CloseLocks ==
    /\ closing \in {"close", "failed"}
    /\ MuFree
    /\ closing' = "closing"
    /\ UNCHANGED <<paused, muxers, holes, mux, reqVars, poolVars, netVars,
                   serverVars>>

\* closeMuxersLocked, one Muxer
CloseMuxersLocked(l) ==
    /\ closing = "closing"
    /\ l \in muxers
    /\ CloseMuxer(l)
    /\ muxers' = muxers \ {l}
    /\ UNCHANGED <<paused, holes, mux, closing, reqVars, connLastID, faults,
                   serverVars>>

\* Close returns; mux still names a closed Muxer.  Only Shutdown, which does
\* not reset muxers, leaves nil entries.
CloseReturns ==
    /\ closing = "closing"
    /\ muxers = {}
    /\ closing' = "done"
    /\ UNCHANGED <<paused, muxers, holes, mux, reqVars, poolVars, netVars,
                   serverVars>>

----------------------------------------------------------------------------
(* Server.                                                                 *)

\* Server.mu is held while Close closes Muxers.
ServerMuFree == stopping # "muxers"

\* Serve: Accept returns a connection.
Accept(l) ==
    /\ serve = "accept"
    /\ listening
    /\ peer[l] = "backlog"
    /\ peer' = [peer EXCEPT ![l] = "accepted"]
    /\ serve' = "slot"
    /\ UNCHANGED <<listening, muxerLimiter, activeMuxer, stopping, clientVars,
                   reqVars, poolVars, netVars>>

\* Serve: Accept fails since Close has closed the listener.
AcceptFails ==
    /\ serve = "accept"
    /\ ~listening /\ ServerMuFree
    /\ serve' = "returned"
    /\ UNCHANGED <<listening, peer, muxerLimiter, activeMuxer, stopping,
                   clientVars, reqVars, poolVars, netVars>>

\* Mutant: Serve does not wait for a token.
HasSlot_Mutant == TRUE

HasSlot == muxerLimiter < MaxMuxers

\* Serve sends a token to muxerLimiter and starts the goroutine.
TakeSlot(l) ==
    /\ serve = "slot" /\ peer[l] = "accepted"
    /\ HasSlot
    /\ ServerMuFree
    /\ muxerLimiter' = muxerLimiter + 1
    /\ peer' = [peer EXCEPT ![l] = "new"]
    /\ serve' = "accept"
    /\ UNCHANGED <<listening, activeMuxer, stopping, clientVars, reqVars,
                   poolVars, netVars>>

\* trackMuxer, and Muxer.ServeHTTP begins
TrackMuxer(l) ==
    /\ peer[l] = "new"
    /\ ServerMuFree
    /\ activeMuxer' = activeMuxer \cup {l}
    /\ peer' = [peer EXCEPT ![l] = "serving"]
    /\ UNCHANGED <<listening, serve, muxerLimiter, stopping, clientVars,
                   reqVars, poolVars, netVars>>

\* Mutant: the token is not taken back.
FreeSlot_Mutant == UNCHANGED muxerLimiter

\* <-srv.getMuxerLimiter()
FreeSlot == muxerLimiter' = muxerLimiter - 1

\* Muxer.ServeHTTP returns on an I/O error; the Muxer stays in activeMuxer.
MuxerEnds(l) ==
    /\ peer[l] = "serving" /\ l \in cut
    /\ ServerMuFree
    /\ FreeSlot
    /\ peer' = [peer EXCEPT ![l] = "ended"]
    /\ UNCHANGED <<listening, serve, activeMuxer, stopping, clientVars,
                   reqVars, poolVars, netVars>>

\* The connections nobody has accepted go with the listener.
Refused == {l \in Link : peer[l] = "backlog"}

\* Server.Close: doneChan and the listeners.
Close ==
    /\ stopping = "no" /\ listening
    /\ CountFault
    /\ stopping' = "muxers"
    /\ listening' = FALSE
    /\ cut' = cut \cup Refused
    /\ peer' = [l \in Link |-> IF l \in Refused THEN "ended" ELSE peer[l]]
    /\ UNCHANGED <<serve, muxerLimiter, activeMuxer, clientVars, reqVars,
                   poolVars>>

\* Server.Close: a Muxer of activeMuxer.
CloseActive(l) ==
    /\ stopping = "muxers" /\ l \in activeMuxer
    /\ cut' = cut \cup {l}
    /\ activeMuxer' = activeMuxer \ {l}
    /\ UNCHANGED <<listening, serve, peer, muxerLimiter, stopping, clientVars,
                   reqVars, poolVars, faults>>

\* Server.Close returns.
Closed ==
    /\ stopping = "muxers" /\ activeMuxer = {}
    /\ stopping' = "done"
    /\ UNCHANGED <<listening, serve, peer, muxerLimiter, activeMuxer,
                   clientVars, reqVars, poolVars, netVars>>

----------------------------------------------------------------------------
(* Faults.                                                                 *)

\* A network connection breaks.
Cut(l) ==
    /\ CountFault
    /\ l \in alive \ cut
    /\ cut' = cut \cup {l}
    /\ UNCHANGED <<clientVars, reqVars, poolVars, serverVars>>

\* The Server's process ends, whatever it was doing; after a Close that
\* is no fault.
Crash ==
    /\ \/ stopping = "done" /\ UNCHANGED faults
       \/ stopping # "done" /\ serve # "returned" /\ CountFault
    /\ LET reached == {l \in Link : peer[l] # "none"}
       IN /\ cut' = cut \cup reached
          /\ peer' = [l \in Link |-> IF l \in reached THEN "ended" ELSE "none"]
    /\ listening' = FALSE
    /\ serve' = "returned"
    /\ muxerLimiter' = 0
    /\ activeMuxer' = {}
    /\ stopping' = "no"
    /\ UNCHANGED <<clientVars, reqVars, poolVars>>

\* A new process: a Server with nothing of the old one but its address.
Restart ==
    /\ serve = "returned" /\ ~listening /\ stopping = "no"
    /\ listening' = TRUE
    /\ serve' = "accept"
    /\ UNCHANGED <<peer, muxerLimiter, activeMuxer, stopping, clientVars,
                   reqVars, poolVars, netVars>>

----------------------------------------------------------------------------
Next ==
    \/ \E r \in Request :
          \/ ServeHTTP(r) \/ NewConn(r) \/ NewConnMayDial(r) \/ Pick(r)
          \/ Grab(r) \/ DialLocked(r) \/ DialFails(r)
          \/ Response(r) \/ Finish(r) \/ Fail(r) \/ Timeout(r)
    \/ \E l \in Link :
          \/ Recycle(l) \/ MuxerFails(l) \/ CloseMuxersLocked(l)
          \/ Accept(l) \/ TakeSlot(l) \/ TrackMuxer(l) \/ MuxerEnds(l)
          \/ CloseActive(l) \/ Cut(l)
    \/ \E call \in {"close", "shutdown"} : Pause(call)
    \/ ShutdownLocks \/ ShutdownMuxers \/ CloseLocks \/ CloseReturns
    \/ AcceptFails \/ Close \/ Closed \/ Crash \/ Restart

Spec == Init /\ [][Next]_vars

\* Goroutines run, timers expire, a mutex is given to every goroutine that
\* waits for it (Go's mutexes have a starvation mode), and requests keep
\* coming.  Nobody has to call Close or Shutdown, restart a Server, or break
\* a connection.
Fairness ==
    /\ \A r \in Request :
          /\ SF_vars(NewConn(r) \/ NewConnMayDial(r))
          /\ WF_vars(\/ ServeHTTP(r) \/ Pick(r) \/ Grab(r) \/ DialLocked(r)
                     \/ DialFails(r) \/ Response(r) \/ Timeout(r) \/ Fail(r)
                     \/ Finish(r))
    /\ \A l \in Link :
          /\ WF_vars(Recycle(l) \/ MuxerFails(l))
          /\ WF_vars(TrackMuxer(l) \/ MuxerEnds(l))
    /\ WF_vars(AcceptFails \/ \E l \in Link : Accept(l) \/ TakeSlot(l))
    /\ SF_vars(ShutdownLocks \/ CloseLocks)
    /\ WF_vars(\/ ShutdownMuxers \/ CloseReturns
               \/ \E l \in Link : CloseMuxersLocked(l))
    /\ WF_vars(Closed \/ \E l \in Link : CloseActive(l))

FairSpec == Spec /\ Fairness

----------------------------------------------------------------------------
\* The Server never runs more than MaxMuxers Muxers, ActiveMuxers counts the
\* ones it runs, and no token is lost when a Muxer ends.
ActiveMuxersExact ==
    /\ muxerLimiter = Cardinality({l \in Link : peer[l] \in {"new", "serving"}})
    /\ muxerLimiter <= MaxMuxers

\* Of a Client's living Muxer every Conn that was ever made is with a request,
\* in the pool, or closed and waiting for the Server, and never in two places:
\* what AvailableConns adds up can really be handed out.
ConnsAccounted ==
    \A l \in alive :
       connLastID[l] = conns[l] + waitFin[l]
                       + Cardinality({r \in Request : /\ at[r] = l
                                                      /\ pc[r] # "grab"})

\* ServeHTTP of the Client returns, whatever happens to Client, Server and
\* network: not the lock held during a dial, nor a dead Muxer, nor a
\* connection that is never accepted keeps a request for ever.
RequestEnds ==
    \A r \in Request : pc[r] = "new" ~> pc[r] = "idle"

\* If the Server stays up, requests are answered again and again, whatever
\* was lost before: the Client does not stick to Muxers that are dead.
Recovers ==
    <>[](listening /\ ~paused)
       => []<>(\E r \in Request : pc[r] = "finish")

\* Close and Shutdown of the Client return, and so does Close of the Server
\* (or its process is gone).
ClosersReturn ==
    /\ closing = "close" ~> closing = "done"
    /\ closing = "shutdown" ~> closing = "done"
    /\ stopping = "muxers" ~> stopping # "muxers"

\* "Close stops serving requests and closes all Muxers immediately"
\* (client.go) and "Close immediately closes all active network connections
\* and Muxers" (server.go): once it has returned, none of its Muxers lives.
CloseComplete ==
    /\ closing = "done" => alive = {}
    /\ stopping = "done" => \A l \in Link : peer[l] \in {"new", "serving"}
                                            => l \in cut
=============================================================================
