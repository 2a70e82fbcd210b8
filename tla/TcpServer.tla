----------------------------- MODULE TcpServer -----------------------------
(***************************************************************************)
(* Net::Server::Server and its Sessions (Server/source/NetServer.cpp): the *)
(* accept loop with its limit and its backoff, the session table, the      *)
(* sweep the monitor thread asks for every checkTime seconds, stop() and   *)
(* the restart.                                                            *)
(*                                                                         *)
(* A session's connection is the abstract channel Connection.tla is proved *)
(* to implement: open, closing while frames are still owed to the peer,    *)
(* closed.  `ready' is the io_context's queue of posted handlers; the      *)
(* completions of a session's own reads and writes run directly, in any    *)
(* order.  Time is what a session can measure: the seconds since its last  *)
(* activity and since its close was asked for, counted up to the first     *)
(* value past the limit they are compared with.                            *)
(***************************************************************************)
EXTENDS Naturals, Sequences, FiniteSets, SequencesExt, HandlerQueue

CONSTANTS
    Conns,            \* the connections peers may open
    NoConn,           \* in a handler that is of no connection
    timeOut,          \* a session's idle limit, in seconds
    kCloseGraceSeconds,
    maxConnections,   \* limit of the session table, 0 when there is none
    MaxStarts,        \* bound: calls of start
    MaxStops,         \* bound: calls of stop
    MaxCalls,         \* bound: messages, replies and closes of the business
    MaxErrors         \* bound: accept and bind errors

ASSUME ServerAssumption ==
    /\ IsFiniteSet(Conns) /\ NoConn \notin Conns
    /\ {timeOut, kCloseGraceSeconds} \subseteq Nat \ {0}
    /\ {maxConnections, MaxStarts, MaxStops, MaxCalls, MaxErrors} \subseteq Nat

VARIABLES
    running,          \* the flag every loop of the server checks
    launched,         \* selfWeak has been set
    monitor,          \* clearSessionThread: "off", "waiting" or "posting"
    acceptor,         \* "closed", "bound" by no address yet, or "listening"
    accepts,          \* async_accepts in flight
    retries,          \* backoff timers in flight
    sessions,         \* the session table
    ready,            \* the io_context's posted handlers
    phase,            \* the connection of each: "away", "arriving", then the channel's
    owes,             \* frames queued or in flight
    stop,             \* the session's close was asked for
    idle, waited,     \* seconds since lastTime, and since closeReqTime
    starts, stops, calls, errors     \* how often each bounded step ran

listener == <<launched, acceptor, accepts, retries>>
perConn  == <<phase, owes, stop, idle, waited>>
bounds   == <<starts, stops, calls, errors>>
vars     == <<running, monitor, listener, sessions, ready, perConn, bounds>>

-----------------------------------------------------------------------------
Handler(kind, c, ec) == [kind |-> kind, conn |-> c, ec |-> ec]
Posted(kind) == ready # <<>> /\ Head(ready).kind = kind
Rest == Tail(ready)

Live(c) == phase[c] \in {"open", "closing"}

Init ==
    /\ running = FALSE /\ launched = FALSE /\ monitor = "off"
    /\ acceptor = "closed" /\ accepts = 0 /\ retries = 0
    /\ sessions = {} /\ ready = <<>>
    /\ phase = [c \in Conns |-> "away"]
    /\ owes = [c \in Conns |-> FALSE] /\ stop = [c \in Conns |-> FALSE]
    /\ idle = [c \in Conns |-> 0] /\ waited = [c \in Conns |-> 0]
    /\ starts = 0 /\ stops = 0 /\ calls = 0 /\ errors = 0

-----------------------------------------------------------------------------
(* What the handlers do to sessions: `C' is a set of them, `r' the handler *)
(* queue so far.                                                           *)

\* closeSession(): marked, the time noted, the graceful close posted.
CloseSessions_Unmarked(C, r) ==
    /\ stop' = stop /\ waited' = waited
    /\ ready' = r \o SetToSeq({Handler("close", c, "ok") : c \in C})
CloseSessions(C, r) ==
    /\ stop' = [c \in Conns |-> stop[c] \/ c \in C]
    /\ waited' = [c \in Conns |-> IF c \in C THEN 0 ELSE waited[c]]
    /\ ready' = r \o SetToSeq({Handler("close", c, "ok") : c \in C})

\* The connection ends at once: errToClose().
Dropped(C) == /\ phase' = [c \in Conns |-> IF c \in C /\ Live(c) THEN "closed" ELSE phase[c]]
              /\ owes' = [c \in Conns |-> owes[c] /\ c \notin C]

IsClosed(c) == stop[c] \/ phase[c] # "open"
TimedOut(c) == idle[c] > timeOut

NeedForceClose_Never(c) == FALSE
NeedForceClose(c) == stop[c] /\ Live(c) /\ waited[c] > kCloseGraceSeconds

NeedReclaim_WhenAsked(c) == IsClosed(c)
NeedReclaim(c) == ~Live(c)

-----------------------------------------------------------------------------
(* The owner's thread.                                                     *)

\* startAccept(), with the handler queue so far.  An accept on an acceptor
\* that was closed fails at once.
StartAccept(r) ==
    IF acceptor = "closed"
    THEN accepts' = accepts /\ ready' = Append(r, Handler("accept", NoConn, "bad_descriptor"))
    ELSE accepts' = accepts + 1 /\ ready' = r

\* start() joins the monitor of the last run, reopens the acceptor only when
\* it is closed, and accepts.
Startable == ~running /\ starts < MaxStarts /\ monitor = "off"

Start ==
    /\ Startable
    /\ running' = TRUE /\ launched' = TRUE /\ monitor' = "waiting"
    /\ acceptor' = IF acceptor = "closed" THEN "listening" ELSE acceptor
    /\ accepts' = accepts + 1
    /\ starts' = starts + 1
    /\ UNCHANGED <<retries, sessions, ready, perConn, stops, calls, errors>>

\* open() succeeds and bind() or listen() fails: start() throws.
StartFails ==
    /\ Startable /\ acceptor = "closed" /\ errors < MaxErrors
    /\ acceptor' = "bound"
    /\ starts' = starts + 1 /\ errors' = errors + 1
    /\ UNCHANGED <<running, monitor, launched, accepts, retries, sessions, ready, perConn,
                   stops, calls>>

\* closeAll(): the acceptor, every session, and the table with them.
Aborted(n) == [i \in 1..n |-> Handler("accept", NoConn, "operation_aborted")]
CloseAll(r) ==
    /\ acceptor' = "closed" /\ accepts' = 0
    /\ CloseSessions(sessions, r \o Aborted(accepts))
    /\ sessions' = {}

\* stop(): before the first start() there is nobody to post to.
Stop ==
    /\ stops < MaxStops
    /\ stops' = stops + 1
    /\ running' = FALSE
    /\ IF launched
       THEN /\ ready' = Append(ready, Handler("closeAll", NoConn, "ok"))
            /\ UNCHANGED <<acceptor, accepts, sessions, stop, waited>>
       ELSE CloseAll(ready)
    /\ UNCHANGED <<launched, monitor, retries, phase, owes, idle, starts, calls, errors>>

-----------------------------------------------------------------------------
(* The monitor thread, clearSession().  Its next round begins when the IO  *)
(* thread has run the last one.                                            *)

MonitorWakes ==
    /\ monitor = "waiting"
    /\ running => \A i \in DOMAIN ready : ready[i].kind # "sweep"
    /\ monitor' = IF running THEN "posting" ELSE "off"
    /\ UNCHANGED <<running, listener, sessions, ready, perConn, bounds>>

MonitorPosts ==
    /\ monitor = "posting"
    /\ monitor' = IF running THEN "waiting" ELSE "off"
    /\ ready' = Append(ready, Handler("sweep", NoConn, "ok"))
    /\ UNCHANGED <<running, listener, sessions, perConn, bounds>>

Monitor == MonitorWakes \/ MonitorPosts

-----------------------------------------------------------------------------
(* The IO thread: the acceptor's handlers.                                 *)

AcceptHandler(ec) == Posted("accept") /\ Head(ready).ec = ec

TooMany == maxConnections > 0 /\ Cardinality(sessions) >= maxConnections

\* A stopped server leaves whatever the accept brought.
AcceptStopped ==
    /\ Posted("accept") /\ ~running
    /\ phase' = [c \in Conns |-> IF c = Head(ready).conn THEN "closed" ELSE phase[c]]
    /\ ready' = Rest
    /\ UNCHANGED <<running, monitor, listener, sessions, owes, stop, idle, waited, bounds>>

AcceptRefused ==
    /\ AcceptHandler("ok") /\ running /\ TooMany
    /\ phase' = [phase EXCEPT ![Head(ready).conn] = "closed"]
    /\ StartAccept(Rest)
    /\ UNCHANGED <<running, monitor, launched, acceptor, retries, sessions, owes, stop,
                   idle, waited, bounds>>

Accept_Unchecked ==
    /\ Posted("accept") /\ running /\ ~TooMany
    /\ LET c == Head(ready).conn IN
       /\ phase' = [d \in Conns |-> IF d = c THEN "open" ELSE phase[d]]
       /\ idle' = [d \in Conns |-> IF d = c THEN 0 ELSE idle[d]]
       /\ sessions' = sessions \cup {c}
    /\ StartAccept(Rest)
    /\ UNCHANGED <<running, monitor, launched, acceptor, retries, owes, stop, waited, bounds>>
Accept ==
    /\ AcceptHandler("ok") /\ running /\ ~TooMany
    /\ LET c == Head(ready).conn IN
       /\ phase' = [phase EXCEPT ![c] = "open"]
       /\ idle' = [idle EXCEPT ![c] = 0]
       /\ sessions' = sessions \cup {c}
    /\ StartAccept(Rest)
    /\ UNCHANGED <<running, monitor, launched, acceptor, retries, owes, stop, waited, bounds>>

AcceptCancelled ==
    /\ AcceptHandler("operation_aborted") /\ running
    /\ ready' = Rest
    /\ UNCHANGED <<running, monitor, listener, sessions, perConn, bounds>>

\* The acceptor is gone: the server stops itself.
AcceptUseless ==
    /\ AcceptHandler("bad_descriptor") /\ running
    /\ running' = FALSE
    /\ ready' = Rest
    /\ UNCHANGED <<monitor, listener, sessions, perConn, bounds>>

AcceptFailed_GivesUp ==
    /\ AcceptHandler("error") /\ running
    /\ ready' = Rest
    /\ UNCHANGED <<running, monitor, listener, sessions, perConn, bounds>>
AcceptFailed ==
    /\ AcceptHandler("error") /\ running
    /\ retries' = retries + 1
    /\ ready' = Rest
    /\ UNCHANGED <<running, monitor, launched, acceptor, accepts, sessions, perConn, bounds>>

RunAccept == AcceptStopped \/ AcceptRefused \/ Accept \/ AcceptCancelled
             \/ AcceptUseless \/ AcceptFailed

\* The backoff is over.
Retry ==
    /\ retries > 0
    /\ retries' = retries - 1
    /\ IF running THEN StartAccept(ready) ELSE UNCHANGED <<accepts, ready>>
    /\ UNCHANGED <<running, monitor, launched, acceptor, sessions, perConn, bounds>>

-----------------------------------------------------------------------------
(* The IO thread: the sweep, closeAll() and the sessions' posts.           *)

\* The idle sessions are told and closed, those beyond the grace are cut, and
\* those whose socket is closed leave the table.  All of it in one handler.
Sweep ==
    /\ Posted("sweep")
    /\ LET late  == {c \in sessions : TimedOut(c) /\ ~IsClosed(c)}
           stuck == {c \in sessions \ late : NeedForceClose(c)}
       IN /\ CloseSessions(late, Rest \o SetToSeq({Handler("send", c, "ok") : c \in late}))
          /\ Dropped(stuck)
          /\ sessions' = {c \in sessions : c \notin stuck /\ ~NeedReclaim(c)}
    /\ UNCHANGED <<running, monitor, listener, idle, bounds>>

RunCloseAll ==
    /\ Posted("closeAll")
    /\ CloseAll(Rest)
    /\ UNCHANGED <<running, monitor, launched, retries, phase, owes, idle, bounds>>

\* The channel accepts a frame while it is open and its backlog allows; once
\* it is closing it asks for the close again.
RunSend ==
    /\ Posted("send")
    /\ LET c == Head(ready).conn IN
       \/ /\ phase[c] = "open"
          /\ owes' = [owes EXCEPT ![c] = TRUE]
          /\ idle' = [idle EXCEPT ![c] = 0]
          /\ ready' = Rest
       \/ /\ phase[c] = "open"
          /\ ready' = Rest /\ UNCHANGED <<owes, idle>>
       \/ /\ phase[c] # "open"
          /\ ready' = Append(Rest, Handler("close", c, "ok")) /\ UNCHANGED <<owes, idle>>
    /\ UNCHANGED <<running, monitor, listener, sessions, phase, stop, waited, bounds>>

RunClose ==
    /\ Posted("close")
    /\ ready' = Rest
    /\ LET c == Head(ready).conn IN
       phase' = [phase EXCEPT ![c] = IF @ # "open" THEN @
                                     ELSE IF owes[c] THEN "closing" ELSE "closed"]
    /\ UNCHANGED <<running, monitor, listener, sessions, owes, stop, idle, waited, bounds>>

RunPosted == RunAccept \/ Sweep \/ RunCloseAll \/ RunSend \/ RunClose

-----------------------------------------------------------------------------
(* The business, which holds its sessions from any thread and from the     *)
(* callback a message runs.                                                *)

Calls == calls < MaxCalls /\ calls' = calls + 1

Reply(c) ==
    /\ Calls /\ phase[c] \notin {"away", "arriving"}
    /\ ready' = Append(ready, Handler("send", c, "ok"))
    /\ UNCHANGED <<running, monitor, listener, sessions, perConn, starts, stops, errors>>

CloseSession(c) ==
    /\ Calls /\ phase[c] \notin {"away", "arriving"}
    /\ CloseSessions({c}, ready)
    /\ UNCHANGED <<running, monitor, listener, sessions, phase, owes, idle, starts, stops, errors>>

\* A message: the activity is noted, and "EXIT" or the want of a callback
\* closes the session.
Deliver(c) ==
    /\ Calls /\ Live(c)
    /\ idle' = [idle EXCEPT ![c] = 0]
    /\ \/ UNCHANGED <<ready, stop, waited>>
       \/ CloseSessions({c}, ready)
    /\ UNCHANGED <<running, monitor, listener, sessions, phase, owes, starts, stops, errors>>

-----------------------------------------------------------------------------
(* Peers, the network and the clock.                                       *)

Arrive(c) ==
    /\ accepts > 0 /\ acceptor = "listening" /\ phase[c] = "away"
    /\ accepts' = accepts - 1
    /\ phase' = [phase EXCEPT ![c] = "arriving"]
    /\ ready' = Append(ready, Handler("accept", c, "ok"))
    /\ UNCHANGED <<running, monitor, launched, acceptor, retries, sessions, owes, stop,
                   idle, waited, bounds>>

AcceptError ==
    /\ accepts > 0 /\ errors < MaxErrors
    /\ accepts' = accepts - 1 /\ errors' = errors + 1
    /\ ready' = Append(ready, Handler("accept", NoConn, "error"))
    /\ UNCHANGED <<running, monitor, launched, acceptor, retries, sessions, perConn,
                   starts, stops, calls>>

\* The peer has read everything owed: a graceful close finishes.
Drain(c) ==
    /\ owes[c]
    /\ owes' = [owes EXCEPT ![c] = FALSE]
    /\ phase' = [phase EXCEPT ![c] = IF @ = "closing" THEN "closed" ELSE @]
    /\ UNCHANGED <<running, monitor, listener, sessions, ready, stop, idle, waited, bounds>>

\* The peer leaves, the socket fails, or the callback of a message throws.
Leave(c) ==
    /\ Live(c)
    /\ Dropped({c})
    /\ UNCHANGED <<running, monitor, listener, sessions, ready, stop, idle, waited, bounds>>

\* The clock stops at the first value past the limit.
Older(age, limit) == [c \in Conns |-> IF Live(c) /\ age[c] <= limit THEN age[c] + 1 ELSE age[c]]
Tick ==
    /\ idle' = Older(idle, timeOut)
    /\ waited' = [c \in Conns |-> IF stop[c] THEN Older(waited, kCloseGraceSeconds)[c] ELSE 0]
    /\ <<idle, waited>>' # <<idle, waited>>
    /\ UNCHANGED <<running, monitor, listener, sessions, ready, phase, owes, stop, bounds>>

-----------------------------------------------------------------------------
OfConn(c) == Reply(c) \/ CloseSession(c) \/ Deliver(c) \/ Arrive(c) \/ Drain(c) \/ Leave(c)

Next == \/ Start
        \/ StartFails
        \/ Stop
        \/ Monitor
        \/ RunPosted
        \/ Retry
        \/ AcceptError
        \/ Tick
        \/ \E c \in Conns : OfConn(c)

\* The IO thread, the monitor thread and the clock go on; peers owe nothing.
Fairness == WF_vars(RunPosted) /\ WF_vars(Monitor) /\ WF_vars(Retry) /\ WF_vars(Tick)

Spec     == Init /\ [][Next]_vars
FairSpec == Spec /\ Fairness

-----------------------------------------------------------------------------
(* Properties.                                                             *)

Handlers == [kind : {"accept", "sweep", "closeAll", "send", "close"},
             conn : Conns \cup {NoConn},
             ec : {"ok", "error", "operation_aborted", "bad_descriptor"}]

SrvTypeOK ==
    /\ running \in BOOLEAN /\ launched \in BOOLEAN
    /\ monitor \in {"off", "waiting", "posting"}
    /\ acceptor \in {"closed", "bound", "listening"}
    /\ accepts \in Nat /\ retries \in Nat
    /\ sessions \subseteq Conns
    /\ ready \in Seq(Handlers)
    /\ phase \in [Conns -> {"away", "arriving", "open", "closing", "closed"}]
    /\ owes \in [Conns -> BOOLEAN] /\ stop \in [Conns -> BOOLEAN]
    /\ idle \in [Conns -> 0..timeOut + 1]
    /\ waited \in [Conns -> 0..kCloseGraceSeconds + 1]
    /\ starts \in 0..MaxStarts /\ stops \in 0..MaxStops
    /\ calls \in 0..MaxCalls /\ errors \in 0..MaxErrors

\* Until the server is stopped its open connections, those still closing
\* included, are never more than maxConnections: the limit is compared with the
\* table, which must not let go of a session before its socket is closed.
ConnectionLimit ==
    maxConnections > 0 /\ stops = 0 => Cardinality({c \in Conns : Live(c)}) <= maxConnections

\* A connection that is closing gracefully had its close time noted: only then
\* does the sweep's grace apply, and isClosed() hides it from the idle check.
ClosingIsTimed == \A c \in Conns : phase[c] = "closing" => stop[c]

\* Until it is stopped a server has every live session in its table: none leaves
\* it before its socket is closed (README.md:601), where no sweep would find it again.
NoEscape == stops = 0 => \A c \in Conns : Live(c) => c \in sessions

\* Until it is stopped a running server has one accept loop: each of its rounds
\* is an accept in flight, its handler or a backoff.  Afterwards there are never
\* more than start() made, whichever accept or backoff outlives a stop().
Loops == accepts + retries + HowMany(ready, {"accept"})
OneAcceptLoop == (running /\ stops = 0 => Loops = 1) /\ Loops <= starts

\* Every session ends, whatever its peer does: silent ones are timed out and
\* those that do not read are cut after the grace.
SessionsEnd == \A c \in Conns : phase[c] = "open" ~> phase[c] = "closed"

\* README.md:600: a session whose close was asked for is cut when the grace is
\* over, so that a peer that does not read never holds its connection.
AskedCloses == \A c \in Conns : stop[c] ~> ~Live(c)

\* README.md:28: start() opens the listener, and does so again after a stop().
RunningListens == running => acceptor = "listening"

=============================================================================
