---------------------------- MODULE HttpServer -----------------------------
(***************************************************************************)
(* Net::Server::HttpServer::HttpServer (NetHttpServer.cpp).  It inherits   *)
(* the interface of Server and repeats its machinery for an acceptor, a    *)
(* monitor and a table of its own; the definitions of TcpServer.tla are    *)
(* taken over where the two sources agree.  What differs:                  *)
(*   - the constructor opens the listener;                                 *)
(*   - an accept that was cancelled is tried again, as after an error;     *)
(*   - the sweep answers 408 or 503 before it closes, knows no grace, and  *)
(*     forgets a session as soon as its close was asked for;               *)
(*   - a close cuts the response being written (HttpSession.tla), so that  *)
(*     no connection is ever "closing".                                    *)
(* `owes' says that a response is being written, `idle' is the age the     *)
(* sweep looks at: since lastTime, or since busySince while a request is   *)
(* with the business.                                                      *)
(***************************************************************************)
EXTENDS TcpServer

VARIABLE final        \* the connections whose response in flight is the last

httpServerVars == <<vars, final>>

Shared(A) == A /\ UNCHANGED final

HttpInit ==
    /\ running = FALSE /\ launched = FALSE /\ monitor = "off"
    /\ acceptor = "listening" /\ accepts = 0 /\ retries = 0
    /\ sessions = {} /\ ready = <<>>
    /\ phase = [c \in Conns |-> "away"]
    /\ owes = [c \in Conns |-> FALSE] /\ stop = [c \in Conns |-> FALSE]
    /\ idle = [c \in Conns |-> 0] /\ waited = [c \in Conns |-> 0]
    /\ starts = 0 /\ stops = 0 /\ calls = 0 /\ errors = 0
    /\ final = {}

-----------------------------------------------------------------------------
(* The owner's thread and the monitor's: as in Server.                     *)

HttpStart == Shared(Start)
HttpStartFails == Shared(StartFails)
HttpStop == Shared(Stop)
ClearHttpSession == Shared(Monitor)

-----------------------------------------------------------------------------
(* The IO thread: the acceptor's handlers.                                 *)

HttpTooMany_OffByOne == maxConnections > 0 /\ Cardinality(sessions) > maxConnections
HttpTooMany == maxConnections > 0 /\ Cardinality(sessions) >= maxConnections

HttpAcceptRefused ==
    /\ AcceptHandler("ok") /\ running /\ HttpTooMany
    /\ phase' = [phase EXCEPT ![Head(ready).conn] = "closed"]
    /\ StartAccept(Rest)
    /\ UNCHANGED <<running, monitor, launched, acceptor, retries, sessions, owes, stop,
                   idle, waited, bounds>>

HttpAccept ==
    /\ AcceptHandler("ok") /\ running /\ ~HttpTooMany
    /\ LET c == Head(ready).conn IN
       /\ phase' = [phase EXCEPT ![c] = "open"]
       /\ idle' = [idle EXCEPT ![c] = 0]
       /\ sessions' = sessions \cup {c}
    /\ StartAccept(Rest)
    /\ UNCHANGED <<running, monitor, launched, acceptor, retries, owes, stop, waited, bounds>>

HttpRetried_NotAborted(ec) == ec = "error"
HttpRetried(ec) == ec \in {"error", "operation_aborted"}

HttpAcceptFailed ==
    /\ Posted("accept") /\ Head(ready).ec \notin {"ok", "bad_descriptor"} /\ running
    /\ retries' = IF HttpRetried(Head(ready).ec) THEN retries + 1 ELSE retries
    /\ ready' = Rest
    /\ UNCHANGED <<running, monitor, launched, acceptor, accepts, sessions, perConn, bounds>>

HttpRunAccept ==
    Shared(AcceptStopped \/ HttpAcceptRefused \/ HttpAccept \/ AcceptUseless \/ HttpAcceptFailed)

HttpRetry == Shared(Retry)

-----------------------------------------------------------------------------
(* The IO thread: the sweep, closeHttpAll() and the sessions' posts.       *)

Answerable_Closed(c) == ~owes[c]
Answerable(c) == ~IsClosed(c) /\ ~owes[c]

\* A response that will be the last one, or not, is begun on each of C.
Answers(C, last) ==
    /\ owes' = [c \in Conns |-> owes[c] \/ c \in C]
    /\ final' = (final \ C) \cup last

Remembered(c) == ~stop'[c] /\ phase[c] = "open"

\* A refusal counts as activity, except to a session the business has.
HttpSweep ==
    /\ Posted("sweep")
    /\ LET late == {c \in sessions : TimedOut(c)}
           told == {c \in late : Answerable(c)}
       IN /\ CloseSessions(late \ told, Rest)
          /\ Answers(told, told)
          /\ \E quiet \in SUBSET told :
               idle' = [c \in Conns |-> IF c \in quiet THEN 0 ELSE idle[c]]
          /\ sessions' = {c \in sessions : Remembered(c)}
    /\ UNCHANGED <<running, monitor, listener, phase, bounds>>

CloseHttpAll_Forgets ==
    /\ acceptor' = "closed" /\ accepts' = 0
    /\ ready' = Rest \o Aborted(accepts)
    /\ sessions' = {}
    /\ UNCHANGED <<stop, waited>>
CloseHttpAll == CloseAll(Rest)

HttpRunCloseAll ==
    /\ Posted("closeAll")
    /\ CloseHttpAll
    /\ UNCHANGED <<running, monitor, launched, retries, phase, owes, idle, bounds, final>>

\* Nothing is in the send queue, whatever is being written.
HttpRunClose_Drains ==
    /\ Posted("close")
    /\ ready' = Rest
    /\ LET c == Head(ready).conn IN
       phase' = [phase EXCEPT ![c] = IF owes[c] THEN @ ELSE "closed"]
    /\ UNCHANGED <<running, monitor, listener, sessions, owes, stop, idle, waited, bounds, final>>
HttpRunClose ==
    /\ Posted("close")
    /\ ready' = Rest
    /\ Dropped({Head(ready).conn})
    /\ final' = final \ {Head(ready).conn}
    /\ UNCHANGED <<running, monitor, listener, sessions, stop, idle, waited, bounds>>

HttpRunPosted == HttpRunAccept \/ HttpSweep \/ HttpRunCloseAll \/ HttpRunClose

-----------------------------------------------------------------------------
(* The business, the peers and the clock.                                  *)

\* A request that is read, an answer of the business that begins, or both: an
\* error page or "Connection: close" makes the answer the last.
Request(c) ==
    /\ Calls /\ Answerable(c) /\ Live(c)
    /\ \/ idle' = [idle EXCEPT ![c] = 0] /\ UNCHANGED <<owes, final>>
       \/ /\ idle' \in {idle, [idle EXCEPT ![c] = 0]}
          /\ \E last \in SUBSET {c} : Answers({c}, last)
    /\ UNCHANGED <<running, monitor, listener, sessions, ready, phase, stop, waited,
                   starts, stops, errors>>

\* The response is written.
Written(c) ==
    /\ owes[c]
    /\ owes' = [owes EXCEPT ![c] = FALSE]
    /\ final' = final \ {c}
    /\ idle' = [idle EXCEPT ![c] = 0]
    /\ IF c \in final THEN CloseSessions({c}, ready) ELSE UNCHANGED <<stop, waited, ready>>
    /\ UNCHANGED <<running, monitor, listener, sessions, phase, bounds>>

\* The peer's FIN or the business asks for the close; to ask again posts nothing
\* that does anything.
HttpCloseSession(c) ==
    /\ Live(c) /\ ~IsClosed(c)
    /\ CloseSessions({c}, ready)
    /\ UNCHANGED <<running, monitor, listener, sessions, phase, owes, idle, bounds, final>>

\* A reset or a failed write is the end.
HttpLeave(c) == Leave(c) /\ final' = final \ {c}

HttpTick ==
    /\ idle' = Older(idle, timeOut)
    /\ idle' # idle
    /\ UNCHANGED <<running, monitor, listener, sessions, ready, phase, owes, stop, waited,
                   bounds, final>>

-----------------------------------------------------------------------------
HttpOfConn(c) == \/ Request(c) \/ Written(c) \/ HttpCloseSession(c)
                 \/ Shared(Arrive(c)) \/ HttpLeave(c)

HttpNext == \/ HttpStart
            \/ HttpStartFails
            \/ HttpStop
            \/ ClearHttpSession
            \/ HttpRunPosted
            \/ HttpRetry
            \/ Shared(AcceptError)
            \/ HttpTick
            \/ \E c \in Conns : HttpOfConn(c)

HttpServerSpec == HttpInit /\ [][HttpNext]_httpServerVars

-----------------------------------------------------------------------------
(* Properties.                                                             *)

\* The types; a connection whose answer in flight is the last has one in flight.
HttpSrvTypeOK == SrvTypeOK /\ final \subseteq {c \in Conns : owes[c] /\ Live(c)}

\* The table forgets a session before its socket is closed, and the limit counts
\* the table.  That is sound because such a session's close is on its way: it
\* waits for the IO thread and for no peer.
CloseIsPosted ==
    \A c \in Conns : Live(c) /\ stop[c] =>
        \E i \in DOMAIN ready : ready[i] = Handler("close", c, "ok")

\* The connections that are not about to be closed are never more than the limit,
\* through errors, stops and restarts.
HttpLimit ==
    maxConnections > 0 =>
        Cardinality({c \in Conns : Live(c) /\ ~stop[c]}) <= maxConnections

\* Every other live connection is in the table of the server, running or not.
HttpNoEscape == \A c \in Conns : Live(c) /\ ~stop[c] => c \in sessions

\* A running server has an accept loop, and the loops are never more than the
\* calls of start().  That the first holds is due to the second try of a cancelled
\* accept (NetHttpServer.cpp:739): a server whose listener was closed by the
\* closeHttpAll() of an earlier stop() finds out and stops itself.
HttpLoops == (running => Loops >= 1) /\ Loops <= starts

=============================================================================
