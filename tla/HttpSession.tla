---------------------------- MODULE HttpSession ----------------------------
(***************************************************************************)
(* Net::Server::HttpServer::HttpSession (NetHttpServer.cpp): one HTTP      *)
(* connection from start() to the closed socket, with the sweep's part in  *)
(* it (clearHttpSession) and the closes anybody may ask for.               *)
(*                                                                         *)
(* As in Connection.tla `ready' is the io_context's queue and the other    *)
(* collections are the operations the reactor has in flight: reads, the    *)
(* 100-continues and the responses.  HTTP does not use the send queue of   *)
(* Connection, so that a graceful close finds nothing to wait for.  What a *)
(* request is (its body, Expect, keep-alive) is chosen when its header is  *)
(* handled.  Nothing orders a 100-continue and a response in flight.       *)
(***************************************************************************)
EXTENDS Naturals, Sequences, HandlerQueue

CONSTANTS
    HasHandler,           \* is HHF set?
    httpTimeOut,          \* idle limit, in seconds
    httpSessionTimeOut,   \* how long the business may keep a request
    MaxRequests,          \* bound: requests the peer sends
    MaxReplies,           \* bound: calls of httpAsyncReplay
    MaxCloses             \* bound: calls of closeSession

ASSUME HttpAssumption ==
    /\ HasHandler \in BOOLEAN
    /\ {httpTimeOut, httpSessionTimeOut} \subseteq Nat \ {0}
    /\ {MaxRequests, MaxReplies, MaxCloses} \subseteq Nat

VARIABLES
    ready,                \* handlers the io_context will run, in order
    reads,                \* reads in flight: "header" or "body"
    continues,            \* writes of a 100-continue in flight
    writes,               \* responses in flight: do they keep the connection?
    stop, closing, sockOpen,
    reqSeq,               \* number of the request at hand
    keepAlive, parsed,    \* url.keep_alive; what the parser has: "none", "head", "all"
    replied, closeAfterReply,
    busy, busyFor,        \* the business has the request, and for how many seconds
    idle,                 \* seconds since lastTime
    listed,               \* in the server's table
    asked,                \* history: the last request handed to the business
    answers, delivered,   \* history: the responses begun, and how many were sent
    replies, closes       \* how often each bounded call was made

flags    == <<stop, closing, sockOpen>>
request  == <<reqSeq, keepAlive, parsed, replied, closeAfterReply>>
ages     == <<busy, busyFor, idle>>
inFlight == <<reads, continues, writes>>
history  == <<asked, answers, delivered>>
bounds   == <<replies, closes>>
httpVars == <<ready, inFlight, flags, request, ages, listed, history, bounds>>

-----------------------------------------------------------------------------
Outcomes == {"ok", "error", "end_of_stream", "body_limit", "operation_aborted"}
Kinds    == {"header", "body", "continue", "answer", "replay", "close", "err", "sweep"}

\* Who answers: the server, or the business, with the request it means and
\* whether it names it.
Server     == [meant |-> 0, named |-> FALSE]
Named(n)   == [meant |-> n, named |-> TRUE]
Unnamed(n) == [meant |-> n, named |-> FALSE]

\* `seq' is the number an asynchronous answer carries and `by' whose it is;
\* `keep' belongs to the response that was written.
Handler(kind, ec) == [kind |-> kind, ec |-> ec, seq |-> 0, by |-> Server, keep |-> FALSE]
Answered(keep, ec) == [Handler("answer", ec) EXCEPT !.keep = keep]
Replay(seq, by)   == [Handler("replay", "ok") EXCEPT !.seq = seq, !.by = by]

Posted(kind) == ready # <<>> /\ Head(ready).kind = kind
Rest == Tail(ready)

Requests == [keep : BOOLEAN, body : {"none", "plain", "continue"}]

IsClosed == stop \/ closing \/ ~sockOpen

\* The session was just accepted and start() reads the first header.
Init ==
    /\ ready = <<>> /\ reads = <<"header">> /\ continues = 0 /\ writes = <<>>
    /\ stop = FALSE /\ closing = FALSE /\ sockOpen = TRUE
    /\ reqSeq = 1 /\ keepAlive = TRUE /\ parsed = "none"
    /\ replied = FALSE /\ closeAfterReply = FALSE
    /\ busy = FALSE /\ busyFor = 0 /\ idle = 0
    /\ listed = TRUE
    /\ asked = 0 /\ answers = <<>> /\ delivered = 0
    /\ replies = 0 /\ closes = 0

-----------------------------------------------------------------------------
(* The functions handlers call; `r' is the handler queue so far.           *)

CloseSession(r) ==
    /\ stop' = TRUE
    /\ ready' = Append(r, Handler("close", "ok"))

\* Closing the socket aborts everything in flight.
SocketClose(r) ==
    /\ sockOpen' = FALSE
    /\ reads' = <<>> /\ continues' = 0 /\ writes' = <<>>
    /\ ready' = r \o [i \in DOMAIN reads |-> Handler(reads[i], "operation_aborted")]
                  \o [i \in 1..continues |-> Handler("continue", "operation_aborted")]
                  \o [i \in DOMAIN writes |-> Answered(writes[i], "operation_aborted")]

\* start() of the next request.
Start ==
    /\ reqSeq' = reqSeq + 1
    /\ keepAlive' = TRUE /\ parsed' = "none"
    /\ replied' = FALSE /\ closeAfterReply' = FALSE
    /\ reads' = Append(reads, "header")

ReadBody == reads' = Append(reads, "body")

\* httpReplay(), once its guards are passed: the values it reads are those its
\* caller left.
Answerable_Again == ~IsClosed
Answerable_Closed == ~replied
Answerable == ~IsClosed /\ ~replied

HttpReplay(by) ==
    LET keep == keepAlive' /\ parsed' = "all" /\ ~closeAfterReply'
    IN /\ replied' = TRUE
       /\ writes' = Append(writes, keep)
       /\ answers' = Append(answers, [by |-> by, keep |-> keep])
NoReplay == UNCHANGED <<replied, writes, answers>>

\* The business answers in the callback, throws, or leaves the answer for
\* later; without a callback the answer is the server's.
HandleToWork ==
    /\ parsed' = "all"
    /\ busy' = TRUE /\ busyFor' = 0
    /\ asked' = IF HasHandler THEN reqSeq ELSE asked
    /\ \/ HasHandler /\ NoReplay
       \/ \E by \in IF HasHandler THEN {Server, Named(reqSeq)} ELSE {Server} :
            IF Answerable THEN HttpReplay(by) ELSE NoReplay

-----------------------------------------------------------------------------
(* The IO thread: completed reads.                                         *)

ReadHandler(ec) ==
    /\ ready # <<>> /\ Head(ready).kind \in {"header", "body"}
    /\ Head(ready).ec = ec
    /\ ~IsClosed

RunReadIgnored ==
    /\ ready # <<>> /\ Head(ready).kind \in {"header", "body"}
    /\ IsClosed \/ Head(ready).ec = "operation_aborted"
    /\ ready' = Rest
    /\ UNCHANGED <<inFlight, flags, request, ages, listed, history, bounds>>

\* The peer closed its side.
RunReadEnded ==
    /\ ReadHandler("end_of_stream")
    /\ CloseSession(Rest)
    /\ UNCHANGED <<inFlight, closing, sockOpen, request, ages, listed, history, bounds>>

RunReadFailed ==
    /\ ReadHandler("error")
    /\ ready' = Append(Rest, Handler("err", "ok"))
    /\ UNCHANGED <<inFlight, flags, request, ages, listed, history, bounds>>

WantsContinue_Impatient ==
    /\ parsed' = "head"
    /\ continues' = continues + 1
    /\ ReadBody
    /\ NoReplay
    /\ UNCHANGED <<busy, busyFor, asked>>

Whole ==
    /\ HandleToWork
    /\ UNCHANGED <<reads, continues>>
WantsContinue ==
    /\ parsed' = "head"
    /\ continues' = continues + 1
    /\ NoReplay
    /\ UNCHANGED <<reads, busy, busyFor, asked>>
HasBody ==
    /\ parsed' = "head"
    /\ ReadBody
    /\ NoReplay
    /\ UNCHANGED <<continues, busy, busyFor, asked>>

RunHeader ==
    /\ ReadHandler("ok") /\ Head(ready).kind = "header"
    /\ ready' = Rest
    /\ idle' = 0
    /\ UNCHANGED <<reqSeq, closeAfterReply>>
    /\ \E r \in Requests :
         /\ keepAlive' = r.keep
         /\ \/ r.body = "none" /\ Whole
            \/ r.body = "continue" /\ WantsContinue
            \/ r.body = "plain" /\ HasBody
    /\ UNCHANGED <<flags, listed, delivered, bounds>>

RunBody ==
    /\ ReadHandler("ok") /\ Head(ready).kind = "body"
    /\ ready' = Rest
    /\ idle' = 0
    /\ UNCHANGED <<reqSeq, keepAlive, closeAfterReply>>
    /\ HandleToWork
    /\ UNCHANGED <<reads, continues, flags, listed, delivered, bounds>>

\* 413: the rest of the body is still in the stream.
RunBodyTooLarge ==
    /\ ReadHandler("body_limit")
    /\ ready' = Rest
    /\ UNCHANGED <<reqSeq, keepAlive, parsed, closeAfterReply>>
    /\ IF Answerable THEN HttpReplay(Server) /\ idle' = 0 ELSE NoReplay /\ UNCHANGED idle
    /\ UNCHANGED <<reads, continues, flags, busy, busyFor, listed, asked, delivered, bounds>>

RunRead == RunReadIgnored \/ RunReadEnded \/ RunReadFailed \/ RunHeader \/ RunBody
           \/ RunBodyTooLarge

-----------------------------------------------------------------------------
(* The IO thread: completed writes.                                        *)

\* A 100-continue that failed leaves the session as it is.
GoesOn_Always == Head(ready).ec = "ok"
GoesOn == Head(ready).ec = "ok" /\ ~IsClosed

RunContinue ==
    /\ Posted("continue")
    /\ ready' = Rest
    /\ IF GoesOn THEN ReadBody /\ idle' = 0 ELSE UNCHANGED <<reads, idle>>
    /\ UNCHANGED <<continues, writes, flags, request, busy, busyFor, listed, history, bounds>>

\* The request is over, whatever became of its response.
RunAnswer ==
    /\ Posted("answer")
    /\ busy' = FALSE /\ busyFor' = 0 /\ idle' = 0
    /\ LET h == Head(ready) IN
       \/ /\ h.ec # "ok"
          /\ ready' = Append(Rest, Handler("err", "ok"))
          /\ UNCHANGED <<reads, stop, request>>
       \/ /\ h.ec = "ok" /\ ~h.keep
          /\ CloseSession(Rest)
          /\ UNCHANGED <<reads, request>>
       \/ /\ h.ec = "ok" /\ h.keep /\ IsClosed
          /\ ready' = Rest
          /\ UNCHANGED <<reads, stop, request>>
       \/ /\ h.ec = "ok" /\ h.keep /\ ~IsClosed
          /\ ready' = Rest
          /\ Start
          /\ UNCHANGED stop
    /\ UNCHANGED <<continues, writes, closing, sockOpen, listed, history, bounds>>

-----------------------------------------------------------------------------
(* The IO thread: what was posted.                                         *)

\* An asynchronous answer is dropped when it is late, when nobody waits for
\* it, or when the request was answered.
Wanted_Whoever(h) == Answerable /\ busy
Wanted(h) == Answerable /\ busy /\ h.seq = reqSeq

RunReplay ==
    /\ Posted("replay")
    /\ ready' = Rest
    /\ UNCHANGED <<reqSeq, keepAlive, parsed, closeAfterReply>>
    /\ IF Wanted(Head(ready)) THEN HttpReplay(Head(ready).by) /\ idle' = 0
                              ELSE NoReplay /\ UNCHANGED idle
    /\ UNCHANGED <<reads, continues, flags, busy, busyFor, listed, asked, delivered, bounds>>

BusyTimedOut_Never == FALSE
BusyTimedOut == busy /\ busyFor > httpSessionTimeOut

\* The sweep's two refusals: 503 for a business that takes too long, 408 for a
\* peer that is silent; closed at once when no answer can go out.
Refused == IF busy THEN BusyTimedOut ELSE idle > httpTimeOut

Marked_Not == UNCHANGED closeAfterReply
Marked == closeAfterReply' = TRUE

Refuse ==
    /\ Marked
    /\ IF Answerable
       THEN HttpReplay(Server) /\ idle' = 0 /\ ready' = Rest /\ UNCHANGED stop
       ELSE NoReplay /\ UNCHANGED idle /\ CloseSession(Rest)

RunSweep ==
    /\ Posted("sweep")
    /\ UNCHANGED <<reqSeq, keepAlive, parsed>>
    /\ IF listed /\ Refused
       THEN Refuse
       ELSE ready' = Rest /\ NoReplay /\ UNCHANGED <<closeAfterReply, idle, stop>>
    /\ listed' = (listed /\ ~(stop' \/ closing \/ ~sockOpen))
    /\ UNCHANGED <<reads, continues, closing, sockOpen, busy, busyFor, asked, delivered, bounds>>

\* connectionClose(): nothing is queued, so the socket is closed at once.
RunClose ==
    /\ Posted("close")
    /\ closing' = TRUE
    /\ IF closing THEN ready' = Rest /\ UNCHANGED <<inFlight, sockOpen>>
                  ELSE SocketClose(Rest)
    /\ UNCHANGED <<stop, request, ages, listed, history, bounds>>

\* closeWithError()
RunErr ==
    /\ Posted("err")
    /\ closing' = (closing \/ sockOpen)
    /\ IF sockOpen THEN SocketClose(Rest) ELSE ready' = Rest /\ UNCHANGED <<inFlight, sockOpen>>
    /\ UNCHANGED <<stop, request, ages, listed, history, bounds>>

RunHandler == RunRead \/ RunContinue \/ RunAnswer \/ RunReplay \/ RunSweep \/ RunClose \/ RunErr

-----------------------------------------------------------------------------
(* The business, the server and its monitor.                               *)

\* httpAsyncReplay from any thread, for a request of which the callback was
\* told, as late and as often as the business likes.  Called without a number it
\* takes that of the request now at hand, whichever is meant.
AsyncReplay ==
    /\ replies < MaxReplies
    /\ \E s \in 1..asked :
         \/ ready' = Append(ready, Replay(s, Named(s)))
         \/ ready' = Append(ready, Replay(reqSeq, Unnamed(s)))
    /\ replies' = replies + 1
    /\ UNCHANGED <<inFlight, flags, request, ages, listed, history, closes>>

\* closeSession() of the business, or of the server's closeHttpAll(), which
\* empties the table too.
AskClose ==
    /\ closes < MaxCloses
    /\ CloseSession(ready)
    /\ listed' \in {listed, FALSE}
    /\ closes' = closes + 1
    /\ UNCHANGED <<inFlight, closing, sockOpen, request, ages, history, replies>>

MonitorPosts ==
    /\ listed
    /\ \A i \in DOMAIN ready : ready[i].kind # "sweep"
    /\ ready' = Append(ready, Handler("sweep", "ok"))
    /\ UNCHANGED <<inFlight, flags, request, ages, listed, history, bounds>>

-----------------------------------------------------------------------------
(* The peer, the network and the clock.                                    *)

ReadOutcomes ==
    {"error", "end_of_stream"}
    \cup (IF Head(reads) = "body" THEN {"body_limit"} ELSE {})
    \cup (IF Head(reads) = "body" \/ reqSeq <= MaxRequests THEN {"ok"} ELSE {})

ReadCompletes ==
    /\ reads # <<>>
    /\ \E ec \in ReadOutcomes : ready' = Append(ready, Handler(Head(reads), ec))
    /\ reads' = Tail(reads)
    /\ UNCHANGED <<continues, writes, flags, request, ages, listed, history, bounds>>

ContinueCompletes ==
    /\ continues > 0
    /\ continues' = continues - 1
    /\ \E ec \in {"ok", "error"} : ready' = Append(ready, Handler("continue", ec))
    /\ UNCHANGED <<reads, writes, flags, request, ages, listed, history, bounds>>

AnswerCompletes ==
    /\ writes # <<>>
    /\ writes' = Tail(writes)
    /\ \E ec \in {"ok", "error"} :
         /\ ready' = Append(ready, Answered(Head(writes), ec))
         /\ delivered' = IF ec = "ok" THEN delivered + 1 ELSE delivered
    /\ UNCHANGED <<reads, continues, flags, request, ages, listed, asked, answers, bounds>>

\* The clock stops at the first value past the limit.
Older(age, limit) == IF age <= limit THEN age + 1 ELSE age

Tick ==
    /\ sockOpen
    /\ idle' = Older(idle, httpTimeOut)
    /\ busyFor' = IF busy THEN Older(busyFor, httpSessionTimeOut) ELSE 0
    /\ <<idle, busyFor>>' # <<idle, busyFor>>
    /\ UNCHANGED <<ready, inFlight, flags, request, busy, listed, history, bounds>>

-----------------------------------------------------------------------------
Next == \/ RunHandler
        \/ AsyncReplay
        \/ AskClose
        \/ MonitorPosts
        \/ ReadCompletes
        \/ ContinueCompletes
        \/ AnswerCompletes
        \/ Tick

\* The IO thread, the monitor and the clock go on; the peer owes nothing, not
\* even to read what it is sent.
Fairness == WF_httpVars(RunHandler) /\ WF_httpVars(MonitorPosts) /\ WF_httpVars(Tick)

HttpSpec     == Init /\ [][Next]_httpVars
HttpFairSpec == HttpSpec /\ Fairness

-----------------------------------------------------------------------------
(* Properties.                                                             *)

Authors  == [meant : Nat, named : BOOLEAN]
Handlers == [kind : Kinds, ec : Outcomes, seq : Nat, by : Authors, keep : BOOLEAN]

\* The types, and nothing is in flight on a closed socket.
HttpTypeOK ==
    /\ ~sockOpen => reads = <<>> /\ continues = 0 /\ writes = <<>>
    /\ ready \in Seq(Handlers)
    /\ reads \in Seq({"header", "body"}) /\ continues \in Nat /\ writes \in Seq(BOOLEAN)
    /\ stop \in BOOLEAN /\ closing \in BOOLEAN /\ sockOpen \in BOOLEAN
    /\ reqSeq \in Nat \ {0} /\ keepAlive \in BOOLEAN /\ parsed \in {"none", "head", "all"}
    /\ replied \in BOOLEAN /\ closeAfterReply \in BOOLEAN
    /\ busy \in BOOLEAN /\ busyFor \in 0..httpSessionTimeOut + 1
    /\ idle \in 0..httpTimeOut + 1
    /\ listed \in BOOLEAN
    /\ asked \in 0..reqSeq
    /\ answers \in Seq([by : Authors, keep : BOOLEAN]) /\ delivered \in Nat
    /\ replies \in 0..MaxReplies /\ closes \in 0..MaxCloses

\* At most one operation is outstanding: n are in flight, and the handlers of
\* kinds K tell of those that completed.
Exclusive(n, K)   == n <= 1 /\ AtMostOne(ready, K) /\ (n > 0 => ~Waiting(ready, K))
Outstanding(n, K) == n > 0 \/ Waiting(ready, K)

\* One response at most is being written or waits for its completion to be
\* handled, and then the request counts as answered: two would be run together
\* in the stream (NetHttpServer.cpp:334).
OneResponse ==
    /\ Exclusive(Len(writes), {"answer"})
    /\ Outstanding(Len(writes), {"answer"}) => replied

\* Header, 100-continue and body follow one another, and nothing is read while
\* the business has the request: parser and buffer are used by one of them.
InputKinds == {"header", "body", "continue"}
OneInput ==
    /\ Exclusive(Len(reads) + continues, InputKinds)
    /\ busy \/ parsed = "all" => ~Outstanding(Len(reads) + continues, InputKinds)

\* A response begins beside a 100-continue only when it is the sweep's 408, after
\* which the connection is closed.
WritesApart == continues > 0 /\ writes # <<>> => closeAfterReply /\ ~Head(writes)

\* A session whose close began starts no read and no write, whichever handler
\* runs: the handlers in the queue were posted before.
Grows(s) == Len(s') > Len(s)
NothingAfterClose ==
    [][IsClosed => ~Grows(reads) /\ ~Grows(writes) /\ continues' <= continues]_httpVars

\* A session is an exchange of requests and answers (Exchange.tla): one answer
\* per request and the next request only after all of it was sent.  An answer
\* that names its request reaches no other (NetHttpServer.cpp:442); one that names
\* none may reach a later one, as NetHttpServer.cpp:462 warns.
ToExchange == INSTANCE Exchange WITH round <- reqSeq, open <- ~IsClosed
ExchangeSafe == ToExchange!SafeSpec

\* Every session ends, though its peer be silent, never read, or the business
\* never answer (README.md:34): the sweep's refusals see to it.
HttpEnds == <>~sockOpen

=============================================================================
