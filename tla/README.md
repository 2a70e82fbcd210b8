# TLA+ verification of CommonNet

CommonNet is a small C++17 network library over Boost.Asio: a framed TCP connection, a client, a
server with sessions, and an HTTP server (Boost.Beast). This directory holds TLA+ models of it, the
TLC configurations that check them and TLAPS proofs about them. Paths below are relative to the
repository; `NetConnection.cpp` is `src/connon/source/NetConnection.cpp`, and so on.

## 1. The system

Every object lives on one `io_context`, which exactly one thread runs (`NetConnection.h:195`). User
threads never touch a socket: they post handlers. The reactor completes asynchronous operations and
puts their handlers behind those already waiting. A handler runs to its end before the next one.
What can go wrong is therefore not a torn variable but an **order**: which handler finds which flags.

| component | state | operations | interacts by |
|---|---|---|---|
| `Connection` | `sending`, `closing`, `closeSocket`, `started`, `sendQueue`, `queueBufLen`, the socket | `toSend`/`send`, `doSend`, `stopToClose`/`connectionClose`/`continueClose`, `errToClose`, `socketClose`, `start`, `readHead`, `readBody` | posts to its executor; hooks `recvToWork`, `updateTime`, `derivedToClose` |
| codec, `MsgNode` | a buffer and its lengths | header encode/decode, `htonll`, `clear` | called by `Connection` |
| `Client` | resolver, `startMsg`, `closeNotifiedByUser` | `Connect`, `start`, `stop`, `toSend` | is a `Connection`; `CloseFunction`, `HandleFunction` |
| `Session` | `stop`, `lastTime`, `closeReqTime`, `busy` | `reply`, `closeSession`, `timeOut`, `needForceClose`, `needReclaim` | is a `Connection`; held by the server's table and by the business |
| `Server` | `running`, acceptor, `sessions`, backoff count, monitor thread | `start`, `stop`, `startAccept`, `closeAll`, `clearSession` | posts sweeps and closes; owns the sessions |
| `HttpSession` | parser, `url`, `reqSeq`, `replied`, `busy`, `closeAfterReply` | `start`, `readBody`, `handleToWork`, `httpReplay`, `httpAsyncReplay` | is a `Session` that bypasses the send queue |
| `HttpServer` | as `Server`, for HTTP | as `Server`, with 408/503 | is a `Server` |
| examples | the main, exit-callback and IO threads, the owners of the server | start, signal, stop, join, reset | call the library |
| `net_client.py`, CMake | - | console, packaging | - |

What makes each correct:

* **Connection**: one write at a time and no lost wakeup; frames go out in order, each at most once;
  a graceful close sends everything it accepted, an error may drop it; the backlog count is exact and
  bounded; a live connection always reads, a closing one starts no read; a close always finishes.
* **Client**: the dial ends, in a reading connection or in a closed one; a failed dial
  is told to the business; `stop()` disconnects.
* **Session and Server**: the table never passes its limit and never loses a live session; silent
  sessions and those whose peer does not read are ended; exactly one accept loop; `stop()` closes
  everything and `start()` listens again.
* **HttpSession and HttpServer**: one answer per request, and an answer that names its request never
  goes to another; no two responses at once; one input at a time; a closed session starts nothing; the sweep ends every
  session; the limit counts every connection that is not about to be closed.
* **Codec**: what arrives is what was sent, whatever the byte orders and the pieces of the stream.
* **Life of the server**: `stop()` is prompt, the object is destroyed once, with nobody using it, and
  the program ends, which needs that `io.run()` runs out of work.

The behaviours that are hard here: handlers that run after a close, cancellations that race
completions, several closers at once, calls before the connection exists, the monitor's round against
`stop()` and `start()`, and peers that do not read. Each is listed with its line under `hazards` in
`PROJECT.json`, with the properties that watch it.

## 2. Modules

    GracefulChannel   what a connection promises (abstract)      Exchange   what an HTTP connection promises
          ^ implemented by                                           ^ implemented by
    Connection        one connection, handler by handler         HttpSession   one HTTP connection
          ^                                                          (phases and responses of it in)
    Client            a connection that dials                    HttpServer -> extends TcpServer
    TcpServer         server and sessions; each connection is in the channel's phases
    Lifecycle         threads, locks and owners of a server      Frames   the wire format
    HandlerQueue      the handler queue, for all that have one

**`Connection.tla`.** `ready` is the io_context's queue, `reads` and `writes` are the reactor's
operations in flight. `ToSend`, `StopToClose` and `Start` are the calls; `RunSend`, `RunClose`,
`RunWrite`, `RunHead` and `RunBody` run the handler at the queue's head with all it calls (`DoSend`,
`SocketClose`, `ErrToClose`, `ContinueClose` are operators with the names of the functions, given the
handler queue as it stands when they are called, so posts keep their order). `Network` completes
operations. Closing a socket moves every operation in flight to `ready` with `operation_aborted`; an
operation that already completed keeps its result, which is why a handler may find `ok` on a closed
socket. An operation started on a closed socket fails with another error. A `SendNode` is a record
with its own `seq`, because `doSend` compares pointers (`NetConnection.cpp:754`).
`accepted`, `wire` and `aborted` are history variables: what the queue took, what the peer got,
whether `errToClose` closed.

**`GracefulChannel.tla`.** A channel that is open, closing or closed; accepted frames are transmitted
in order; `Close` and `Finish` need everything transmitted; `Abort` is the only way to lose a frame.
`Connection` maps `closeSocket`/`closing` to its phase.

**`Client.tla`** extends `Connection`: `Connect` starts the resolver, `RunDial` runs the two handlers
of `Connect()`. The resolver is not touched by closing the socket; the connect is an operation of the
socket, kept with `reads`. `async_connect` opens the socket whatever happened to it, and reports a
connect that succeeded before the socket was closed as aborted.

**`TcpServer.tla`** models `Server` and `Session` with each connection reduced to the phases of the
channel (`phase`, and `owes`: is a frame queued or in flight). `Sweep` is the whole handler the
monitor posts: notices and closes for the idle, `errToClose` for those beyond the grace, and the
erasing of closed sockets, in one step as in the code. Posted notices of all idle sessions come
before their closes; of one session the order is the code's. Time is what a session can measure:
`idle` and `waited` count up to the first value beyond the limit.

**`HttpSession.tla`** is one HTTP connection from `start()` to the closed socket. A request is what
the code tells apart of it: has it a body, does it expect a 100-continue, does it keep the connection.
`RunHeader`, `RunBody`, `RunContinue` and `RunAnswer` are the completions, `RunReplay` is what
`httpAsyncReplay` posts, `RunSweep` what `clearHttpSession` does to this session. The
i-th element of `answers` answers request i, and its `by` says whose it is: the server's, or the
business's with the request it `meant` and whether it `named` it, so that "the answer of another
request" is a value and not a feeling. `AsyncReplay` is both overloads of `httpAsyncReplay`: with a
number it posts that; without one it posts the number of the request at hand when it is called
(`NetHttpServer.cpp:466`), whichever request the business means. 100-continues and responses are separate writes: nothing in the
code orders them.

**`Exchange.tla`.** Requests are taken up one by one, each has at most one answer (`MayAnswer`): the
server's, the business's that names it, or one that names none and means it or an earlier one; the next is taken up when the answer was sent whole and keeps the connection.

**`HttpServer.tla`** extends `TcpServer` and takes over the definitions of the lines the two sources
share; its own are the constructor's open listener, an accept handler that tries again after
`operation_aborted`, the sweep that answers 408 or 503 before it closes, and the close that cuts a
response. Each session is reduced to: a response is in flight (`owes`), and it is the last (`final`).

**`Lifecycle.tla`** is `examples/Server/main.cpp` with its threads, and of the server what they share:
the flag, `queueMutex` and the condition variable, the references that own the object, `closeAll()`
posted, in place or never run, and `~Server()` on whichever thread dropped the last reference. A step
is what happens between two points where another thread could look: `stop()` takes the lock, notifies,
looks at the io_context, and posts. `session` stands for the work that sessions leave in the
`io_context`: none, a read, a write to a peer that may not read, the same with a close asked for, and
the same when the table has forgotten it. One session at a time stands for all. `RunReturns`, the end
of `io.run()`, needs that no handler, no accept and no session's read or write is left.

**`Frames.tla`** is the wire format byte by byte: a `uint32_t` has `WordBytes` bytes of `Base` values
(`Power[n]` is the number of values of `n` bytes, a function so that proofs can unfold it).
`Arrives` takes any number of the bytes on the wire that the buffer has room for.

`MC*.tla` give the constants their values for TLC. `*Proofs.tla` hold the theorems: `DataProofs` the
lemmas about handler queues, induction and folds that the others share; `ClientProofs` builds on
`ConnectionProofs` and `HttpServerProofs` on `TcpServerProofs` as the code does. Operators named
`Xxx_Yyy` beside an operator `Xxx` are faulty variants of it: with one in the place of the other the
property it belongs to (`mutants` in `PROJECT.json`) must fail.

## 3. Runs

| run | question | states |
|---|---|---|
| `connection` | do queue, flags and operations agree in every order, is the connection a graceful channel, are frames transmitted and closes finished? | 448 k |
| `client_dial` | does every dial end, with sends and a stop at any moment? | 9 k |
| `server_safety` | limit, close times and accept loop, through errors, stop and restart | 504 k |
| `server_sessions` | does no session escape the table, and does each one end? | 107 k |
| `http_session` | is every request answered once, and by no other request's named answer, do writes and reads stay apart, does every session end? | 982 k |
| `http_server` | do table, sockets, posted closes and accept loops agree, through errors, stop and restart? | 1.7 M |
| `frames` | does what arrives equal what was sent? | 160 k |
| `lifecycle` | does the server stop promptly, die clean, and does the program end? | 28 k |
| `client_stop`, `server_restart`, `server_stalled`, `lifecycle_exit` | the four disagreements of section 6 | small |

**Bounds.** *Connection*: three sends of two sizes with room for two short frames or a short and a
long one: the third is sent into an empty, a partly filled or a full queue, so the limit is hit and
left again, and a frame is queued behind one in flight while a third is refused or dropped. Two stops,
because the second finds `closing` set. Two starts for the flag. Three answered reads are a header, a
body and the next header. *Client*: one size is enough since the client adds nothing about sizes; room
for two frames; one stop, `toSend` before the connection included. *Servers*: two peers, so that one
is refused at a limit of one, takes the place the other left, and is swept in another state than the
other; limits of one second, so that an age is below, at or beyond its limit; two starts around one
stop; one accept or bind error. In `server_sessions` one call of the business (a message, a reply or a
close) and no stop. `http_server` is symmetric in its peers: at a limit of one the sweep and
`closeHttpAll()` never put two sessions in an order. *HTTP session*: two requests, so that an answer to
the first can come late to the second; one asynchronous answer and one close beside the sweep's and
the peer's. *Frames*: one-bit bytes and two-byte words; the ids 1 and 11 differ in every half and in
every byte order; bodies from empty to one byte too long; three messages. *Lifecycle* is finite by
itself: one start, one exit callback, one session at a time, one sweep in the queue for all. Deadlock is not checked: an idle system waits for its peers.

**Fairness.** The IO thread runs handlers (`RunHandler`, `RunPosted`): `io_context::run` is FIFO. A
write in flight completes (`WriteCompletes`): the peer reads and the network works; it is assumed for
`Connection` and `Client` only, and `StopCloses` does not hold without it. Resolver and connect answer,
by their own timeouts at the latest. In `TcpServer` and `HttpSession` the monitor thread, the backoff
timer and the clock go on; nothing is assumed of peers, which may stay silent and read nothing:
`SessionsEnd` and `HttpEnds` rest on the sweep alone. The monitor's next sweep is posted only after the
last one ran: `checkTime` is seconds (60 by default), a handler is not. In `Lifecycle` every thread goes
on, and who waits for `queueMutex` gets it in the end (strong fairness: the monitor gives it up to sleep
for a second at least); nothing forces the exit signal, no peer has to read, leave or connect, and an
exception is never forced. What `ExitEnds` needs beyond this is in its premises.

## 4. Properties

* `SingleWriter`: one `async_write` at most, counting a completion that waits; it is the queue's
  front; `sending` is set exactly when one is outstanding, exactly when the queue has a frame. The
  last part is what rules out a lost wakeup.
* `ClosedIsClean`: nothing queued or in flight behind a closed socket, and `operation_aborted` is only
  seen by a closed connection. `readHead` ignores that code without closing; this is why it may.
* `QueueAccounting`: `queueBufLen` is the bytes of the queue, at every moment.
* `CloseHasDriver`, `StopCloses`: whoever sets `closing` leaves somebody to finish.
* `ReaderAlive`, `NoReadWhileClosing`: the read loop never stops on a live connection, never doubles,
  and is not re-armed once `closing` is set.
* `ChannelSafe`, `ChannelLive`: the refinement of `GracefulChannel`.
* `OneStage`, `DialEnds`, `NothingOwed`: the client waits for exactly one of resolver, connect and
  read; its dial ends; a close before the socket was open leaves nothing.
* The type invariants say more than types where a slip would show: the backlog is within its limit
  (`ConnTypeOK`), nothing is in flight on a closed socket (`HttpTypeOK`), the table holds
  accepted connections only (`SrvTypeOK`), a last response is one in flight on a live session
  (`HttpSrvTypeOK`), an accept in flight and a running server have an open acceptor
  (`LifeTypeOK`).
* `ConnectionLimit` counts open connections, not the table's entries, which is what the limit is for
  (handles and memory); it is stated until the first stop, because `closeAll()` empties the table while
  sessions still drain and a restarted server does not count them. The same holds for `NoEscape`.
* `ClosingIsTimed`, `OneAcceptLoop`, `SessionsEnd`: `ClosingIsTimed` ties the sweep's two rules
  together: a closing session is hidden from the idle rule, so it must be in the reach of the grace rule.
* `OneResponse`, `OneInput`, `WritesApart`: the responses of an HTTP connection never overlap, its
  header, continue and body follow one another; a response begins beside a 100-continue in one case
  only, the sweep's 408, after which the connection is closed.
* `NothingAfterClose`, `ExchangeSafe`, `HttpEnds`: a handler posted before the close starts nothing
  after it; the refinement of `Exchange`; every session ends. `ExchangeSafe` does not promise that an
  answer is for the request it reaches: `httpAsyncReplay(body)` called late answers the next one, as
  `NetHttpServer.h:136` and `README.md:485` warn. It promises that an answer which names its request
  reaches no other, that one which names none reaches none before the one it means, and that either is
  the only one of its request.
* `CloseIsPosted`, `HttpLimit`, `HttpNoEscape`: the HTTP sweep forgets a session before its socket is
  closed, unlike `Server`'s. It may, because such a session's close is in the queue and waits for
  nobody; so the limit holds through restarts, for the connections that are not about to be closed.
* `HttpLoops`: a running HTTP server has an accept loop. It is not true of `Server` after a restart
  (finding 2); the second try after `operation_aborted` (`NetHttpServer.cpp:739`) is the difference.
* `FramesIntact`: the messages received are a prefix of those sent.
* `PromptStop`: no wakeup of the monitor is lost except by the catch of `start()`.
* `DiesClean`: memory goes when nobody uses it. Only two things kill the process before: a use of the
  destroyed `io_context` (finding 4), and the monitor as the last owner of the server, which then joins
  itself (`NetServer.cpp:335`).
* `ExitEnds`: told to exit, or unable to start, the program leaves `main()`; being killed does not
  count as an end. It has two premises, for two things the code leaves open. `PeersReadOn`: a session
  that `closeAll()` asked to close and forgot does not keep its write for ever; with a peer that never
  reads `io.run()` never returns and `io_thread.join()` (`examples/Server/main.cpp:115`) waits for ever,
  a consequence of finding 3. `MonitorNotAlone`: the monitor does not drop the last reference while the
  `io_context` is there. Sessions of peers that are silent or leave need no premise.

## 5. Proofs

Every safety property that a run checks, invariant or action property, is a theorem for all values of
the constants, and so is the safety part of both refinements. The paragraphs name the inductive
invariants and why they are needed; `PROJECT.json` lists the theorems.

**Connection.** For all `Msgs`, `Size`, `HEAD_LENGTH > 0`, `MAX_LENGTH`, `MaxSendBufLen` and bounds on
the number of calls (`ConnectionAssumption`), TLAPS checks:

* `TypeCorrect`: `ConnSpec => []ConnTypeOK`. One lemma per function (`SocketCloseType`,
  `ErrToCloseType`, `DoSendType`...), then one step per action.
* `Invariance`: `ConnSpec => []IInv` with `IInv == ConnTypeOK /\ Structure`. `SingleWriter` alone is
  not inductive: that a write's completion finds its node at the front needs that no other write
  exists, in the reactor or waiting; that a close may end when the queue is empty needs that `closing`
  has a driver; that an aborted completion can be ignored needs that it belongs to a closed
  connection. `Structure` is the conjunction of these (`SingleWriter`, `ClosedIsClean`,
  `CloseHasDriver`, `ReaderAlive`), and each step reduces to what it does to the handler queue: how
  many handlers of a set of kinds it leaves (`RunKinds`, `PostKinds`, `CancelKinds`).
* `OneWriterAtATime`, `CloseIsDriven`, `ReaderStaysAlive`, `ClosedStaysClean`: its parts.
* `ClosingStartsNoRead`: `ConnSpec => NoReadWhileClosing`, an action property, from the types.
* `ConnectionIsChannel`: `ConnSpec => ChannelSafe`. The simulation rests on `Conveyed`: as long as no
  error ended the connection, `accepted` is `wire` followed by the queue, without the queue's front
  when its write has been transmitted and its completion still waits. One lemma per action shows which
  step of the channel it is; the others stutter. Of the invariant the simulation needs only `Coherent`
  (types, `SingleWriter`, and that a closed connection has no frame), which a client has too.
* `CloseLosesNothing`: what the refinement is worth to a program. `ChannelKept`, an invariant of the
  abstract channel, gives: the wire is a prefix of what was accepted, and equal to it once the
  connection closed without an error. It is proved of the channel and inherited through it.
* `BacklogIsCounted` and `BacklogIsBounded`: `queueBufLen` is `Total(sendQueue)`, a fold over the queue,
  and never more than the limit. Every step appends a frame, takes the front or clears the queue, so
  three facts about the fold suffice (`TotalSteps`): of the empty queue, of `Append`, of the front and
  the rest. They come from `SumIsPartialSum` in `DataProofs`: the community module's fold over a
  sequence is the last of its partial sums, which needs that the order in which a fold takes the
  indexes is immaterial.

**HTTP session.** For all timeouts and any number of requests, answers and closes (`HttpAssumption`):
`Invariance` of `HttpInv == HttpTypeOK /\ HttpStructure` (in `HttpProofs`). `OneResponse` and `OneInput`
need one another, and both need who is busy: an answer taken from `RunReplay` is the first because
`busy` says that the business has the request and `replied` that nobody answered yet; the next header
is read by the completion of the answer alone. `Counted` ties `answers`, `delivered` and `reqSeq`,
`AllTold` says that a posted answer is one its number allows and for a request the business was told of, `Refusing` that a
response beside a 100-continue closes. From it follow `TypeCorrect`, `OneResponseAtATime`,
`OneInputAtATime`, `WritesStayApart`, `ClosedStartsNothing` (an action property) and `SessionIsExchange`,
the refinement of `Exchange`, action by action. `NamedAnswersFindTheirRequest` reads off the abstract
exchange (its invariant is `AnswersKept`) what a client sees: the i-th answer is the server's, the
business's that named the i-th request, or one that named none and meant the i-th or an earlier one;
and the connection goes on only behind answers that were sent whole and agreed to it.

**Server.** For all finite `Conns`, every limit, timeout and number of calls (`ServerAssumption`):
`Invariance` of `SrvInv` (in `TcpServerProofs`): the types; `QueueSound`, what a posted handler may rely
on (an accepted socket arrived and belongs to nobody, a close was asked for or finds the connection
closing); `TableSound`; `FirstRun`, that until a stop a started server runs, its acceptor is open, no
handler harms it and it has one loop; `TableBounded`; `LoopsBounded`. The queue is abstracted by the
set of its handlers and by how many are accepts (`HowMany`, whose lemmas are in `DataProofs`):
that is what `SetToSeq` and the concatenations of `closeAll()` leave invariant. Theorems: `TypeCorrect`,
`ClosingHasItsTime`, `NobodyEscapes` (relative to the invariant: who is live after a step was live
before it and stays, or was just accepted), `LimitHolds` (the live connections are a subset of the
table), `LoopsAreCounted`.

**HTTP server.** `HttpInvariance` of `HttpInv == SrvInv /\ HttpConns /\ Accepting` (in
`HttpServerProofs`): the lemmas of `TcpServerProofs` carry the actions the two servers share; `CloseWaits`
says that the close of every live session that was asked for is in the queue, `Fresh` that only accepted
connections are closed, `Accepting` that a running server has a loop. Theorems: `HttpTypeCorrect`,
`ClosesArePosted`, `HttpNobodyEscapes`, `HttpLimitHolds`, `HttpLoopsAreCounted`.

**Client.** For all constants, with at least one send, that of the start message (`ClientAssumption`):
`ClientInvariance` of `ClientInv` (in `ClientProofs`). The invariant of `Connection` is not the client's:
`async_connect` opens a socket that was closed, so `sockOpen <=> ~closeSocket` fails. In its place come
two counts of operations begun and not answered, in the reactor or as waiting handlers: `Writes`, at
most one; and `Waits`, the stages of the dial, at most one after `Connect()` and exactly one until the
client begins to close. `Sound` says which handlers may wait before that (none is cancelled, none reads
a socket that is not open), `Settled` that a started client has done with its dial: so it starts once
and the start message has its number. Theorems: `ClientTypeCorrect`, `ClientOwesNothing`,
`ClientOneWriter`, `WaitsForOne`; and, because `ClientInv` and `Conveyed` imply `Coherent`, the lemmas of
`ConnectionProofs` carry the steps the client inherits: `ClientIsChannel` (resolve and connect stutter,
their failures abort), `ClientCloseLosesNothing` and `ClientBacklogIsCounted`.

**Wire format.** For every `Base > 1`, every word size, lengths, ids and bodies (`FramesAssumption`), in
`FramesProofs`:

* *Numbers and bytes.* `ValueOfDigits` and `DigitsOfValue`: bytes and numbers below `Power[n]`
  correspond one to one. The fold of `Value` is first given as the sequence of the values of its
  suffixes (`ValueOfSuffixes`), over which induction on a set of natural numbers is possible.
  `DigitsOfParts` splits a number of two words; `htonllSwaps`: the two halves converted and exchanged
  are the eight bytes turned round. From these `HeaderTransfers`: what any host writes any host reads.
* `TypeCorrect` (`TypesInv`): whatever length a peer names, the buffer is the header's or one of
  `1..MAX_LENGTH` bytes, and never overrun.
* `FramesArriveIntact`, by `StreamInv == TypesInv /\ Delivered /\ ReadsBody /\ InStep`. `FramesIntact`
  alone says nothing of bytes on their way. `InStep` does: the part of the current frame already read,
  followed by the wire, is what remains of the frames sent and of a foreign header behind them (when the
  stream was cut, a beginning of that); `ReadsBody` says which message the body being read belongs to, and `Delivered`
  that those before it were handed over. A read that fills takes its bytes off both sides (`SplitLeft`).

**Life of a server.** With and without the exit callback's thread, in `LifecycleProofs`: `Invariance` of
`LifeInv`: the types; `AcceptIsServed`, the listener's accept exists only while an IO thread may serve it,
so `closeAll()` in place finds none to cancel; `Stopping`, who is still to stop a running server, and that
no `closeAll()` is posted before the flag went down, so that the acceptor of a running server stays open;
`Woke`, once the flag is down the monitor sleeps only if
its waker is still to come; `Dying`, what each step of the destructor did stays done since nobody owns
the object again. Theorems: `TypeCorrect`, `StopIsPrompt`, `ObjectDiesClean`.

Model-checked only: liveness (`StopCloses`, `ChannelLive`, `DialEnds`, `SessionsEnd`, `HttpEnds`,
`ExitEnds`), since fairness and ENABLED are beyond the prover. Induction over data is reached by way of
functions: the library's induction theorem takes an operator and cannot be instantiated, so `Induction`
states it for sets of natural numbers (from `Smallest`, the least element of a set), and
`RecursionExists` and `FoldExists` supply the functions that recursive definitions and folds denote.

## 6. Disagreements found

1. `client_stop`: `stop()` during the resolution leaves a client that connects afterwards and can
   never be closed again (`NetClient.cpp:133`).
2. `server_restart`: `start()` right after `stop()` loses its listener to the posted `closeAll()`
   (`NetServer.cpp:672`).
3. `server_stalled`: after `stop()` nobody cuts a session whose peer does not read
   (`NetServer.cpp:430`). Its write keeps `io.run()` going: the example's `io_thread.join()`
   (`examples/Server/main.cpp:115`) then waits for ever.
4. `lifecycle_exit`: `server.reset()` in the example is not always the end of the server: a handler
   that will never run may own it until the `io_context` is destroyed (`examples/Server/main.cpp:118`).

Seen while reading, and part of the models, but without a run of their own: `stop()` during the connect
calls `CloseFunction` (`NetClient.cpp:145`); after a failed bind the next `start()` "succeeds" without
listening (`NetServer.cpp:305`); a backoff timer of the last run starts a second accept loop in the next
one (`NetServer.cpp:526`); the business hears messages of a session it closed when their body had been
read (`NetConnection.cpp:568`); a close cuts an HTTP response that is being written
(`NetHttpServer.cpp:490`); a late `httpAsyncReplay(body)` answers the next request
(`NetHttpServer.cpp:466`, as documented); the monitor, held up between its post and the release, may be
the last owner and join itself (`NetServer.cpp:335`).

Read, not modelled: the comments at `NetConnection.h:315` and `357-366` still say that `send` throws
over the limit and that frames are charged by their body; the code drops, and charges whole frames.
The first backoff is 200 ms, the comment at `NetServer.cpp:521` says 100 ms.

## 7. Plan

Done: connection, client, server, HTTP session and server, wire format, life of a server; the proofs
of section 5.

What is left is worth less than what is there: that the phases of a `TcpServer`'s connection and the
responses of an `HttpServer`'s are refined by `Connection` and `HttpSession` step for step (the modules
share the vocabulary, no theorem says so); a `Lifecycle` with several restarts in one program;
`HttpServer` composed of whole `HttpSession`s instead of their abstraction (two sessions handler by
handler are beyond TLC).

Not modelled:

* `examples/Client/main.cpp`: its `main()` leaves the end to static destructors, one `io_context` per
  client; console and command line of the examples.
* `net_client.py`, CMake and packaging: no behaviour of the library.
* `closeHard()` of a stopped io_context: it ends sessions nobody runs any more.
* A negative `maxConnections`, which the servers take for "no limit" (0 does the same), and a negative
  `maxSendBufLen` of a client (see the hazards).
* Parsing of URL, query and headers, formatting of answers, `Utils` and logging, `offNoDelay`.
* Exits signalled while `start()` is still running: `Signal` waits for its end. `NoEscape` and
  `ConnectionLimit` of `Server` after a stop: they do not hold there.
* Allocation failures inside handlers, partial writes (an `async_write` is whole or failed), several
  endpoints per resolution, more than one thread running an `io_context` (the documentation forbids it).
