----------------------------- MODULE Lifecycle ------------------------------
(***************************************************************************)
(* The life of a server in the program examples/Server/main.cpp: its       *)
(* threads, the lock and the condition variable of the monitor, and the    *)
(* owners of the object, up to its destructor and that of the io_context.  *)
(*                                                                         *)
(* Server has a shared_ptr in main, one in each handler it has posted, one *)
(* in the accept in flight, and for a moment one in the monitor and in the *)
(* exit callback; whoever drops the last runs ~Server().  A session owns   *)
(* nothing of the server, but its operations are work that keeps io.run()  *)
(* from returning: one session at a time stands for all, with its reads,   *)
(* its writes to a peer that may not read them, and its closes.            *)
(* HttpServer and its example have the same code.                          *)
(***************************************************************************)
EXTENDS Naturals, Sequences

CONSTANT CallbackThread    \* does the exit callback run beside main?

ASSUME LifecycleAssumption == CallbackThread \in BOOLEAN

VARIABLES
    running,      \* the server's flag
    main,         \* where the main thread is
    exit,         \* where the exit callback is
    monitor,      \* where clearSession() is; at "checked" it holds queueMutex
    io,           \* the io_context and its thread
    queue,        \* its posted handlers
    accepting,    \* an async_accept is in flight, or a backoff
    session,      \* what a session has in flight, see Sessions
    acceptorOpen,
    signalled,    \* the program was told to exit
    dtor, by,     \* where ~Server() is, and on which thread
    terminated    \* std::terminate(), or a use of what was destroyed

lifeVars == <<running, main, exit, monitor, io, queue, accepting, session, acceptorOpen,
              signalled, dtor, by, terminated>>

-----------------------------------------------------------------------------
Threads == {"main", "exit", "monitor", "io"}

\* No session; a read; a frame as well, which the peer may not read; the same and
\* asked to close; the same when the table has forgotten it.
Sessions == {"none", "reading", "writing", "closing", "forgotten"}

\* At these points a thread holds a shared_ptr to the server.
MainOwns == {"start", "accept", "catch", "catchNotify", "catchJoin", "run", "waitExit",
             "flag", "notify", "close", "post", "join", "reset"}
ExitOwns == {"flag", "notify", "close", "post", "release"}
MonitorOwns == {"post", "release"}

Owned == \/ main \in MainOwns \/ exit \in ExitOwns \/ monitor \in MonitorOwns
         \/ queue # <<>> \/ accepting

\* Thread t gave up a reference: if it was the last, t runs the destructor.
Released(t) ==
    IF ~Owned' /\ dtor = "no" THEN dtor' = "flag" /\ by' = t ELSE UNCHANGED <<dtor, by>>

Free(t) == ~terminated /\ main # "done" /\ (dtor \in {"no", "freed"} \/ by # t)

Joined == monitor \in {"off", "ended"}

\* queueMutex is held for longer than a step only by the monitor.
Unlocked == monitor # "checked"

Woken == monitor' = IF monitor = "asleep" THEN "awake" ELSE monitor

Init ==
    /\ running = FALSE
    /\ main = "start" /\ exit = (IF CallbackThread THEN "idle" ELSE "ended")
    /\ monitor = "off" /\ io = "new" /\ queue = <<>> /\ accepting = FALSE
    /\ session = "none" /\ acceptorOpen = FALSE /\ signalled = FALSE
    /\ dtor = "no" /\ by = "main" /\ terminated = FALSE

-----------------------------------------------------------------------------
(* start(), and its catch when a thread or an accept cannot be had.        *)

OpenFails ==
    /\ Free("main") /\ main = "start" /\ main' = "reset"
    /\ acceptorOpen' \in BOOLEAN
    /\ UNCHANGED <<running, exit, monitor, io, queue, accepting, session, signalled, dtor, by, terminated>>

StartMonitor ==
    /\ Free("main") /\ main = "start"
    /\ running' = TRUE /\ acceptorOpen' = TRUE
    /\ \/ monitor' = "check" /\ main' = "accept"
       \/ monitor' = monitor /\ main' = "catch"
    /\ UNCHANGED <<exit, io, queue, accepting, session, signalled, dtor, by, terminated>>

StartAccept ==
    /\ Free("main") /\ main = "accept"
    /\ \/ accepting' = TRUE /\ main' = "run"
       \/ accepting' = FALSE /\ main' = "catch"
    /\ UNCHANGED <<running, exit, monitor, io, queue, session, acceptorOpen, signalled,
                   dtor, by, terminated>>

\* The flag is set without the lock, unlike in stop().
Catch ==
    /\ Free("main")
    /\ \/ /\ main = "catch" /\ main' = "catchNotify"
          /\ running' = FALSE /\ UNCHANGED monitor
       \/ /\ main = "catchNotify" /\ main' = "catchJoin"
          /\ Woken /\ UNCHANGED running
       \/ /\ main = "catchJoin" /\ Joined /\ main' = "reset"
          /\ UNCHANGED <<running, monitor>>
    /\ UNCHANGED <<exit, io, queue, accepting, session, acceptorOpen, signalled, dtor, by, terminated>>

-----------------------------------------------------------------------------
(* stop(), which main and the exit callback both call.                     *)

Flag_Unlocked == running' = FALSE
Flag == Unlocked /\ running' = FALSE

\* closeAll() runs in place when nobody would run it, and then finds no session:
\* run() had ended.  Otherwise it is posted, be it that run() ends just before.
CloseInPlace == IF io = "stopped" THEN acceptorOpen' = FALSE ELSE UNCHANGED acceptorOpen
PostCloseAll ==
    /\ terminated' = (io = "destroyed")
    /\ queue' = IF io = "destroyed" THEN queue ELSE Append(queue, "closeAll")

MainStops ==
    /\ Free("main")
    /\ \/ /\ main = "flag" /\ main' = "notify"
          /\ Flag /\ UNCHANGED <<monitor, queue, acceptorOpen, terminated>>
       \/ /\ main = "notify" /\ main' = "close"
          /\ Woken /\ UNCHANGED <<running, queue, acceptorOpen, terminated>>
       \/ /\ main = "close" /\ main' = IF io = "stopped" THEN "join" ELSE "post"
          /\ CloseInPlace /\ UNCHANGED <<running, monitor, queue, terminated>>
       \/ /\ main = "post" /\ main' = "join"
          /\ PostCloseAll /\ UNCHANGED <<running, monitor, acceptorOpen>>
    /\ UNCHANGED <<exit, io, accepting, session, signalled, dtor, by>>

ExitStops ==
    /\ Free("exit")
    /\ \/ /\ exit = "flag" /\ exit' = "notify"
          /\ Flag /\ UNCHANGED <<monitor, queue, acceptorOpen, terminated>>
       \/ /\ exit = "notify" /\ exit' = "close"
          /\ Woken /\ UNCHANGED <<running, queue, acceptorOpen, terminated>>
       \/ /\ exit = "close" /\ exit' = IF io = "stopped" THEN "release" ELSE "post"
          /\ CloseInPlace /\ UNCHANGED <<running, monitor, queue, terminated>>
       \/ /\ exit = "post" /\ exit' = "release"
          /\ PostCloseAll /\ UNCHANGED <<running, monitor, acceptorOpen>>
    /\ UNCHANGED <<main, io, accepting, session, signalled, dtor, by>>

-----------------------------------------------------------------------------
(* The main thread, from the start of the IO thread to the end.            *)

RunIo ==
    /\ Free("main") /\ main = "run" /\ main' = "waitExit"
    /\ io' = "running"
    /\ UNCHANGED <<running, exit, monitor, queue, accepting, session, acceptorOpen, signalled, dtor, by,
                   terminated>>

WaitExit ==
    /\ Free("main")
    /\ \/ main = "waitExit" /\ signalled /\ main' = "flag"
       \/ main = "join" /\ io \in {"stopped", "thrown"} /\ main' = "reset"
    /\ UNCHANGED <<running, exit, monitor, io, queue, accepting, session, acceptorOpen, signalled,
                   dtor, by, terminated>>

ResetServer ==
    /\ Free("main") /\ main = "reset" /\ main' = "return"
    /\ UNCHANGED <<running, exit, monitor, io, queue, accepting, session, acceptorOpen, signalled,
                   terminated>>
    /\ Released("main")

\* The io_context goes with the locals of main(), and with it what is in it.
DestroyIo ==
    /\ Free("main") /\ main = "return" /\ main' = "returned"
    /\ io' = "destroyed" /\ queue' = <<>> /\ accepting' = FALSE /\ session' = "none"
    /\ UNCHANGED <<running, exit, monitor, acceptorOpen, signalled, terminated>>
    /\ Released("main")

Return ==
    /\ Free("main") /\ main = "returned" /\ main' = "done"
    /\ UNCHANGED <<running, exit, monitor, io, queue, accepting, session, acceptorOpen, signalled,
                   dtor, by, terminated>>

Main == \/ OpenFails \/ StartMonitor \/ StartAccept \/ Catch \/ RunIo \/ WaitExit \/ MainStops
        \/ ResetServer \/ DestroyIo \/ Return

-----------------------------------------------------------------------------
(* The exit callback: stop() of a server that is still there.              *)

Signal ==
    /\ Free("exit") /\ ~signalled /\ main \in {"run", "waitExit"}
    /\ signalled' = TRUE
    /\ UNCHANGED <<running, main, exit, monitor, io, queue, accepting, session, acceptorOpen, dtor, by,
                   terminated>>

ExitCallback ==
    /\ Free("exit")
    /\ \/ exit = "idle" /\ signalled /\ exit' = IF Owned THEN "flag" ELSE "ended"
       \/ exit = "release" /\ exit' = "ended"
    /\ UNCHANGED <<running, main, monitor, io, queue, accepting, session, acceptorOpen, signalled,
                   terminated>>
    /\ Released("exit")

-----------------------------------------------------------------------------
(* The monitor thread, clearSession().                                     *)

Goes(from, to) == Free("monitor") /\ monitor = from /\ monitor' = to

MonitorLocks == Goes("check", IF running THEN "checked" ELSE "ended")
MonitorSleeps == Goes("checked", "asleep")

MonitorTimesOut == Goes("asleep", "awake")
MonitorAwakes == Goes("awake", IF running THEN "keep" ELSE "ended")
MonitorKeeps == Goes("keep", IF Owned THEN "post" ELSE "ended")

\* One sweep in the queue stands for all of them.
MonitorPosts ==
    /\ Goes("post", "release")
    /\ terminated' = (io = "destroyed")
    /\ queue' = IF io = "destroyed" \/ \E i \in DOMAIN queue : queue[i] = "sweep"
                THEN queue ELSE Append(queue, "sweep")

MonitorReleases == Goes("release", "check")

Monitor ==
    /\ \/ /\ MonitorLocks \/ MonitorSleeps \/ MonitorTimesOut \/ MonitorAwakes \/ MonitorKeeps
             \/ MonitorReleases
          /\ UNCHANGED <<queue, terminated>>
       \/ MonitorPosts
    /\ UNCHANGED <<running, main, exit, io, accepting, session, acceptorOpen, signalled>>
    /\ Released("monitor")

-----------------------------------------------------------------------------
(* The IO thread.                                                          *)

\* The close of a session with nothing to write ends it.
AllClosed_Skips == UNCHANGED session
AllClosed == session' = IF session \in {"none", "reading"} THEN "none" ELSE "forgotten"

CloseAll_Leaves ==
    /\ acceptorOpen' = FALSE /\ queue' = Tail(queue)
    /\ UNCHANGED accepting
    /\ AllClosed
CloseAll ==
    /\ acceptorOpen' = FALSE /\ accepting' = FALSE
    /\ queue' = Tail(queue) \o (IF accepting THEN <<"accept">> ELSE <<>>)
    /\ AllClosed

\* While the server runs an accept, good or failed, is followed by the next.
AcceptEnds ==
    /\ accepting' = running
    /\ session' \in IF running /\ session = "none" THEN {"none", "reading"} ELSE {session}

\* A session in the table may be told and closed, and cut when its time is over.
Swept == session' \in {session} \cup
            IF session \in {"reading", "writing"} THEN {"closing"}
            ELSE IF session = "closing" THEN {"none"} ELSE {}

RunHandler ==
    /\ queue # <<>>
    /\ \/ Head(queue) = "closeAll" /\ CloseAll
       \/ /\ Head(queue) = "accept" /\ AcceptEnds
          /\ queue' = Tail(queue) /\ UNCHANGED acceptorOpen
       \/ /\ Head(queue) = "sweep" /\ Swept
          /\ queue' = Tail(queue) /\ UNCHANGED <<accepting, acceptorOpen>>
    /\ UNCHANGED io

\* An exception leaves a handler, and run() with it; the context is not stopped.
HandlerThrows ==
    /\ queue # <<>> /\ queue' = Tail(queue)
    /\ io' = "thrown"
    /\ UNCHANGED <<accepting, session, acceptorOpen>>

\* Out of work: no handler, no accept, and no read or write of a session.
RunReturns ==
    /\ queue = <<>> /\ ~accepting /\ session = "none"
    /\ io' = "stopped"
    /\ UNCHANGED <<queue, accepting, session, acceptorOpen>>

IoThread ==
    /\ Free("io") /\ io = "running"
    /\ RunHandler \/ HandlerThrows \/ RunReturns
    /\ UNCHANGED <<running, main, exit, monitor, signalled, terminated>>
    /\ Released("io")

-----------------------------------------------------------------------------
(* The peers, and what the IO thread does for their sessions.              *)

\* A peer connects, or the accept fails.
AcceptCompletes ==
    /\ accepting /\ accepting' = FALSE
    /\ queue' = Append(queue, "accept")
    /\ UNCHANGED session

\* A message is answered; the peer reads the answer or the business closes; and a
\* session ends when its peer leaves, or reads what it was owed before the close.
SessionGoesOn ==
    /\ \/ session = "reading" /\ session' = "writing"
       \/ session = "writing" /\ session' \in {"reading", "closing"}
       \/ session # "none" /\ session' = "none"
    /\ UNCHANGED <<queue, accepting>>

Peers ==
    /\ Free("io") /\ io = "running"
    /\ AcceptCompletes \/ SessionGoesOn
    /\ UNCHANGED <<running, main, exit, monitor, io, acceptorOpen, signalled, dtor, by, terminated>>

-----------------------------------------------------------------------------
(* ~Server(), on the thread that dropped the last reference.  Its          *)
(* closeAll() is in place; a session an exception left in a context that   *)
(* is not stopped is only asked to close.  A thread cannot join itself:    *)
(* the exception leaves a destructor.                                      *)

JoinMonitor_Not == dtor' = "freed" /\ UNCHANGED terminated
JoinMonitor ==
    IF by = "monitor" THEN terminated' = TRUE /\ UNCHANGED dtor
                      ELSE Joined /\ dtor' = "freed" /\ UNCHANGED terminated

Destructor ==
    /\ ~terminated /\ main # "done"
    /\ \/ /\ dtor = "flag" /\ dtor' = "notify"
          /\ Flag /\ UNCHANGED <<monitor, acceptorOpen, terminated>>
       \/ /\ dtor = "notify" /\ dtor' = "close"
          /\ Woken /\ UNCHANGED <<running, acceptorOpen, terminated>>
       \/ /\ dtor = "close" /\ dtor' = "join"
          /\ acceptorOpen' = FALSE /\ UNCHANGED <<running, monitor, terminated>>
       \/ /\ dtor = "join" /\ JoinMonitor
          /\ UNCHANGED <<running, monitor, acceptorOpen>>
    /\ UNCHANGED <<main, exit, io, queue, accepting, session, signalled, by>>

-----------------------------------------------------------------------------
Next == Main \/ Signal \/ ExitCallback \/ ExitStops \/ Monitor \/ IoThread \/ Peers
        \/ Destructor

\* Every thread goes on, and nothing else has to happen: no signal, no exception, no
\* peer that reads or leaves.  The monitor holds queueMutex for an instant and sleeps
\* a second at least: who wants the lock as often gets it, hence the strong fairness.
Fairness ==
    /\ SF_lifeVars(Main) /\ SF_lifeVars(ExitCallback \/ ExitStops) /\ SF_lifeVars(Destructor)
    /\ WF_lifeVars(Monitor) /\ WF_lifeVars(IoThread /\ io' # "thrown")

LifeSpec     == Init /\ [][Next]_lifeVars
LifeFairSpec == LifeSpec /\ Fairness

-----------------------------------------------------------------------------
(* Properties.                                                             *)

\* The types; an accept in flight is one on an open acceptor, which a running
\* server always has.
LifeTypeOK ==
    /\ accepting \/ running => acceptorOpen
    /\ running \in BOOLEAN /\ accepting \in BOOLEAN /\ acceptorOpen \in BOOLEAN
    /\ signalled \in BOOLEAN /\ terminated \in BOOLEAN
    /\ main \in MainOwns \cup {"return", "returned", "done"}
    /\ exit \in ExitOwns \cup {"idle", "ended"}
    /\ monitor \in MonitorOwns \cup {"off", "check", "checked", "asleep", "awake", "keep", "ended"}
    /\ io \in {"new", "running", "stopped", "thrown", "destroyed"}
    /\ queue \in Seq({"closeAll", "sweep", "accept"}) /\ session \in Sessions
    /\ dtor \in {"no", "flag", "notify", "close", "join", "freed"} /\ by \in Threads

\* stop() is prompt: once the flag is down the monitor does not sleep on, unless
\* somebody is about to wake it.  Only start()'s catch, which does not take the
\* lock, may miss it and wait for the period to end (NetServer.cpp:387).
PromptStop ==
    ~running /\ monitor = "asleep" =>
        main \in {"notify", "catchNotify", "catchJoin"} \/ exit = "notify" \/ dtor = "notify"

\* The object dies clean: its memory goes only when the monitor, which uses it by
\* a plain `this', has ended, when nobody owns it and its acceptor is closed,
\* though a posted closeAll() never ran.  Only two things kill the process before:
\* a use of the destroyed io_context, and the monitor as the last owner, which
\* joins itself (NetServer.cpp:335).
DiesClean ==
    /\ dtor = "freed" => Joined /\ ~Owned /\ ~acceptorOpen
    /\ terminated => io = "destroyed" \/ by = "monitor"

\* A program that is told to exit, or cannot start, does leave main(): the IO thread
\* runs out of work, and no join waits for ever.  Two things the code leaves open are
\* premises: that no peer holds the write of a forgotten session for ever, which
\* nobody would cut, and that the monitor is not the last owner before the
\* io_context goes.
PeersReadOn     == []<>(session # "forgotten")
MonitorNotAlone == [](by = "monitor" => io = "destroyed")
ExitEnds ==
    PeersReadOn /\ MonitorNotAlone =>
        (main \in {"catch", "flag", "reset"} ~> main \in {"returned", "done"})

\* examples/Server/main.cpp:117: the server is destroyed before the io_context.
ServerDiesFirst == io = "destroyed" => dtor = "freed"

=============================================================================
