------------------------------ MODULE Client ------------------------------
(***************************************************************************)
(* Net::Client::Client (Client/source/NetClient.cpp): a Connection that    *)
(* resolves a name and connects before it starts.  The resolution is an    *)
(* operation of the resolver's own, which closing the socket does not      *)
(* touch; the connect is an operation of the socket, kept with `reads',    *)
(* which closing cancels.                                                  *)
(***************************************************************************)
EXTENDS Connection, FiniteSets

CONSTANT startMsg        \* the message sent once connected, with id 0

ASSUME ClientAssumption == /\ startMsg \in Msgs /\ Size[startMsg] \in 1..MAX_LENGTH
                           /\ MaxSends > 0

VARIABLES dialled,       \* Connect() has been called
          resolving,     \* async_resolve is in flight
          told           \* what CloseFunction was called with, or "nothing"

dialVars   == <<dialled, resolving, told>>
clientVars == <<connVars, dialVars>>

ClientInit == /\ ConnInit(FALSE)
              /\ dialled = FALSE /\ resolving = FALSE /\ told = "nothing"

Connecting == "connect" \in Range(reads)

-----------------------------------------------------------------------------
(* Calls of the program.                                                   *)

Connect == /\ ~dialled
           /\ dialled' = TRUE /\ resolving' = TRUE
           /\ UNCHANGED <<connVars, told>>

\* toSend() from any thread at any time; the last number is the start message's.
SendCall == /\ started \/ sends + 1 < MaxSends
            /\ \E m \in Msgs : ToSend(m)

-----------------------------------------------------------------------------
(* The two handlers of Connect().                                          *)

\* talkErrorToWork(): the business hears of a failure once.
TalkErrorToWork(ec) == told' = IF told = "nothing" THEN ec ELSE told

GiveUp_Quietly(ec) ==
    /\ TalkErrorToWork(ec)
    /\ ready' = Rest
    /\ UNCHANGED <<flags, queue, sockOpen, reads, writes, history>>

GiveUp(ec) ==
    /\ TalkErrorToWork(ec)
    /\ ErrToClose(Rest)
    /\ UNCHANGED <<started, accepted, wire>>

ResolveFailed == /\ Running("resolve") /\ Head(ready).ec # "ok"
                 /\ GiveUp(Head(ready).ec)
                 /\ UNCHANGED <<bounded, dialled, resolving>>

\* async_connect() opens the socket, whatever happened to it before.
Resolved == /\ Running("resolve") /\ Head(ready).ec = "ok"
            /\ sockOpen' = TRUE
            /\ reads' = Append(reads, "connect")
            /\ ready' = Rest
            /\ UNCHANGED <<flags, queue, writes, history, bounded, dialVars>>

\* A connect that succeeded is reported as aborted when the socket was closed
\* before its handler ran.
ConnectOutcome == IF sockOpen THEN Head(ready).ec ELSE "aborted"

ConnectFailed == /\ Running("connect") /\ ConnectOutcome # "ok"
                 /\ GiveUp(ConnectOutcome)
                 /\ UNCHANGED <<bounded, dialled, resolving>>

\* start(): the start message is posted, then the reading starts.
StartClient_Deaf ==
    /\ ready' = Append(Rest, Handler("send", "ok", [seq |-> sends + 1, msg |-> startMsg]))
    /\ reads' = reads
StartClient ==
    AsyncRead("head",
      Append(Rest, Handler("send", "ok", [seq |-> sends + 1, msg |-> startMsg])))

Connected == /\ Running("connect") /\ ConnectOutcome = "ok"
             /\ StartClient
             /\ started' = TRUE
             /\ sends' = sends + 1
             /\ UNCHANGED <<sending, closing, closeSocket, closeNotified, queue, sockOpen,
                            writes, history, stops, inbound, starts, dialVars>>

RunDial == ResolveFailed \/ Resolved \/ ConnectFailed \/ Connected

-----------------------------------------------------------------------------
(* The resolver and the network.                                           *)

ResolverAnswers(ec) ==
    /\ resolving
    /\ resolving' = FALSE
    /\ ready' = Append(ready, Handler("resolve", ec, NoNode))
    /\ UNCHANGED <<flags, queue, sockOpen, reads, writes, history, bounded, dialled, told>>

ConnectAnswers(ec) ==
    /\ Connecting
    /\ reads' = Tail(reads)
    /\ ready' = Append(ready, Handler("connect", ec, NoNode))
    /\ UNCHANGED <<flags, queue, sockOpen, writes, history, bounded, dialVars>>

\* Before the connect is answered the socket carries no byte either way.
ClientNetwork == ~Connecting /\ Network

-----------------------------------------------------------------------------
ConnectionStep == /\ \/ SendCall
                     \/ StopToClose
                     \/ RunSend
                     \/ RunClose
                     \/ RunWrite
                     \/ RunHead
                     \/ RunBody
                     \/ ClientNetwork
                  /\ UNCHANGED dialVars

ClientNext == \/ Connect
              \/ ConnectionStep
              \/ RunDial
              \/ \E ec \in {"ok", "error"} : ResolverAnswers(ec) \/ ConnectAnswers(ec)

\* The IO thread runs, the resolver and the connect answer (they time out by
\* themselves), and the peer keeps reading.
ClientFairness ==
    /\ WF_clientVars(RunDial \/ (RunHandler /\ UNCHANGED dialVars))
    /\ WF_clientVars(~Connecting /\ WriteCompletes /\ UNCHANGED dialVars)
    /\ WF_clientVars(\E ec \in {"ok", "error"} : ResolverAnswers(ec) \/ ConnectAnswers(ec))

ClientSpec     == ClientInit /\ [][ClientNext]_clientVars
ClientFairSpec == ClientSpec /\ ClientFairness

-----------------------------------------------------------------------------
(* Properties.                                                             *)

ClientHandlers ==
    Handlers \cup
    [kind : {"resolve", "connect"}, ec : Outcomes \ {"bad"}, node : {NoNode}]

\* The values of the dial's own state; the connection's stay what ConnTypeOK
\* says of them but for the two operations that are the dial's.
ClientTypeOK ==
    /\ dialled \in BOOLEAN /\ resolving \in BOOLEAN
    /\ told \in {"nothing", "error", "aborted"}
    /\ ready \in Seq(ClientHandlers)
    /\ reads \in Seq({"head", "body", "connect"}) /\ writes \in Seq(Node)
    /\ sendQueue \in Seq(Node) /\ queueBufLen \in 0..MaxSendBufLen
    /\ sends \in 0..MaxSends

\* A client that was told to connect and is not closing waits for exactly one
\* of the resolver, the connect and a read: it is never left with nothing that
\* could wake it, and never dials while it reads.
Stages == {<<"resolver", i>> : i \in {j \in {0} : resolving}}
          \cup {<<"reactor", i>> : i \in DOMAIN reads}
          \cup {<<"handler", i>> : i \in
                  {j \in DOMAIN ready : ready[j].kind \in {"resolve", "connect", "head", "body"}}}
OneStage == dialled /\ ~closing => Cardinality(Stages) = 1

\* Nothing stays queued or in flight behind a closed client, even when the
\* socket was closed before it was ever opened.
NothingOwed == closeSocket => sendQueue = <<>> /\ writes = <<>> /\ queueBufLen = 0

\* A call of Connect() ends: the client reads, or it is closing.
DialEnds == dialled ~> (started \/ closing)

\* NetClient.h:97: after stop() the connection is disconnected in the end.
StopDisconnects == (stops > 0) ~> []~(started /\ sockOpen)

=============================================================================
