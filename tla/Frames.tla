------------------------------- MODULE Frames -------------------------------
(***************************************************************************)
(* The wire format of Net::Connection, byte by byte: the frame send()      *)
(* builds, the stream that carries it in pieces of any size, and the two   *)
(* reads that take it apart (NetConnection.cpp).  Frames of a peer with    *)
(* other ideas of a length, and a stream that is cut anywhere, are part of *)
(* it.  Both hosts are little-endian or big-endian, each on its own.       *)
(*                                                                         *)
(* A byte has Base values and a word, a uint32_t, WordBytes bytes, so that *)
(* an id, a uint64_t, has two words; the code's are 256 and 4.             *)
(***************************************************************************)
EXTENDS Integers, Sequences, SequencesExt

CONSTANTS
    Base, WordBytes,
    MAX_LENGTH,       \* longest body
    Ids, Bodies,      \* what is sent
    MaxMessages       \* bound: messages sent

\* Power[n] is the number of values n bytes have.
Power[n \in Nat] == IF n = 0 THEN 1 ELSE Base * Power[n - 1]

ASSUME FramesAssumption ==
    /\ Base \in Nat \ {0, 1} /\ WordBytes \in Nat \ {0}
    /\ MAX_LENGTH \in 1..Power[WordBytes] - 1
    /\ Ids \subseteq 0..Power[2 * WordBytes] - 1
    /\ Bodies \subseteq Seq(0..Base - 1)
    /\ MaxMessages \in Nat

VARIABLES
    sender, receiver,     \* their hosts: "little" or "big"
    sent,                 \* history: the messages toSend() accepted
    wire,                 \* bytes on their way
    cut,                  \* nothing more will be written
    part,                 \* what is being read: "head" or "body"
    node,                 \* recvNode: msg_id, total_len and the bytes read so far
    got,                  \* history: the messages handed to recvToWork()
    open                  \* the receiver's socket

frameVars == <<sender, receiver, sent, wire, cut, part, node, got, open>>

HEAD_ID_LENGTH == 2 * WordBytes
HEAD_LEN_LENGTH == WordBytes
HEAD_LENGTH == HEAD_ID_LENGTH + HEAD_LEN_LENGTH

-----------------------------------------------------------------------------
(* Numbers, and their bytes in the memory of a host.                       *)

Word == Power[WordBytes]

Digits(v, n) == [i \in 1..n |-> (v \div Power[i - 1]) % Base]
Value(bytes) == FoldRight(LAMBDA d, v : d + Base * v, bytes, 0)

Ordered(bytes, host) == IF host = "big" THEN Reverse(bytes) ELSE bytes
Store(v, n, host) == Ordered(Digits(v, n), host)
Load(bytes, host) == Value(Ordered(bytes, host))

htonl(v, host) == IF host = "big" THEN v ELSE Value(Reverse(Digits(v, WordBytes)))

\* Each half converted, and the halves exchanged.
htonll_Halves(v, host) ==
    IF host = "big" THEN v
    ELSE htonl(v \div Word, host) * Word + htonl(v % Word, host)
htonll(v, host) ==
    IF host = "big" THEN v
    ELSE htonl(v % Word, host) * Word + htonl(v \div Word, host)

-----------------------------------------------------------------------------
(* The sender.                                                             *)

Header(id, len) == Store(htonll(id, sender), HEAD_ID_LENGTH, sender)
                   \o Store(htonl(len, sender), HEAD_LEN_LENGTH, sender)

Acceptable(msg) == Len(msg) \in 1..MAX_LENGTH

toSend ==
    /\ ~cut /\ Len(sent) < MaxMessages
    /\ \E id \in Ids, msg \in {m \in Bodies : Acceptable(m)} :
         /\ sent' = Append(sent, [id |-> id, msg |-> msg])
         /\ wire' = wire \o Header(id, Len(msg)) \o msg
    /\ UNCHANGED <<sender, receiver, cut, part, node, got, open>>

\* A peer that is not of this library names a length of its own.
ForeignHeader ==
    /\ ~cut
    /\ \E id \in Ids, len \in (0..Word - 1) \ (1..MAX_LENGTH) : wire' = wire \o Header(id, len)
    /\ cut' = TRUE
    /\ UNCHANGED <<sender, receiver, sent, part, node, got, open>>

\* The sender's socket is closed: what the network still has of it is lost or not.
Cut ==
    /\ ~cut /\ cut' = TRUE
    /\ \E n \in 0..Len(wire) : wire' = SubSeq(wire, 1, n)
    /\ UNCHANGED <<sender, receiver, sent, part, node, got, open>>

-----------------------------------------------------------------------------
(* The receiver: readHead(), readBody() and their handlers.                *)

RecvNode(id, len) == [msg_id |-> id, total_len |-> len, buf |-> <<>>]
MSG_ID_INVALID == Power[HEAD_ID_LENGTH] - 1

readHead == part' = "head" /\ node' = RecvNode(MSG_ID_INVALID, HEAD_LENGTH)
readBody(id, len) == part' = "body" /\ node' = RecvNode(id, len)

\* async_read takes what has arrived until the buffer is full.
Arrives ==
    /\ open /\ wire # <<>>
    /\ \E n \in 1..Len(wire) :
         /\ Len(node.buf) + n <= node.total_len
         /\ node' = [node EXCEPT !.buf = @ \o SubSeq(wire, 1, n)]
         /\ wire' = SubSeq(wire, n + 1, Len(wire))
    /\ UNCHANGED <<sender, receiver, sent, cut, part, got, open>>

Full == open /\ Len(node.buf) = node.total_len

BadLength_TooLong(len) == len <= 0
BadLength(len) == len > MAX_LENGTH \/ len <= 0

HeadRead ==
    /\ Full /\ part = "head"
    /\ LET id  == htonll(Load(SubSeq(node.buf, 1, HEAD_ID_LENGTH), receiver), receiver)
           len == htonl(Load(SubSeq(node.buf, HEAD_ID_LENGTH + 1, HEAD_LENGTH), receiver),
                        receiver)
       IN \/ BadLength(len) /\ open' = FALSE /\ UNCHANGED <<part, node>>
          \/ ~BadLength(len) /\ readBody(id, len) /\ UNCHANGED open
    /\ UNCHANGED <<sender, receiver, sent, wire, cut, got>>

BodyRead ==
    /\ Full /\ part = "body"
    /\ got' = Append(got, [id |-> node.msg_id, msg |-> node.buf])
    /\ readHead
    /\ UNCHANGED <<sender, receiver, sent, wire, cut, open>>

\* End of stream, in the middle of a frame or between two.
ReadFails ==
    /\ open /\ cut /\ wire = <<>> /\ Len(node.buf) < node.total_len
    /\ open' = FALSE
    /\ UNCHANGED <<sender, receiver, sent, wire, cut, part, node, got>>

-----------------------------------------------------------------------------
Init ==
    /\ sender \in {"little", "big"} /\ receiver \in {"little", "big"}
    /\ sent = <<>> /\ wire = <<>> /\ cut = FALSE
    /\ part = "head" /\ node = RecvNode(MSG_ID_INVALID, HEAD_LENGTH)
    /\ got = <<>> /\ open = TRUE

Next == toSend \/ ForeignHeader \/ Cut \/ Arrives \/ HeadRead \/ BodyRead \/ ReadFails

FramesSpec == Init /\ [][Next]_frameVars

-----------------------------------------------------------------------------
(* Properties.                                                             *)

\* The types; whatever length a peer names, the buffer that is made for a body
\* is not empty and not longer than MAX_LENGTH.
FramesTypeOK ==
    /\ {sender, receiver} \subseteq {"little", "big"}
    /\ {sent, got} \subseteq Seq([id : 0..Power[HEAD_ID_LENGTH] - 1, msg : Seq(0..Base - 1)])
    /\ wire \in Seq(0..Base - 1)
    /\ cut \in BOOLEAN /\ open \in BOOLEAN
    /\ node.total_len \in (IF part = "head" THEN {HEAD_LENGTH} ELSE 1..MAX_LENGTH)
    /\ node.buf \in Seq(0..Base - 1) /\ Len(node.buf) <= node.total_len

\* What the business gets are the messages sent, whole, in order and under their
\* ids, whatever the segments of the stream, the byte orders of the two hosts, and
\* the place where the stream is cut (README.md:589).
FramesIntact == IsPrefix(got, sent)

=============================================================================
