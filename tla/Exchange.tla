------------------------------ MODULE Exchange ------------------------------
(***************************************************************************)
(* What an HTTP connection promises: its requests are taken up one after   *)
(* the other, each gets at most one answer, and the next request is taken  *)
(* up only when that was transmitted whole and agreed to keep the          *)
(* connection.  A connection being closed begins nothing.                  *)
(*                                                                         *)
(* An answer is the server's own, or the business's to the request it      *)
(* names.  When the business names none, its answer to one request may be  *)
(* given to a later one: of that the interface warns.                      *)
(***************************************************************************)
EXTENDS Naturals, Sequences

VARIABLES round,         \* the number of the request at hand
          answers,       \* the i-th answers request i
          delivered,     \* how many of them reached the network
          open

exchVars == <<round, answers, delivered, open>>

\* Who answers: the server, or the business, which means a request and names it or not.
Server     == [meant |-> 0, named |-> FALSE]
Named(n)   == [meant |-> n, named |-> TRUE]
Unnamed(n) == [meant |-> n, named |-> FALSE]

MayAnswer(n) == {Server, Named(n)} \cup {Unnamed(m) : m \in 1..n}

Init == round = 1 /\ answers = <<>> /\ delivered = 0 /\ open = TRUE

Answer == /\ open
          /\ Len(answers) = round - 1
          /\ \E by \in MayAnswer(round), keep \in BOOLEAN :
               answers' = Append(answers, [by |-> by, keep |-> keep])
          /\ UNCHANGED <<round, delivered, open>>

Deliver == /\ delivered < Len(answers)
           /\ delivered' = delivered + 1
           /\ UNCHANGED <<round, answers, open>>

NextRound == /\ open
             /\ Len(answers) = round /\ delivered = round
             /\ answers[round].keep
             /\ round' = round + 1
             /\ UNCHANGED <<answers, delivered, open>>

Close == open /\ open' = FALSE /\ UNCHANGED <<round, answers, delivered>>

Next == Answer \/ Deliver \/ NextRound \/ Close

SafeSpec == Init /\ [][Next]_exchVars
=============================================================================
