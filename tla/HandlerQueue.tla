---------------------------- MODULE HandlerQueue ----------------------------
(***************************************************************************)
(* The queue of handlers an io_context will run, as the modules of a       *)
(* connection look at it: a handler's `kind' says which operation it       *)
(* completes.                                                              *)
(***************************************************************************)
EXTENDS Naturals, Sequences, FiniteSets

\* A handler of one of the kinds K waits in the queue r; no two do.
Waiting(r, K)   == \E i \in DOMAIN r : r[i].kind \in K
AtMostOne(r, K) == \A i, j \in DOMAIN r : r[i].kind \in K /\ r[j].kind \in K => i = j

\* How many of them do.
HowMany(r, K) == Cardinality({i \in DOMAIN r : r[i].kind \in K})

=============================================================================
