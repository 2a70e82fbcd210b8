------------------------- MODULE GracefulChannel -------------------------
(***************************************************************************)
(* What a Connection promises about the frames it accepts for sending: it  *)
(* transmits them in the order it accepted them, each at most once; a      *)
(* graceful close stops the acceptance at once and the transmission only   *)
(* when nothing is left; only an error may abandon accepted frames.        *)
(***************************************************************************)
EXTENDS Naturals, Sequences

CONSTANT Frames          \* the frames a program may ask to send

VARIABLES accepted,      \* the frames accepted, in order
          wire,          \* the frames handed to the peer, in order
          phase,         \* "open", "closing" or "closed"
          aborted        \* did an error end the connection?

chanVars == <<accepted, wire, phase, aborted>>

Init == /\ accepted = <<>>
        /\ wire = <<>>
        /\ phase = "open"
        /\ aborted = FALSE

Drained == Len(wire) = Len(accepted)

Accept(f) == /\ phase = "open"
             /\ accepted' = Append(accepted, f)
             /\ UNCHANGED <<wire, phase, aborted>>

Transmit == /\ phase # "closed"
            /\ ~Drained
            /\ wire' = Append(wire, accepted[Len(wire) + 1])
            /\ UNCHANGED <<accepted, phase, aborted>>

\* The close request: at once when nothing is left to transmit.
Close == /\ phase = "open"
         /\ phase' \in IF Drained THEN {"closing", "closed"} ELSE {"closing"}
         /\ UNCHANGED <<accepted, wire, aborted>>

Finish == /\ phase = "closing"
          /\ Drained
          /\ phase' = "closed"
          /\ UNCHANGED <<accepted, wire, aborted>>

Abort == /\ phase # "closed"
         /\ phase' = "closed"
         /\ aborted' = TRUE
         /\ UNCHANGED <<accepted, wire>>

Next == \/ \E f \in Frames : Accept(f)
        \/ Transmit
        \/ Close
        \/ Finish
        \/ Abort

SafeSpec == Init /\ [][Next]_chanVars

\* Frames are transmitted and a requested close finishes as long as the peer
\* keeps reading.
Spec == SafeSpec /\ WF_chanVars(Transmit) /\ WF_chanVars(Finish)
=============================================================================
