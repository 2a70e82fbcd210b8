--------------------------- MODULE MCConnection ---------------------------
(* A connection of two message sizes whose backlog holds two short frames  *)
(* or a short one and a long one, with two bytes of header.                *)
EXTENDS Connection

CONSTANTS short, long

MCMsgs == {short, long}
MCSize == (short :> 1) @@ (long :> 3)
=============================================================================
