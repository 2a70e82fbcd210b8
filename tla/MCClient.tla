----------------------------- MODULE MCClient -----------------------------
(* A client with one size of message, whose backlog holds two frames.      *)
EXTENDS Client

CONSTANTS hello

MCMsgs == {hello}
MCSize == (hello :> 1)
=============================================================================
