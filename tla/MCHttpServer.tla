---------------------------- MODULE MCHttpServer ----------------------------
(* An HTTP server of two peers.  With a limit of one session the sweep and  *)
(* closeHttpAll() never have two sessions to put in an order, so that the   *)
(* peers are symmetric.                                                     *)
EXTENDS HttpServer

CONSTANTS c1, c2

MCConns == {c1, c2}
Peers == Permutations(MCConns)
=============================================================================
