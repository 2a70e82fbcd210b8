---------------------------- MODULE MCTcpServer ----------------------------
(* A server of two peers.                                                  *)
EXTENDS TcpServer

CONSTANTS c1, c2

MCConns == {c1, c2}
=============================================================================
