--------------------------- MODULE MCHttpSession ---------------------------
(* One HTTP connection; every constant is a number or a flag.              *)
EXTENDS HttpSession
=============================================================================
