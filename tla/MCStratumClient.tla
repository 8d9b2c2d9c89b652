-------------------------- MODULE MCStratumClient ---------------------------
(* Two callers, a buffer that two notifications overfill, and two messages  *)
(* of the server.                                                           *)
EXTENDS StratumClient
=============================================================================
