------------------------- MODULE MCPoolConnection -------------------------
(***************************************************************************)
(* PoolConnection with the real capacity of notify (2) and a msgBuffChan   *)
(* small enough to fill up.                                                *)
(***************************************************************************)
EXTENDS PoolConnection
=============================================================================
