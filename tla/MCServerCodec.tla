--------------------------- MODULE MCServerCodec ----------------------------
(* Two requests of one connection, both with the same id possible, and one job. *)
EXTENDS ServerCodec, TLC
=============================================================================
