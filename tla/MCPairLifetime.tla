--------------------------- MODULE MCPairLifetime ---------------------------
(* PairLifetime on a small instance. *)
EXTENDS PairLifetime
=============================================================================
