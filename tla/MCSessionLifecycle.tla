------------------------- MODULE MCSessionLifecycle -------------------------
(* Small instances of SessionLifecycle. *)
EXTENDS SessionLifecycle
=============================================================================
