---------------------------- MODULE MCDnssecTrust ----------------------------
(* DnssecTrust on a small instance. *)
EXTENDS DnssecTrust
=============================================================================
