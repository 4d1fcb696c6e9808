---------------------------- MODULE MCIpcService ----------------------------
(* Model-checking instance of IpcService. *)
EXTENDS IpcService, TLC

Symmetry == Permutations(Idents) \cup Permutations(Shutdowns)
=============================================================================
