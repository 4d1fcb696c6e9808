--------------------------- MODULE MCGuestExecutor ---------------------------
(* Small instances of GuestExecutor. *)
EXTENDS GuestExecutor, TLC

Symmetry == Permutations(Execs)
=============================================================================
