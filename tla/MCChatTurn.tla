----------------------------- MODULE MCChatTurn -----------------------------
(* Small instances of ChatTurn. *)
EXTENDS ChatTurn, TLC

Symmetry == Permutations(Msgs)
=============================================================================
