------------------------------ MODULE MCMcpExec ------------------------------
(* Model-checking instance of McpExec. *)
EXTENDS McpExec, TLC

Symmetry == Permutations(Pods)
=============================================================================
