------------------------------- MODULE MCPmm -------------------------------
(* Pmm on a memory of a few pages. *)
EXTENDS Pmm, TLC
Symmetry == Permutations(Client)
=============================================================================
