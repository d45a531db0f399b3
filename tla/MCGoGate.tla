------------------------------ MODULE MCGoGate ------------------------------
(* GoGate on a small instance. *)
EXTENDS GoGate, TLC

Symmetry == Permutations(Calls)
=============================================================================
