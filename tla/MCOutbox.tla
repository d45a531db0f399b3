------------------------------ MODULE MCOutbox ------------------------------
(* Outbox on a small instance. *)
EXTENDS Outbox, TLC

Symmetry == Permutations(Workers)
=============================================================================
