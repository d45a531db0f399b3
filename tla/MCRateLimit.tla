----------------------------- MODULE MCRateLimit -----------------------------
(* RateLimit on a small instance. *)
EXTENDS RateLimit, TLC

CONSTANTS i1, i2, e1

MCWindow == [l \in Limiters |-> IF l = "api" THEN 1 ELSE 2]
MCMax == [l \in Limiters |-> IF l = "api" THEN 2 ELSE 1]

Symmetry == Permutations(Ips)
=============================================================================
