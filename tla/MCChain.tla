------------------------------ MODULE MCChain ------------------------------
(* Chain for TLC: two peers for each of two stages. *)
EXTENDS Chain

CONSTANTS p1, p2, q1, q2, a, b
TwoEach == <<<<p1, p2>>, <<q1, q2>>>>
=============================================================================
