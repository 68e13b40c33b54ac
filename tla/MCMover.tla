------------------------------- MODULE MCMover -------------------------------
(* Mover for TLC: two stages, both of which the first peer can hold; two that *)
(* it cannot hold together; and three of a planned network.                   *)
EXTENDS Mover

Whole == [boundaries |-> <<0, 2, 4>>, layer |-> [mlx |-> 1, cpu |-> 1], fixed |-> 1,
          io |-> [mlx |-> 0, cpu |-> 0], limit |-> 0]
Halves == [Whole EXCEPT !.fixed = 0, !.io = [mlx |-> 1, cpu |-> 1]]
Planned == [Whole EXCEPT !.boundaries = <<0, 2, 4, 6>>, !.limit = 4]
OnlyHalves == {Halves}
All == {Whole, Halves, Planned}
FirstLarge == [p \in Peer |-> IF p = 1 THEN 5 ELSE 3]
FirstCPU == [p \in Peer |-> IF p = 1 THEN "cpu" ELSE "mlx"]
MiddleHere == [p \in Peer |-> IF p = 3 THEN {<<2, 4>>} ELSE {}]
=============================================================================
