------------------------------ MODULE MCDirect ------------------------------
(* Direct for TLC: a node behind a router, and a tunnel to fall back on. *)
EXTENDS Direct

BehindRouter == {[manual |-> FALSE, fallback |-> TRUE, gateway |-> TRUE]}
=============================================================================
