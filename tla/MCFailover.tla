----------------------------- MODULE MCFailover -----------------------------
(* Failover for TLC: one server is on the route, the network has another. *)
EXTENDS Failover

CONSTANTS s1, s2, a, b
OneServer == <<s1>>
=============================================================================
