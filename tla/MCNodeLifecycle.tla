--------------------------- MODULE MCNodeLifecycle ---------------------------
(* NodeLifecycle for TLC: two windows, no substitution needed. *)
EXTENDS NodeLifecycle

CONSTANTS front, rest
=============================================================================
