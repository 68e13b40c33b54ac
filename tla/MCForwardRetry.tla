--------------------------- MODULE MCForwardRetry ---------------------------
(* ForwardRetry for TLC: two tokens; drafts and late attempts, not both, or  *)
(* both.                                                                     *)
EXTENDS ForwardRetry

CONSTANTS a, b

OneHazard == {m \in [drafts : BOOLEAN, late : BOOLEAN] : ~(m.drafts /\ m.late)}
BothHazards == {[drafts |-> TRUE, late |-> TRUE]}
=============================================================================
