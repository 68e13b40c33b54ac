------------------------------- MODULE Decoding -------------------------------
(***************************************************************************)
(* What a route stage promises the decoding loop of commonnet/client.py    *)
(* and commonnet/speculative.py: every reply the loop accepts was computed *)
(* over exactly the tokens the loop has kept plus the ones it just fed, as *)
(* if one block had held the session all along.  Timeouts, retries, lost   *)
(* replies, restarts and other servers do not show: they may only end the  *)
(* request.                                                                *)
(***************************************************************************)
EXTENDS Integers, Sequences

CONSTANTS Token,
          Pieces     \* the steps the loop can feed: non-empty sequences of tokens

VARIABLES
  text,     \* the tokens the loop has kept
  seen,     \* the cache the last accepted reply was computed over
  outcome   \* "running", "done" or "failed"

vars == <<text, seen, outcome>>

TypeOK == /\ text \in Seq(Token)
          /\ seen \in Seq(Token)
          /\ outcome \in {"running", "done", "failed"}

Init == text = <<>> /\ seen = <<>> /\ outcome = "running"

\* A step is answered.  Its tokens are kept up to position n: all of them,
\* or, when they were drafts, those the reply confirms.  The loop goes on or
\* is done.
Step(toks, n) ==
  /\ outcome = "running"
  /\ seen' = text \o toks
  /\ n \in Len(text) + 1 .. Len(text) + Len(toks)
  /\ text' = SubSeq(text \o toks, 1, n)
  /\ outcome' \in {"running", "done"}

End == /\ outcome = "running"
       /\ outcome' \in {"done", "failed"}
       /\ UNCHANGED <<text, seen>>

Next == \/ \E toks \in Pieces : \E n \in 1 .. Len(text) + Len(toks) : Step(toks, n)
        \/ End

Spec == Init /\ [][Next]_vars
=============================================================================
