------------------------------- MODULE Greedy -------------------------------
(***************************************************************************)
(* Plain greedy decoding, as the docstring of commonnet/speculative.py     *)
(* promises it: the tokens yielded are the network's own argmax, one after *)
(* the other, up to a stop token or to max_new_tokens.  The request may    *)
(* fail or be closed at any time.                                          *)
(***************************************************************************)
EXTENDS Integers, Sequences

CONSTANTS Vocab, Stop, MaxNew

VARIABLES
  answer,  \* the argmax of the network after the prompt and its own first i - 1 tokens
  said,    \* the tokens yielded
  ended    \* "no", "done" or "failed"

vars == <<answer, said, ended>>

Init == /\ answer \in [1..MaxNew + 1 -> Vocab]
        /\ said = <<>> /\ ended = "no"

Say == /\ ended = "no" /\ Len(said) < MaxNew /\ answer[Len(said) + 1] \notin Stop
       /\ said' = Append(said, answer[Len(said) + 1])
       /\ UNCHANGED <<answer, ended>>

Finish == /\ ended = "no"
          /\ Len(said) = MaxNew \/ answer[Len(said) + 1] \in Stop
          /\ ended' = "done" /\ UNCHANGED <<answer, said>>

Fail == ended = "no" /\ ended' = "failed" /\ UNCHANGED <<answer, said>>

Next == Say \/ Finish \/ Fail
Spec == Init /\ [][Next]_vars
=============================================================================
