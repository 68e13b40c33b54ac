----------------------------- MODULE BlockServer -----------------------------
(***************************************************************************)
(* One session on one block server (commonnet/net/server.py over the KV    *)
(* cache of commonnet/block.py), as operators from a session record and a  *)
(* request to the record the handler leaves behind and its answer.  Every  *)
(* handler holds BlockServer._lock from its first read to its last write,  *)
(* so an operator here is one atomic step of the modules that use it.      *)
(*                                                                         *)
(* The cache is the sequence of the tokens fed at its positions: a layer's *)
(* entry at a position is a function of the tokens up to it, and a         *)
(* rollback only drops a suffix.  The answer to a forward is a function of *)
(* the whole cache after it, so it is modelled by that cache.  A session   *)
(* the block holds no cache for and one with an empty cache refuse the     *)
(* same requests, and are one state here.                                  *)
(*                                                                         *)
(* A definition whose name ends in Any, Never, Far, Whole, ... and that    *)
(* nothing uses is a plausible slip in the definition after it; the runs'  *)
(* properties are shown to reject it (PROJECT.json, mutants).              *)
(***************************************************************************)
EXTENDS Integers, Sequences

CONSTANT Token          \* what a position can hold

NoCut == -1             \* truncate_to=None

\* A request: the step key of a forward (start, tokens and cut; the output
\* mode rides in the tokens), or an open or a close with nothing in it.
Request == [op : {"open", "forward", "close"}, start : Nat,
            toks : Seq(Token), cut : Nat \cup {NoCut}]

OpenRequest == [op |-> "open", start |-> 0, toks |-> <<>>, cut |-> NoCut]
CloseRequest == [op |-> "close", start |-> 0, toks |-> <<>>, cut |-> NoCut]
ForwardRequest(start, toks, cut) ==
  [op |-> "forward", start |-> start, toks |-> toks, cut |-> cut]

Answer == [status : {200, 404, 500}, out : Seq(Token)]

\* _Session plus the block's cache.  last is {} or holds the one saved
\* reply; a session that is not open has neither.
Session == [open : BOOLEAN, kv : Seq(Token),
            last : SUBSET [key : Request, out : Seq(Token)]]

NoSession == [open |-> FALSE, kv |-> <<>>, last |-> {}]

Reply(s, status, out) ==
  [session |-> s, answer |-> [status |-> status, out |-> out]]

\* BlockRange.truncate: a cut at or past the end changes nothing.
CutBackFar(kv, n) == IF n >= Len(kv) THEN kv ELSE SubSeq(kv, 1, n - 1)
CutBack(kv, n) == IF n >= Len(kv) THEN kv ELSE SubSeq(kv, 1, n)

OpenSession(s) ==
  Reply(IF s.open THEN s ELSE [open |-> TRUE, kv |-> <<>>, last |-> {}], 200, <<>>)

CloseKeepsCache(s) == Reply(s, 200, <<>>)
CloseSession(s) == Reply(NoSession, 200, <<>>)

\* BlockRange.forward: start_pos 0 begins a new cache, any other must be the
\* length of the cache.
BlockAcceptsAny(kv, start) == TRUE
BlockAccepts(kv, start) == start = 0 \/ Len(kv) = start
BlockWrite(kv, r) == (IF r.start = 0 THEN <<>> ELSE kv) \o r.toks

SavedNever(s, r) == {}
SavedAny(s, r) == s.last
Saved(s, r) == {l \in s.last : l.key = r}
\* BlockServer.forward.  A cut that was made stays made when the block then
\* refuses the step, and the saved reply stays the one of the last step run.
RunForward(s, r) ==
  LET kv == IF r.cut = NoCut THEN s.kv ELSE CutBack(s.kv, r.cut) IN
  IF BlockAccepts(kv, r.start)
  THEN LET out == BlockWrite(kv, r) IN
       Reply([open |-> TRUE, kv |-> out, last |-> {[key |-> r, out |-> out]}], 200, out)
  ELSE Reply([open |-> s.open, kv |-> kv, last |-> s.last], 500, <<>>)

ForwardSession(s, r) ==
  IF ~s.open THEN Reply(s, 404, <<>>)
  ELSE IF Saved(s, r) # {}
       THEN Reply(s, 200, (CHOOSE l \in Saved(s, r) : TRUE).out)
       ELSE RunForward(s, r)

\* BlockServer._dispatch
Handle(s, r) == CASE r.op = "open" -> OpenSession(s)
                  [] r.op = "close" -> CloseSession(s)
                  [] r.op = "forward" -> ForwardSession(s, r)
=============================================================================
