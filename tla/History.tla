------------------------------- MODULE History -------------------------------
(***************************************************************************)
(* The pieces of a request that its transport keeps as they were sent, so  *)
(* that it can feed them to another server (commonnet/net/transport.py,    *)
(* _history): a sequence of [start, toks], in the order of their starts.   *)
(***************************************************************************)
EXTENDS BlockServer

Piece == [start : Nat, toks : Seq(Token)]

\* _cut_history keeping whole a piece that starts before n and ends after it.
CutHistoryWhole(h, n) ==
  LET kept[i \in 0 .. Len(h)] ==
        IF i = 0 THEN <<>>
        ELSE IF h[i].start >= n THEN kept[i - 1]
        ELSE Append(kept[i - 1], h[i])
  IN kept[Len(h)]

\* _cut_history: the pieces from n on are dropped, one across n is cut.
CutHistory(h, n) ==
  LET kept[i \in 0 .. Len(h)] ==
        IF i = 0 THEN <<>>
        ELSE IF h[i].start >= n THEN kept[i - 1]
        ELSE Append(kept[i - 1], [h[i] EXCEPT !.toks = CutBack(@, n - h[i].start)])
  IN kept[Len(h)]

-----------------------------------------------------------------------------
\* The kept pieces h are the text t, one after the other and without a gap.
Tiles(h, t) ==
  /\ h = <<>> => t = <<>>
  /\ h # <<>> => h[1].start = 0 /\ h[Len(h)].start + Len(h[Len(h)].toks) = Len(t)
  /\ \A i \in 1 .. Len(h) - 1 : h[i + 1].start = h[i].start + Len(h[i].toks)
  /\ \A i \in 1 .. Len(h) :
       /\ h[i].toks # <<>> /\ h[i].start + Len(h[i].toks) <= Len(t)
       /\ \A j \in 1 .. Len(h[i].toks) : h[i].toks[j] = t[h[i].start + j]
=============================================================================
