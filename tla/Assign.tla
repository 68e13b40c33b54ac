------------------------------- MODULE Assign -------------------------------
(***************************************************************************)
(* The whole network planned at once (commonnet/mesh/assign.py): windows   *)
(* that tile the model, each with a peer of its own, and a window for      *)
(* every other peer.  Peers join and drop out, and the plan is made again  *)
(* from the windows the peers then have.                                   *)
(*                                                                         *)
(* Peers are numbers, as their ids are ordered; all have one backend.      *)
(***************************************************************************)
EXTENDS Placement

CONSTANTS
  Peer,
  Network,     \* the manifest, as in Placement
  Speed,       \* per peer
  Gib          \* the memory peers may have

VARIABLES gib,          \* per peer
          live,         \* the peers whose records are live
          window,       \* per peer the window it serves, or NoWindow
          chain,        \* the windows of the last plan that tile the model, in order
          outcome       \* of the last plan, "none" once the network has changed since

vars == <<gib, live, window, chain, outcome>>

Init == /\ gib \in [Peer -> Gib]
        /\ live = {} /\ window = [p \in Peer |-> NoWindow] /\ chain = <<>> /\ outcome = "none"

-----------------------------------------------------------------------------
\* _fits, _peers: the fastest and largest first, then by id.
Fits(p, w) == WindowGib(Network, w, "any") <= gib[p]
Ordered(ps) == SetToSortSeq(ps, LAMBDA p, q : Less(<<-Speed[p], -gib[p], p>>, <<-Speed[q], -gib[q], q>>))

\* _tilings of the layers up to the boundary end.
Pairs(cuts) == [i \in 1 .. Len(cuts) - 1 |-> <<cuts[i], cuts[i + 1]>>]
Tilings(end) ==
  {Pairs(SetToSortSeq(inner \cup {0, end}, <)) :
     inner \in SUBSET {b \in ToSet(Network.boundaries) : 0 < b /\ b < end}}

\* _match: augmenting paths, from the pairs that are seeded.  `match' has the windows that have a
\* peer; seen are the peers this search has tried.
Owned(match, p) == \E w \in DOMAIN match : match[w] = p
Owner(match, p) == CHOOSE w \in DOMAIN match : match[w] = p
With(match, w, p) == [v \in DOMAIN match \cup {w} |-> IF v = w THEN p ELSE match[v]]
RECURSIVE Augment(_, _, _, _, _)
Augment(cands, w, k, match, seen) ==
  IF k > Len(cands[w]) THEN [ok |-> FALSE, match |-> match, seen |-> seen]
  ELSE LET p == cands[w][k]
           moved == Augment(cands, Owner(match, p), 1, match, seen \cup {p})
       IN CASE p \in seen -> Augment(cands, w, k + 1, match, seen)
            [] p \notin seen /\ ~Owned(match, p) ->
                 [ok |-> TRUE, match |-> With(match, w, p), seen |-> seen]
            [] p \notin seen /\ Owned(match, p) ->
                 IF moved.ok THEN [moved EXCEPT !.match = With(@, w, p)]
                 ELSE Augment(cands, w, k + 1, match, moved.seen)
NoMatch == [ok |-> FALSE, match |-> <<>>]
MatchGreedily(tiling, cands, seed) ==
  FoldLeft(LAMBDA m, w : IF ~m.ok \/ w \in DOMAIN m.match THEN m
                         ELSE LET free == SelectSeq(cands[w], LAMBDA p : ~Owned(m.match, p))
                              IN IF free = <<>> THEN NoMatch
                                 ELSE [ok |-> TRUE, match |-> With(m.match, w, free[1])],
           [ok |-> TRUE, match |-> seed], tiling)
Match(tiling, cands, seed) ==
  FoldLeft(LAMBDA m, w : IF ~m.ok \/ w \in DOMAIN m.match THEN m
                         ELSE Augment(cands, w, 1, m.match, {}),
           [ok |-> TRUE, match |-> seed], tiling)

-----------------------------------------------------------------------------
\* _assign: candidates that serve the window already first; those are seeded.
Candidates(tiling, ps, prev) ==
  [w \in ToSet(tiling) |->
     SetToSortSeq({p \in ps : Fits(p, w)},
                  LAMBDA p, q : Less(<<Rank(prev[p] = w), -Speed[p], p>>, <<Rank(prev[q] = w), -Speed[q], q>>))]
Seed(tiling, ps, prev) ==
  LET at(w) == SelectSeq(Ordered(ps), LAMBDA p : prev[p] = w /\ Fits(p, w))
  IN [w \in {v \in ToSet(tiling) : at(v) # <<>>} |-> at(w)[1]]
\* The peers that are not of the chain: where they are, or where placement puts them, one by one.
View(windows) == {[peer |-> p, window |-> windows[p]] : p \in {q \in DOMAIN windows : windows[q] # NoWindow}}
Chosen(windows, p) ==
  ChooseWindow(Network, View(windows), gib[p], "any", 0, [v \in Windows(Network) |-> 0])
SpreadAnew(match, ps, prev) ==
  FoldLeft(LAMBDA ws, p :
             IF \E w \in DOMAIN match : match[w] = p THEN ws
             ELSE [ws EXCEPT ![p] = Chosen(ws, p)],
           [p \in ps |-> IF \E w \in DOMAIN match : match[w] = p
                         THEN CHOOSE w \in DOMAIN match : match[w] = p ELSE NoWindow],
           Ordered(ps))
Spread(match, ps, prev) ==
  FoldLeft(LAMBDA ws, p :
             IF \E w \in DOMAIN match : match[w] = p THEN ws
             ELSE [ws EXCEPT ![p] = IF prev[p] # NoWindow /\ Fits(p, prev[p]) THEN prev[p] ELSE Chosen(ws, p)],
           [p \in ps |-> IF \E w \in DOMAIN match : match[w] = p
                         THEN CHOOSE w \in DOMAIN match : match[w] = p ELSE NoWindow],
           Ordered(ps))
\* The match of the tiling, or NoMatch.
Chain(tiling, ps, prev) ==
  LET cands == Candidates(tiling, ps, prev)
  IN IF \E w \in ToSet(tiling) : cands[w] = <<>> THEN NoMatch
     ELSE Match(tiling, cands, Seed(tiling, ps, prev))

\* plan: the fewest moves, then the fewest hops, then the fastest peers; then the order of the tilings.
Moved(prev, ws) == Cardinality({p \in DOMAIN ws : prev[p] # NoWindow /\ prev[p] # ws[p]})
Key(tiling, match, prev, ws) ==
  <<Moved(prev, ws), Len(tiling), -MapThenSumSet(LAMBDA w : Speed[match[w]], DOMAIN match)>>
    \o FoldLeft(LAMBDA s, w : s \o w, <<>>, tiling)
Plans(ps, prev) ==
  {[tiling |-> c.tiling, windows |-> c.windows, key |-> Key(c.tiling, c.match, prev, c.windows)] :
     c \in {[tiling |-> t, match |-> m.match, windows |-> Spread(m.match, ps, prev)] :
              <<t, m>> \in {x \in {<<t, Chain(t, ps, prev)>> : t \in Tilings(End(Network))} : x[2].ok}}}

\* _uncovered: the layers nobody can hold, or how far a chain of these peers reaches.
Gap(ps) == {s \in Stages(Network) : ~\E p \in ps : Fits(p, s)}
Reaches(ps) == {b \in ToSet(Network.boundaries) :
                  b = 0 \/ \E t \in Tilings(b) : Chain(t, ps, [p \in ps |-> NoWindow]).ok}
Reach(ps) == Max(Reaches(ps))

-----------------------------------------------------------------------------
Replan ==
  /\ outcome # "refused"
  /\ LET all == Plans(live, window)
     IN IF all = {} THEN /\ outcome' = "refused" /\ chain' = <<>> /\ UNCHANGED window
        ELSE LET best == CHOOSE c \in all : \A d \in all \ {c} : Less(c.key, d.key)
             IN /\ outcome' = "planned" /\ chain' = best.tiling
                /\ window' = [p \in Peer |-> IF p \in live THEN best.windows[p] ELSE NoWindow]
  /\ UNCHANGED <<gib, live>>
\* A peer joins, with no window yet or where placement.choose_window puts it; a peer drops out.
Join(p) == /\ p \notin live /\ live' = live \cup {p} /\ outcome' = "none"
           /\ \E w \in {NoWindow, Chosen([q \in live |-> window[q]], p)} : window' = [window EXCEPT ![p] = w]
           /\ UNCHANGED <<gib, chain>>
Drop(p) == /\ p \in live /\ live' = live \ {p} /\ outcome' = "none"
           /\ window' = [window EXCEPT ![p] = NoWindow] /\ UNCHANGED <<gib, chain>>

Next == Replan \/ \E p \in Peer : Join(p) \/ Drop(p)
Spec == Init /\ [][Next]_vars

-----------------------------------------------------------------------------
\* Types of the state.
TypeOK == /\ window \in [Peer -> Windows(Network) \cup {NoWindow}] /\ live \subseteq Peer
          /\ outcome \in {"none", "planned", "refused"}

\* Some tiling can be given to the peers ps, a peer each.
Coverable(ps, end) ==
  \E t \in Tilings(end) : \E f \in [DOMAIN t -> ps] :
    \A i \in DOMAIN t : Fits(f[i], t[i]) /\ \A j \in DOMAIN t : f[i] = f[j] => i = j
\* A plan tiles the model, every window of it has a peer, and no peer has more than it can hold.
PlanCovers == outcome = "planned" =>
  /\ Starts(Network, ToSet(chain)) = {0} \cup {w[2] : w \in ToSet(chain)} /\ chain[Len(chain)][2] = End(Network)
  /\ \A w \in ToSet(chain) : \E p \in live : window[p] = w
  /\ \A p \in live : window[p] # NoWindow => Fits(p, window[p])
\* The model is refused when there is no such plan, and only then; what the message says can be
\* reached is the most that can.
RefusedRightly ==
  /\ outcome = "refused" =>
       /\ ~Coverable(live, End(Network))
       /\ \A b \in ToSet(Network.boundaries) \ {0} : Coverable(live, b) <=> b <= Reach(live)
  /\ outcome = "planned" => Coverable(live, End(Network))
AssignSound == PlanCovers /\ RefusedRightly

\* The plan of a network that follows the plan is the same: nobody is moved.
Stable == [][outcome = "planned" /\ live' = live /\ outcome' = "planned" => window' = window]_vars

\* "the planner moves the fewest peers off their current windows" (assign.py:14).
Least ==
  LET moves(t) == {Cardinality({i \in DOMAIN t : window[f[i]] \notin {NoWindow, t[i]}}) :
                     f \in {g \in [DOMAIN t -> live] : \A i \in DOMAIN t :
                              Fits(g[i], t[i]) /\ \A j \in DOMAIN t : g[i] = g[j] => i = j}}
  IN Min(UNION {moves(t) : t \in Tilings(End(Network))})
FewestMoves ==
  [][outcome' = "planned" /\ live' = live => Moved(window, [p \in live |-> window'[p]]) <= Least]_vars
=============================================================================
