----------------------------- MODULE Placement -----------------------------
(***************************************************************************)
(* Where a joining peer should serve, whether a serving one should move,   *)
(* and which peers a request passes through (commonnet/mesh/placement.py): *)
(* functions of a manifest and of the live records.                        *)
(*                                                                         *)
(* A manifest is [boundaries, layer, fixed, io, limit]: the layer numbers  *)
(* a window may start and end on, the memory of a layer, of any window and *)
(* of each end of the model, by backend where the code has it by backend,  *)
(* and max_window_layers, 0 where the manifest has none.  A record is      *)
(* [peer, window, gib, backend, age]; `live` holds those of the peers      *)
(* whose state is "up", the only ones the code looks at.  Peers are        *)
(* numbers, as their ids are ordered.  Penalties are in quarters.          *)
(***************************************************************************)
EXTENDS Integers, Sequences, SequencesExt, FiniteSets, FiniteSetsExt

NoWindow == <<>>
NoRoute == <<>>

\* Manifest: stages, is_window, window_gib, windows_fitting.
End(m) == Last(m.boundaries)
Stages(m) == {<<m.boundaries[i], m.boundaries[i + 1]>> : i \in 1 .. Len(m.boundaries) - 1}
Windows(m) == {w \in ToSet(m.boundaries) \X ToSet(m.boundaries) : w[1] < w[2]}
Length(w) == w[2] - w[1]
Covers(w, s) == w[1] <= s[1] /\ s[2] <= w[2]

WindowGib(m, w, backend) ==
  m.fixed + Length(w) * m.layer[backend]
    + m.io[backend] * Cardinality({e \in {0, 1} : IF e = 0 THEN w[1] = 0 ELSE w[2] = End(m)})
Fitting(m, gib, backend) ==
  {w \in Windows(m) : /\ WindowGib(m, w, backend) <= gib
                      /\ m.limit # 0 => Length(w) <= m.limit}

\* coverage and replica_counts.
Coverage(live, s) == Cardinality({r \in live : Covers(r.window, s)})
Replicas(live, w) == Cardinality({r \in live : r.window = w})
Uncovered(m, live) == {s \in Stages(m) : Coverage(live, s) = 0}

Less(s, t) == \E i \in DOMAIN s : s[i] < t[i] /\ \A j \in 1 .. i - 1 : s[j] = t[j]
Rank(test) == IF test THEN 0 ELSE 1

\* Every window taken for the end of a chain.
StartsAny(m, windows) == {0} \cup {w[2] : w \in windows}

\* The boundaries a chain of the windows reaches from layer 0, and those from
\* which one reaches the end.
Starts(m, windows) ==
  LET on[i \in DOMAIN m.boundaries] ==
        \/ i = 1
        \/ \E j \in 1 .. i - 1 : on[j] /\ <<m.boundaries[j], m.boundaries[i]>> \in windows
  IN {m.boundaries[i] : i \in {j \in DOMAIN m.boundaries : on[j]}}
Ends(m, windows) ==
  LET on[i \in 1 .. Len(m.boundaries)] ==
        \/ i = 1
        \/ \E j \in 1 .. i - 1 :
             /\ on[j]
             /\ <<m.boundaries[Len(m.boundaries) + 1 - i],
                  m.boundaries[Len(m.boundaries) + 1 - j]>> \in windows
  IN {m.boundaries[Len(m.boundaries) + 1 - i] : i \in {j \in DOMAIN m.boundaries : on[j]}}

\* chain_rank, with the boundaries a chain reaches from either end and the
\* stages nobody serves: first a window over such a stage, then one that joins
\* a prefix to a suffix, then the one that takes the prefix furthest.
ChainRank(starts, ends, none, w) ==
  LET extends == w[1] \in starts /\ w[2] > Max(starts)
  IN <<Rank(none = {} \/ \E s \in none : Covers(w, s)),
       Rank(w[1] \in starts /\ w[2] \in ends),
       Rank(extends), IF extends THEN -w[2] ELSE 0>>

\* The sum over the stages of w of 1 / (1 + coverage), times a common multiple.
Score(cov, unit, w) ==
  MapThenSumSet(LAMBDA s : unit \div (1 + cov[s]), {s \in DOMAIN cov : Covers(w, s)})

\* The minimum of choose_window over the windows that fit, by the n others' coverage
\* of the stages and their replicas of the windows.  A planned network is first given
\* a chain, then replicas of the windows it has.  cached is what is on disk, by window.
Preferred(m, fitting, n, cov, replicas, cached) ==
  LET windows == DOMAIN replicas
      unit == ProductSet(1 .. n + 1)   \* n others at most cover a stage
      starts == Starts(m, windows)
      ends == Ends(m, windows)
      none == {s \in Stages(m) : cov[s] = 0}
      chained == End(m) \in starts
      repeatable == m.limit # 0 /\ chained /\ fitting \cap windows # {}
      onDisk == \E v \in Windows(m) : cached[v] > 0
      chain(w) == IF m.limit = 0 \/ chained THEN <<>> ELSE ChainRank(starts, ends, none, w)
      existing(w) == IF w \in windows THEN replicas[w] ELSE 0
      replica(w) == IF repeatable THEN <<existing(w)>> ELSE <<>>
      disk(w) == IF onDisk
                 THEN <<Rank(none = {} \/ \E s \in none : Covers(w, s)), -cached[w]>>
                 ELSE <<>>
      rest(w) == <<-Score(cov, unit, w), -Length(w),
                   Rank(w \in windows), existing(w), w[1]>>
      ranked == {<<chain(w) \o replica(w) \o disk(w) \o rest(w), w>> :
                   w \in IF repeatable THEN fitting \cap windows ELSE fitting}
  IN IF ranked = {} THEN NoWindow
     ELSE (CHOOSE x \in ranked : \A y \in ranked \ {x} : Less(x[1], y[1]))[2]

\* choose_window.
ChooseWindow(m, all, gib, backend, me, cached) ==
  LET live == {r \in all : r.peer # me}
  IN Preferred(m, Fitting(m, gib, backend), Cardinality(live),
               [s \in Stages(m) |-> Coverage(live, s)],
               [w \in {r.window : r \in live} |-> Replicas(live, w)], cached)

\* Every stage of a window w has another peer; more than one other.
TwinnedTwice(m, live, w) == \A s \in Stages(m) : Covers(w, s) => Coverage(live, s) >= 3
Twinned(m, live, w) == \A s \in Stages(m) : Covers(w, s) => Coverage(live, s) >= 2

\* should_move: a new window for `me`, or NoWindow.
ShouldMove(m, live, me) ==
  LET mine == {r \in live : r.peer = me}
      none == Uncovered(m, live)
      r == CHOOSE x \in mine : TRUE
      new == ChooseWindow(m, live, r.gib, r.backend, me, [v \in Windows(m) |-> 0])
  IN IF /\ mine # {} /\ none # {}
        /\ Twinned(m, live, r.window)
        /\ new \in Fitting(m, r.gib, r.backend) \ {r.window}
        /\ \E s \in none : Covers(new, s)
     THEN new ELSE NoWindow

-----------------------------------------------------------------------------
\* best_route

\* _penalty: up to 1 for the age of the record, 1/2 for a change of backend,
\* 1/2 for another one than is preferred, 1/4 for a CPU.
Quarters(test, n) == IF test THEN n ELSE 0
Penalty(r, previous, prefer) ==
  r.age + Quarters(previous # "" /\ r.backend # previous, 2)
        + Quarters(prefer # "" /\ r.backend # prefer, 2)
        + Quarters(r.backend = "cpu", 1)

\* One entry of `best` more: the hop over window w after entry e, on the peer
\* of the lowest penalty, then id.
Pick(live, e, w, prefer) ==
  LET key(r) == <<Penalty(r, e.backend, prefer), r.peer>>
      group == {r \in live : r.window = w}
  IN CHOOSE r \in group : \A q \in group \ {r} : Less(key(r), key(q))
Extend(live, e, w, prefer) ==
  LET pick == Pick(live, e, w, prefer)
  IN [backend |-> pick.backend, hops |-> e.hops + 1,
      penalty |-> e.penalty + Penalty(pick, e.backend, prefer),
      path |-> Append(e.path, pick)]

\* The two the other way round.
CheaperPenalty(e, f) == Less(<<e.penalty, e.hops>>, <<f.penalty, f.hops>>)
Cheaper(e, f) == Less(<<e.hops, e.penalty>>, <<f.hops, f.penalty>>)
Cheapest(entries) == CHOOSE e \in entries : \A f \in entries : ~Cheaper(f, e)

\* best, by boundary: the cheapest entry for each backend of the last hop.
\* Among equals the code keeps the first it meets.
Reaching(m, live, prefer, best, i) ==
  UNION {{Extend(live, e, <<m.boundaries[j], m.boundaries[i]>>, prefer) : e \in best[j]} :
           j \in {k \in 1 .. i - 1 : Replicas(live, <<m.boundaries[k], m.boundaries[i]>>) > 0}}
At(m, live, prefer, start, best, i) ==
  IF m.boundaries[i] = start THEN {[backend |-> "", hops |-> 0, penalty |-> 0, path |-> <<>>]}
  ELSE LET entries == Reaching(m, live, prefer, best, i)
       IN {Cheapest({e \in entries : e.backend = k}) : k \in {e.backend : e \in entries}}
Best(m, live, prefer, start) ==
  LET best[i \in DOMAIN m.boundaries] == At(m, live, prefer, start, best, i) IN best

\* The other peers of a hop's window, those of its backend first, then the freshest.
Sooner(p, q, r) == Less(<<Rank(p.backend = r.backend), p.age, p.peer>>,
                        <<Rank(q.backend = r.backend), q.age, q.peer>>)
Alternates(live, r) ==
  LET others == {q \in live : q.window = r.window /\ q.peer # r.peer}
  IN [i \in 1 .. Cardinality(others) |->
        CHOOSE q \in others : Cardinality({p \in others : Sooner(p, q, r)}) = i - 1]
Route(m, live, prefer, start) ==
  LET finals == Best(m, live, prefer, start)[Len(m.boundaries)]
      path == Cheapest(finals).path
  IN IF finals = {} THEN NoRoute
     ELSE [i \in DOMAIN path |-> [primary |-> path[i], alternates |-> Alternates(live, path[i])]]
=============================================================================
