----------------------------- MODULE MoverProofs -----------------------------
(***************************************************************************)
(* Where peers hold one stage each and those that can hold the same stage  *)
(* can hold the same ones, no move takes the last peer from a stage, for   *)
(* any number of peers and stages, any hardware and any gossip; and every  *)
(* route is a shortest chain.                                              *)
(***************************************************************************)
EXTENDS Mover, FiniteSetTheorems, WellFoundedInduction, TLAPS

\* Manifest.validate: at least two boundaries, and they rise strictly (manifest.py:76).
Rising == \A m \in Manifests :
            /\ m.boundaries \in Seq(Nat) /\ Len(m.boundaries) >= 2
            /\ \A i, j \in DOMAIN m.boundaries : i < j => m.boundaries[i] < m.boundaries[j]

-----------------------------------------------------------------------------
\* Numbers and finite sets.

\* The order of the numbers as a set of pairs, which the recursive searches are founded on.
LEMMA NatOrder == \E R : /\ IsWellFoundedOn(R, Nat)
                         /\ \A y, x \in Nat : y < x => <<y, x>> \in R
<1>1. IsWellFoundedOn(OpToRel(<, Nat), Nat)
  BY NatLessThanWellFounded
<1>2. \A y, x \in Nat : y < x => <<y, x>> \in OpToRel(<, Nat)
  BY DEF OpToRel
<1> QED BY <1>1, <1>2, Zenon

\* Min of a set of numbers is its least.
LEMMA MinIs ==
  ASSUME NEW T, T \subseteq Nat, T # {}
  PROVE  Min(T) \in T /\ \A y \in T : Min(T) <= y
<1>1. PICK R : /\ IsWellFoundedOn(R, Nat)
               /\ \A y, x \in Nat : y < x => <<y, x>> \in R
  BY NatOrder
<1>2. IsWellFoundedOn(R, Nat)
  BY <1>1
<1>3. PICK x \in T : \A y \in T : ~ (<<y, x>> \in R)
  BY <1>2, WFMin
<1>4. \A y \in T : x \in Nat /\ y \in Nat /\ ~ (y < x)
  BY <1>1, <1>3
<1>5. \E z \in T : \A y \in T : z <= y
  BY <1>4
<1> QED BY <1>5 DEF Min

\* Leaving out one or the other of two members, or of two that are no members.
LEMMA OneLess ==
  ASSUME NEW X, IsFiniteSet(X), NEW a, NEW b, a \in X <=> b \in X
  PROVE  Cardinality(X \ {a}) = Cardinality(X \ {b})
<1>1. Cardinality(X \ {a}) = IF a \in X THEN Cardinality(X) - 1 ELSE Cardinality(X)
  BY FS_RemoveElement
<1>2. Cardinality(X \ {b}) = IF b \in X THEN Cardinality(X) - 1 ELSE Cardinality(X)
  BY FS_RemoveElement
<1> QED BY <1>1, <1>2

\* A set with a member counts more than nothing, and one of two has another.
LEMMA Counted ==
  ASSUME NEW X, IsFiniteSet(X)
  PROVE  /\ Cardinality(X) > 0 <=> X # {}
         /\ \A a : Cardinality(X) >= 2 => \E b \in X : b # a
<1>1. Cardinality(X) \in Nat /\ (Cardinality(X) = 0 <=> X = {})
  BY FS_CardinalityType, FS_EmptySet
<1>2. ASSUME NEW a, Cardinality(X) >= 2, \A b \in X : b = a PROVE FALSE
  <2>1. X \in SUBSET {a}
    BY <1>2
  <2>2. IsFiniteSet({a}) /\ Cardinality({a}) = 1
    BY FS_Singleton
  <2>3. Cardinality(X) <= Cardinality({a})
    BY <2>1, <2>2, FS_Subset
  <2> QED BY <1>1, <1>2, <2>2, <2>3
<1> QED BY <1>1, <1>2

-----------------------------------------------------------------------------
\* Records and windows.

\* A window that fits a peer is one of the manifest's, and not the empty one.
LEMMA WindowIs ==
  ASSUME NEW p \in Peer, NEW w \in Fits(p)
  PROVE  w \in Windows(manifest) /\ w # NoWindow
<1>1. w \in Windows(manifest)
  BY DEF Fits, Fitting
<1>2. PICK a, b : w = <<a, b>>
  BY <1>1 DEF Windows
<1>3. Len(<<a, b>>) = 2 /\ Len(<<>>) = 0
  OBVIOUS
<1> QED BY <1>1, <1>2, <1>3 DEF NoWindow

\* What a table shows: one record per peer with a window.
LEMMA LiveIs ==
  ASSUME NEW known
  PROVE  /\ IsFiniteSet(Live(known))
         /\ \A q \in Peer : known[q] # NoWindow => Record(q, known[q]) \in Live(known)
         /\ \A r \in Live(known) : /\ r.peer \in Peer /\ known[r.peer] # NoWindow
                                   /\ r = Record(r.peer, known[r.peer])
                                   /\ r.window = known[r.peer]
<1> DEFINE P == {q \in Peer : known[q] # NoWindow}
           f == [q \in P |-> Record(q, known[q])]
<1>1. Live(known) = {Record(q, known[q]) : q \in P}
  BY DEF Live
<1>2. IsFiniteSet(P)
  <2>1. P \in SUBSET Peer
    OBVIOUS
  <2> QED BY <2>1, MoverAssumption, FS_Subset
<1>3. f \in Surjection(P, Live(known))
  BY <1>1 DEF Surjection
<1>4. IsFiniteSet(Live(known))
  BY <1>2, <1>3, FS_Surjection
<1>5. \A q \in Peer : Record(q, known[q]).peer = q /\ Record(q, known[q]).window = known[q]
  BY DEF Record
<1> QED BY <1>1, <1>4, <1>5

\* A stage covers no other.
LEMMA OneStage ==
  ASSUME Rising, manifest \in Manifests,
         NEW s \in Stages(manifest), NEW w \in Stages(manifest), Covers(w, s)
  PROVE  w = s
<1> DEFINE b == manifest.boundaries
<1>1. b \in Seq(Nat) /\ \A i, j \in DOMAIN b : i < j => b[i] < b[j]
  BY DEF Rising
<1>2. PICK i \in 1..Len(b) - 1 : w = <<b[i], b[i + 1]>>
  BY DEF Stages
<1>3. PICK j \in 1..Len(b) - 1 : s = <<b[j], b[j + 1]>>
  BY DEF Stages
<1> HIDE DEF b
<1>4. b[i] <= b[j] /\ b[j + 1] <= b[i + 1]
  BY <1>2, <1>3 DEF Covers
<1>5. /\ i \in DOMAIN b /\ i + 1 \in DOMAIN b /\ j \in DOMAIN b /\ j + 1 \in DOMAIN b
      /\ b[i] \in Nat /\ b[j] \in Nat /\ b[i + 1] \in Nat /\ b[j + 1] \in Nat
  BY <1>1
<1>6. ~(j < i) /\ ~(i + 1 < j + 1)
  BY <1>1, <1>4, <1>5
<1>7. i = j
  BY <1>6
<1> QED BY <1>2, <1>3, <1>7

\* A stage covers itself.
LEMMA SelfCovers ==
  ASSUME Rising, manifest \in Manifests, NEW s \in Stages(manifest)
  PROVE  Covers(s, s)
  BY DEF Rising, Stages, Covers


-----------------------------------------------------------------------------
\* What a peer decides.

\* The windows a table shows are those of peers who can hold them.
Seen(known) == \A q \in Peer : known[q] # NoWindow => known[q] \in Fits(q)

Nothing == [v \in Windows(manifest) |-> 0]
Chooses(known, p) == ChooseWindow(manifest, Live(known), Gib[p], Backend[p], p, Nothing)
Moves(known, p) == ShouldMove(manifest, Live(known), p)

\* Two that serve the same window and can hold the same ones choose the same: without the
\* one or the other the same stages are covered as often, by the same windows.
LEMMA SameChoice ==
  ASSUME NEW known, NEW p \in Peer, NEW q \in Peer,
         known[p] # NoWindow, known[q] = known[p], Fits(q) = Fits(p)
  PROVE  Chooses(known, q) = Chooses(known, p)
<1> DEFINE L == Live(known)
           a == Record(p, known[p])
           b == Record(q, known[q])
           La == {r \in L : r.peer # p}
           Lb == {r \in L : r.peer # q}
<1>1. /\ IsFiniteSet(L) /\ a \in L /\ b \in L /\ a.window = b.window
      /\ \A r \in L : (r.peer = p => r = a) /\ (r.peer = q => r = b)
      /\ a.peer = p /\ b.peer = q
  BY LiveIs DEF Record
<1>2. La = L \ {a} /\ Lb = L \ {b}
  BY <1>1
<1>3. Cardinality(La) = Cardinality(Lb)
  BY <1>1, <1>2, OneLess
<1>4. ASSUME NEW s PROVE Coverage(La, s) = Coverage(Lb, s)
  <2> DEFINE X == {r \in L : Covers(r.window, s)}
  <2>1. IsFiniteSet(X)
    <3>1. X \in SUBSET L
      OBVIOUS
    <3> QED BY <1>1, <3>1, FS_Subset
  <2>2. a \in X <=> b \in X
    BY <1>1
  <2>3. Cardinality(X \ {a}) = Cardinality(X \ {b})
    BY <2>1, <2>2, OneLess
  <2>4. {r \in La : Covers(r.window, s)} = X \ {a} /\ {r \in Lb : Covers(r.window, s)} = X \ {b}
    BY <1>2
  <2> QED BY <2>3, <2>4 DEF Coverage
<1>5. ASSUME NEW w PROVE Replicas(La, w) = Replicas(Lb, w)
  <2> DEFINE X == {r \in L : r.window = w}
  <2>1. IsFiniteSet(X)
    <3>1. X \in SUBSET L
      OBVIOUS
    <3> QED BY <1>1, <3>1, FS_Subset
  <2>2. a \in X <=> b \in X
    BY <1>1
  <2>3. Cardinality(X \ {a}) = Cardinality(X \ {b})
    BY <2>1, <2>2, OneLess
  <2>4. {r \in La : r.window = w} = X \ {a} /\ {r \in Lb : r.window = w} = X \ {b}
    BY <1>2
  <2> QED BY <2>3, <2>4 DEF Replicas
<1>6. {r.window : r \in La} = {r.window : r \in Lb}
  <2>1. CASE p = q
    BY <2>1
  <2>2. CASE p # q
    <3>1. a \in Lb /\ b \in La
      BY <1>1, <2>2
    <3>2. \A r \in La : \E t \in Lb : t.window = r.window
      BY <1>1, <1>2, <3>1
    <3>3. \A r \in Lb : \E t \in La : t.window = r.window
      BY <1>1, <1>2, <3>1
    <3> QED BY <3>2, <3>3
  <2> QED BY <2>1, <2>2
<1> HIDE DEF L, a, b, La, Lb
<1>7. [s \in Stages(manifest) |-> Coverage(La, s)] = [s \in Stages(manifest) |-> Coverage(Lb, s)]
  BY <1>4
<1>8. [w \in {r.window : r \in La} |-> Replicas(La, w)] = [w \in {r.window : r \in Lb} |-> Replicas(Lb, w)]
  BY <1>5, <1>6
<1>9. /\ Chooses(known, p) = Preferred(manifest, Fits(p), Cardinality(La),
                                       [s \in Stages(manifest) |-> Coverage(La, s)],
                                       [w \in {r.window : r \in La} |-> Replicas(La, w)], Nothing)
      /\ Chooses(known, q) = Preferred(manifest, Fits(q), Cardinality(Lb),
                                       [s \in Stages(manifest) |-> Coverage(Lb, s)],
                                       [w \in {r.window : r \in Lb} |-> Replicas(Lb, w)], Nothing)
  BY DEF Chooses, ChooseWindow, Fits, La, Lb, L
<1> QED BY <1>3, <1>7, <1>8, <1>9

\* should_move of a peer that has a window.
LEMMA MovesIs ==
  ASSUME NEW known, NEW p \in Peer, known[p] # NoWindow
  PROVE  Moves(known, p) =
           IF /\ Uncovered(manifest, Live(known)) # {}
              /\ Twinned(manifest, Live(known), known[p])
              /\ Chooses(known, p) \in Fits(p) \ {known[p]}
              /\ \E s \in Uncovered(manifest, Live(known)) : Covers(Chooses(known, p), s)
           THEN Chooses(known, p) ELSE NoWindow
<1> DEFINE mine == {r \in Live(known) : r.peer = p}
           x == CHOOSE r \in mine : TRUE
<1>1. mine = {Record(p, known[p])}
  BY LiveIs DEF Record
<1>2. x = Record(p, known[p]) /\ mine # {}
  BY <1>1
<1> HIDE DEF x
<1>3. x.gib = Gib[p] /\ x.backend = Backend[p] /\ x.window = known[p]
  BY <1>2 DEF Record
<1>4. ChooseWindow(manifest, Live(known), x.gib, x.backend, p, [v \in Windows(manifest) |-> 0])
        = Chooses(known, p)
  BY <1>3 DEF Chooses, Nothing
<1>5. Fitting(manifest, x.gib, x.backend) = Fits(p)
  BY <1>3 DEF Fits
<1> HIDE DEF mine
<1>6. Moves(known, p) =
        IF /\ mine # {} /\ Uncovered(manifest, Live(known)) # {}
           /\ Twinned(manifest, Live(known), x.window)
           /\ ChooseWindow(manifest, Live(known), x.gib, x.backend, p, [v \in Windows(manifest) |-> 0])
                \in Fitting(manifest, x.gib, x.backend) \ {x.window}
           /\ \E s \in Uncovered(manifest, Live(known)) :
                Covers(ChooseWindow(manifest, Live(known), x.gib, x.backend, p,
                                    [v \in Windows(manifest) |-> 0]), s)
        THEN ChooseWindow(manifest, Live(known), x.gib, x.backend, p, [v \in Windows(manifest) |-> 0])
        ELSE NoWindow
  BY DEF Moves, ShouldMove, mine, x
<1> QED BY <1>2, <1>3, <1>4, <1>5, <1>6


\* A peer that would move leaves another behind, as it believes, and moves to what it can
\* hold.
LEMMA MovesWhen ==
  ASSUME NEW known, NEW p \in Peer, Moves(known, p) # NoWindow
  PROVE  /\ known[p] # NoWindow
         /\ Moves(known, p) \in Fits(p) \ {known[p]}
         /\ Twinned(manifest, Live(known), known[p])
<1>1. known[p] # NoWindow
  <2> SUFFICES ASSUME known[p] = NoWindow PROVE FALSE
    OBVIOUS
  <2>1. {r \in Live(known) : r.peer = p} = {}
    BY LiveIs
  <2> QED BY <2>1 DEF Moves, ShouldMove
<1>2. Moves(known, p) = Chooses(known, p) /\ Chooses(known, p) \in Fits(p) \ {known[p]}
      /\ Twinned(manifest, Live(known), known[p])
  BY <1>1, MovesIs
<1> QED BY <1>1, <1>2

\* Where every peer holds one stage, it believes some other to serve that very one.
LEMMA Twin ==
  ASSUME Rising, manifest \in Manifests, Alike,
         NEW known, Seen(known), NEW p \in Peer, Moves(known, p) # NoWindow
  PROVE  \E q \in Peer : q # p /\ known[q] = known[p] /\ Fits(q) = Fits(p)
<1> DEFINE X == {r \in Live(known) : Covers(r.window, known[p])}
<1>1. known[p] \in Fits(p) /\ known[p] \in Stages(manifest) /\ known[p] # NoWindow
  BY MovesWhen DEF Seen, Alike
<1>2. IsFiniteSet(X)
  <2>1. X \in SUBSET Live(known) /\ IsFiniteSet(Live(known))
    BY LiveIs
  <2> QED BY <2>1, FS_Subset
<1>3. Cardinality(X) >= 2
  <2>1. Twinned(manifest, Live(known), known[p])
    BY MovesWhen
  <2>2. Covers(known[p], known[p])
    BY <1>1, SelfCovers
  <2> QED BY <1>1, <2>1, <2>2 DEF Twinned, Coverage
<1>4. PICK r \in X : r # Record(p, known[p])
  BY <1>2, <1>3, Counted
<1>5. /\ r.peer \in Peer /\ r.peer # p /\ known[r.peer] # NoWindow
      /\ r.window = known[r.peer] /\ Covers(known[r.peer], known[p])
  BY <1>4, LiveIs
<1>6. known[r.peer] \in Fits(r.peer) /\ known[r.peer] \in Stages(manifest)
  BY <1>5 DEF Seen, Alike
<1>7. known[r.peer] = known[p]
  BY <1>1, <1>5, <1>6, OneStage
<1>8. Fits(r.peer) = Fits(p)
  BY <1>1, <1>5, <1>6, <1>7 DEF Alike
<1> QED BY <1>5, <1>7, <1>8

\* Of two that would move from the same stage the one with the lower id does.
LEMMA LowestMoves ==
  ASSUME NEW known, NEW p \in Peer, NEW q \in Peer,
         \E c \in Mover(Live(known), p) : c[1] = p,
         q # p, known[q] = known[p], Fits(q) = Fits(p)
  PROVE  q > p
<1> DEFINE eligible == {x \in Peer : Moves(known, x) # NoWindow}
<1>1. /\ eligible # {} /\ p = Min(eligible)
  BY DEF Mover, Moves
<1>2. p \in eligible /\ \A y \in eligible : p <= y
  BY <1>1, MinIs, MoverAssumption
<1>3. known[p] # NoWindow
  BY <1>2, MovesWhen
<1>4. Chooses(known, q) = Chooses(known, p)
  BY <1>3, SameChoice
<1>5. Moves(known, q) = Moves(known, p)
  BY <1>3, <1>4, MovesIs
<1>6. p <= q /\ p \in Nat /\ q \in Nat
  BY <1>2, <1>5, MoverAssumption
<1> QED BY <1>6

\* Whoever is chosen can hold what it moves to.
LEMMA ChosenFits ==
  ASSUME NEW known, NEW p \in Peer, NEW c \in Mover(Live(known), p)
  PROVE  c[1] \in Peer /\ c[2] \in Fits(c[1]) /\ Moves(known, c[1]) # NoWindow
<1> DEFINE eligible == {x \in Peer : Moves(known, x) # NoWindow}
<1>1. /\ eligible # {} /\ c = <<Min(eligible), Moves(known, Min(eligible))>>
  BY DEF Mover, Moves
<1>2. Min(eligible) \in eligible
  BY <1>1, MinIs, MoverAssumption
<1>3. Moves(known, Min(eligible)) \in Fits(Min(eligible))
  BY <1>2, MovesWhen
<1> QED BY <1>1, <1>2, <1>3


-----------------------------------------------------------------------------
\* Types: with what TypeOK says, a table shows a peer with windows that peer can hold.
NodesOK == /\ node \in [Peer -> {"out", "starting", "up", "looking", "moving", "stuck"}]
           /\ window \in [Peer -> Windows(manifest) \cup {NoWindow}]
           /\ \A p \in Peer : /\ node[p] = "out" <=> window[p] = NoWindow
                              /\ node[p] # "out" => window[p] \in Fits(p)
ViewsOK == /\ view \in [Peer -> [Peer -> Windows(manifest) \cup {NoWindow}]]
           /\ \A p \in Peer : view[p][p] = NoWindow /\ Seen(view[p])
RestOK == manifest \in Manifests /\ cooling \subseteq Peer /\ faults \in 0..MaxFaults
Types == NodesOK /\ ViewsOK /\ RestOK

\* The named parts say all that TypeOK does.
LEMMA TypesSay == Types => TypeOK
  BY DEF Types, NodesOK, ViewsOK, RestOK, TypeOK

\* The types hold at the start.
LEMMA InitTypes == Init => Types
<1> SUFFICES ASSUME Init PROVE Types
  OBVIOUS
<1> USE MoverAssumption DEF Init
<1>1. NodesOK
  BY DEF NodesOK
<1>2. ViewsOK
  BY DEF ViewsOK, Seen
<1>3. RestOK
  BY DEF RestOK
<1> QED BY <1>1, <1>2, <1>3 DEF Types

\* What a peer serves fits it.
LEMMA ServingFits ==
  ASSUME Types, NEW p \in Peer
  PROVE  /\ Serving(p) \in Windows(manifest) \cup {NoWindow}
         /\ Serving(p) # NoWindow => Serving(p) \in Fits(p)
         /\ node[p] \in {"up", "looking"} => Serving(p) # NoWindow /\ Serving(p) = window[p]
  BY WindowIs DEF Types, NodesOK, Serving

\* What a peer believes is what it has seen of others and what it serves itself.
LEMMA BelievedSeen ==
  ASSUME Types, NEW p \in Peer
  PROVE  Seen(Believed(p)) /\ Believed(p)[p] = Serving(p)
         /\ \A q \in Peer \ {p} : Believed(p)[q] = view[p][q]
  BY ServingFits DEF Types, ViewsOK, Seen, Believed

\* A step that changes no node keeps what is said of the nodes.
LEMMA SameNodes == ASSUME NodesOK, UNCHANGED <<manifest, node, window>> PROVE NodesOK'
  BY DEF NodesOK, Fits

\* Nor does one that changes no view disturb the views.
LEMMA SameViews == ASSUME ViewsOK, UNCHANGED <<manifest, view>> PROVE ViewsOK'
  BY DEF ViewsOK, Seen, Fits

\* A peer that begins to serve or to load a window, or stops.
Enters(p, s, w) ==
  /\ s \in {"out", "starting", "up", "looking", "moving", "stuck"}
  /\ IF s = "out" THEN w = NoWindow ELSE w \in Fits(p)
  /\ node' = [node EXCEPT ![p] = s] /\ window' = [window EXCEPT ![p] = w] /\ manifest' = manifest
\* A peer that enters a state with a window that fits keeps the nodes' types.
LEMMA NodeTypes == ASSUME NodesOK, NEW p \in Peer, NEW s, NEW w, Enters(p, s, w) PROVE NodesOK'
<1>1. /\ w \in Windows(manifest) \cup {NoWindow} /\ (s = "out" <=> w = NoWindow)
      /\ s # "out" => w \in Fits(p)
  BY WindowIs DEF Enters
<1>2. /\ s \in {"out", "starting", "up", "looking", "moving", "stuck"}
      /\ node' = [node EXCEPT ![p] = s] /\ window' = [window EXCEPT ![p] = w] /\ manifest' = manifest
  BY DEF Enters
<1>3. \A q \in Peer : Fits(q)' = Fits(q)
  BY <1>2 DEF Fits
<1>4. ASSUME NEW q \in Peer
      PROVE  /\ node'[q] = "out" <=> window'[q] = NoWindow
             /\ node'[q] # "out" => window'[q] \in Fits(q)
  <2>1. CASE q = p
    BY <1>1, <1>2, <2>1 DEF NodesOK
  <2>2. CASE q # p
    <3>1. node'[q] = node[q] /\ window'[q] = window[q]
      BY <1>2, <2>2 DEF NodesOK
    <3> QED BY <3>1 DEF NodesOK
  <2> QED BY <2>1, <2>2
<1> QED BY <1>1, <1>2, <1>3, <1>4 DEF NodesOK

\* A table that takes in a window that its peer can hold, or drops it.
Takes(p, t) ==
  /\ t \in [Peer -> Windows(manifest) \cup {NoWindow}] /\ t[p] = NoWindow /\ Seen(t)
  /\ view' = [view EXCEPT ![p] = t] /\ manifest' = manifest
\* A view taken from what is served keeps the views' types.
LEMMA ViewTypes == ASSUME ViewsOK, NEW p \in Peer, NEW t, Takes(p, t) PROVE ViewsOK'
<1>1. \A q \in Peer : view'[q] = IF q = p THEN t ELSE view[q]
  BY DEF ViewsOK, Takes
<1>2. view' \in [Peer -> [Peer -> Windows(manifest) \cup {NoWindow}]]
  BY DEF ViewsOK, Takes
<1>3. \A q \in Peer : view'[q][q] = NoWindow /\ Seen(view'[q])
  BY <1>1 DEF ViewsOK, Takes
<1>4. manifest' = manifest /\ \A q \in Peer : Fits(q)' = Fits(q)
  BY DEF Takes, Fits
<1>5. \A q \in Peer : Seen(view[q])'
  BY <1>3, <1>4 DEF Seen
<1> QED BY <1>2, <1>3, <1>4, <1>5 DEF ViewsOK

\* One step of one peer.
Step(p) == \/ Start(p) \/ Up(p) \/ Decide(p) \/ Cooled(p) \/ Crash(p) \/ MoveFails(p)
           \/ \E q \in Peer : Hear(p, q) \/ Overdue(p, q)

\* Every step of a peer keeps the types.
LEMMA TypesStep == ASSUME Types, NEW p \in Peer, Step(p) PROVE Types'
<1> USE DEF Types
<1>a. /\ manifest \in Manifests /\ cooling \subseteq Peer /\ faults \in 0..MaxFaults
      /\ MaxFaults \in Nat
  BY MoverAssumption DEF RestOK
<1>1. CASE Start(p)
  <2>1. /\ node' = [node EXCEPT ![p] = "starting"] /\ UNCHANGED <<manifest, cooling, faults>>
    BY <1>1 DEF Start
  <2>2. PICK learned \in SUBSET Peer :
          view' = [view EXCEPT ![p] = [q \in Peer |-> IF q \in learned \ {p} THEN Serving(q)
                                                      ELSE NoWindow]]
    BY <1>1 DEF Start
  <2>3. PICK w \in Fits(p) : window' = [window EXCEPT ![p] = w]
    BY <1>1 DEF Start
  <2> DEFINE t == [q \in Peer |-> IF q \in learned \ {p} THEN Serving(q) ELSE NoWindow]
  <2>4. t \in [Peer -> Windows(manifest) \cup {NoWindow}] /\ t[p] = NoWindow /\ Seen(t)
    BY ServingFits DEF Seen
  <2> HIDE DEF t
  <2>5. view' = [view EXCEPT ![p] = t]
    BY <2>2 DEF t
  <2>6. Takes(p, t) /\ Enters(p, "starting", w)
    BY <2>1, <2>3, <2>4, <2>5 DEF Takes, Enters
  <2>7. ViewsOK' /\ NodesOK'
    BY <2>6, ViewTypes, NodeTypes
  <2>8. RestOK'
    BY <1>a, <2>1 DEF RestOK
  <2> QED BY <2>7, <2>8
<1>2. CASE Up(p) \/ Look(p) \/ MoveFails(p) \/ (LookAgain(p) /\ ~Chosen(p))
  <2>1. /\ UNCHANGED <<manifest, window, view, cooling>> /\ node[p] # "out"
        /\ faults' \in 0..MaxFaults
        /\ \E s \in {"up", "looking", "stuck"} : node' = [node EXCEPT ![p] = s]
    BY <1>a, <1>2 DEF Up, Look, MoveFails, LookAgain, Fault
  <2>2. PICK s \in {"up", "looking", "stuck"} : node' = [node EXCEPT ![p] = s]
    BY <2>1
  <2>3. window' = [window EXCEPT ![p] = window[p]] /\ window[p] \in Fits(p)
    BY <2>1 DEF NodesOK
  <2>4. Enters(p, s, window[p])
    BY <2>1, <2>2, <2>3 DEF Enters
  <2>5. NodesOK' /\ ViewsOK'
    BY <2>1, <2>4, NodeTypes, SameViews
  <2>6. RestOK'
    BY <1>a, <2>1 DEF RestOK
  <2> QED BY <2>5, <2>6
<1>3. CASE LookAgain(p) /\ Chosen(p)
  <2>1. /\ UNCHANGED <<manifest, view, faults>> /\ cooling' = cooling \cup {p}
        /\ node' = [node EXCEPT ![p] = "moving"]
        /\ \E c \in Mover(Live(Believed(p)), p) : window' = [window EXCEPT ![p] = c[2]]
    BY <1>3 DEF LookAgain
  <2>2. PICK c \in Mover(Live(Believed(p)), p) : window' = [window EXCEPT ![p] = c[2]]
    BY <2>1
  <2>3. c[1] = p
    <3>1. PICK d \in Mover(Live(Believed(p)), p) : d[1] = p
      BY <1>3 DEF Chosen
    <3>2. d = c
      BY <2>2, <3>1 DEF Mover
    <3> QED BY <3>1, <3>2
  <2>4. c[2] \in Fits(p)
    BY <2>3, ChosenFits
  <2>5. Enters(p, "moving", c[2])
    BY <2>1, <2>2, <2>4 DEF Enters
  <2>6. NodesOK' /\ ViewsOK'
    BY <2>1, <2>5, NodeTypes, SameViews
  <2>7. RestOK'
    BY <1>a, <2>1 DEF RestOK
  <2> QED BY <2>6, <2>7
<1>4. CASE Cooled(p)
  <2>1. UNCHANGED <<manifest, node, window, view, faults>> /\ cooling' \subseteq Peer
    BY <1>a, <1>4 DEF Cooled
  <2>2. NodesOK' /\ ViewsOK' /\ RestOK'
    BY <1>a, <2>1, SameNodes, SameViews DEF RestOK
  <2> QED BY <2>2
<1>5. CASE Crash(p)
  <2> DEFINE t == [q \in Peer |-> NoWindow]
  <2>1. /\ node' = [node EXCEPT ![p] = "out"] /\ window' = [window EXCEPT ![p] = NoWindow]
        /\ view' = [view EXCEPT ![p] = t] /\ cooling' \subseteq Peer /\ manifest' = manifest
        /\ faults' \in 0..MaxFaults
    BY <1>a, <1>5 DEF Crash, Fault
  <2>2. t \in [Peer -> Windows(manifest) \cup {NoWindow}] /\ t[p] = NoWindow /\ Seen(t)
    BY DEF Seen
  <2> HIDE DEF t
  <2>3. Takes(p, t) /\ Enters(p, "out", NoWindow)
    BY <2>1, <2>2 DEF Takes, Enters
  <2>4. NodesOK' /\ ViewsOK'
    BY <2>3, NodeTypes, ViewTypes
  <2>5. RestOK'
    BY <1>a, <2>1 DEF RestOK
  <2> QED BY <2>4, <2>5
<1>6. ASSUME NEW q \in Peer, Hear(p, q) \/ Overdue(p, q) PROVE Types'
  <2>1. /\ UNCHANGED <<manifest, node, window, cooling>> /\ faults' \in 0..MaxFaults
        /\ \E w \in {NoWindow, Serving(q)} : view' = [view EXCEPT ![p][q] = w]
        /\ p # q
    BY <1>a, <1>6 DEF Hear, Overdue, Fault, ViewsOK
  <2>2. PICK w \in {NoWindow, Serving(q)} : view' = [view EXCEPT ![p][q] = w]
    BY <2>1
  <2> DEFINE t == [view[p] EXCEPT ![q] = w]
  <2>3. view' = [view EXCEPT ![p] = t]
    BY <2>2
  <2>4. t \in [Peer -> Windows(manifest) \cup {NoWindow}] /\ t[p] = NoWindow /\ Seen(t)
    BY <2>1, <2>2, ServingFits DEF Seen, ViewsOK
  <2> HIDE DEF t
  <2>5. Takes(p, t)
    BY <2>1, <2>3, <2>4 DEF Takes
  <2>6. NodesOK' /\ ViewsOK'
    BY <2>1, <2>5, SameNodes, ViewTypes
  <2>7. RestOK'
    BY <1>a, <2>1 DEF RestOK
  <2> QED BY <2>6, <2>7
<1> QED BY <1>1, <1>2, <1>3, <1>4, <1>5, <1>6 DEF Step, Decide


-----------------------------------------------------------------------------
\* What holds of the views while nothing has failed: of a window that a table shows with a
\* peer there is a server still, that peer or one with a higher id.
Held == \A p, q \in Peer : view[p][q] # NoWindow =>
          \E r \in Peer : r >= q /\ Serving(r) = view[p][q]
IInv == Types /\ (Alike /\ faults = 0 => Held)

\* No step but a move takes a window out of service, while nothing fails.
LEMMA HeldStays ==
  ASSUME Types, Held, \A r \in Peer : Serving(r) # NoWindow => Serving(r)' = Serving(r),
         \A x, y \in Peer : view'[x][y] \in {view[x][y], NoWindow, Serving(y)}
  PROVE  Held'
<1> SUFFICES ASSUME NEW x \in Peer, NEW y \in Peer, view'[x][y] # NoWindow
             PROVE  \E r \in Peer : r >= y /\ Serving(r)' = view'[x][y]
  BY DEF Held
<1>1. CASE view'[x][y] = view[x][y]
  BY <1>1 DEF Held
<1>2. CASE view'[x][y] = Serving(y)
  BY <1>2, MoverAssumption
<1> QED BY <1>1, <1>2

\* The peer that moves leaves a server behind, of a higher id.
LEMMA Leaves ==
  ASSUME Rising, Types, Alike, Held, NEW p \in Peer, LookAgain(p), Chosen(p)
  PROVE  \E r \in Peer : r > p /\ Serving(r) = Serving(p)
<1> DEFINE known == Believed(p)
<1>1. Seen(known) /\ known[p] = Serving(p) /\ \A q \in Peer \ {p} : known[q] = view[p][q]
  BY BelievedSeen
<1> HIDE DEF known
<1>2. \E c \in Mover(Live(known), p) : c[1] = p
  BY DEF Chosen, known
<1>3. Moves(known, p) # NoWindow
  BY <1>2, ChosenFits
<1>4. manifest \in Manifests
  BY DEF Types, RestOK
<1>5. PICK q \in Peer : q # p /\ known[q] = known[p] /\ Fits(q) = Fits(p)
  BY <1>1, <1>3, <1>4, Twin
<1>6. q > p
  BY <1>2, <1>5, LowestMoves
<1>7. view[p][q] = Serving(p) /\ Serving(p) # NoWindow
  BY <1>1, <1>3, <1>5, MovesWhen
<1>8. PICK r \in Peer : r >= q /\ Serving(r) = view[p][q]
  BY <1>7 DEF Held
<1>9. r > p
  BY <1>6, <1>8, MoverAssumption
<1> QED BY <1>7, <1>8, <1>9

\* What the others serve is as before.
LEMMA MoveIs ==
  ASSUME Types, NEW p \in Peer, LookAgain(p), Chosen(p)
  PROVE  /\ Serving(p)' = NoWindow /\ \A r \in Peer \ {p} : Serving(r)' = Serving(r)
         /\ UNCHANGED <<manifest, view, faults>>
<1>1. /\ UNCHANGED <<manifest, view, faults>> /\ node' = [node EXCEPT ![p] = "moving"]
      /\ \E w : window' = [window EXCEPT ![p] = w]
  BY DEF LookAgain
<1>2. \A r \in Peer : /\ node'[r] = IF r = p THEN "moving" ELSE node[r]
                      /\ r # p => window'[r] = window[r]
  BY <1>1 DEF Types, NodesOK
<1> QED BY <1>1, <1>2 DEF Serving

\* After a move of the chosen peer, what anybody believes of another is still served, by that one or a
\* later.
LEMMA HeldMove ==
  ASSUME Rising, Types, Alike, Held, NEW p \in Peer, LookAgain(p), Chosen(p)
  PROVE  Held'
<1>1. PICK r \in Peer : r > p /\ Serving(r) = Serving(p)
  BY Leaves
<1>2. /\ \A x \in Peer \ {p} : Serving(x)' = Serving(x)
      /\ view' = view
  BY MoveIs
<1> SUFFICES ASSUME NEW x \in Peer, NEW y \in Peer, view[x][y] # NoWindow
             PROVE  \E z \in Peer : z >= y /\ Serving(z)' = view[x][y]
  BY <1>2 DEF Held
<1>3. PICK z \in Peer : z >= y /\ Serving(z) = view[x][y]
  BY DEF Held
<1>4. CASE z # p
  BY <1>2, <1>3, <1>4
<1>5. CASE z = p
  <2>1. r >= y /\ r # p
    BY <1>1, <1>3, <1>5, MoverAssumption
  <2> QED BY <1>1, <1>2, <1>3, <1>5, <2>1
<1> QED BY <1>4, <1>5

\* Every other step of a peer, while nothing fails.
LEMMA HeldElse ==
  ASSUME Types, Held, NEW p \in Peer, Step(p), faults' = faults, ~(LookAgain(p) /\ Chosen(p))
  PROVE  Held'
<1>0. /\ node \in [Peer -> {"out", "starting", "up", "looking", "moving", "stuck"}]
      /\ window \in [Peer -> Windows(manifest) \cup {NoWindow}]
      /\ view \in [Peer -> [Peer -> Windows(manifest) \cup {NoWindow}]]
      /\ faults \in Nat
  BY MoverAssumption DEF Types, NodesOK, ViewsOK, RestOK
<1>1. CASE Start(p)
  <2>1. /\ node[p] = "out" /\ node' = [node EXCEPT ![p] = "starting"]
        /\ \E w : window' = [window EXCEPT ![p] = w]
    BY <1>1 DEF Start
  <2>2. \A r \in Peer : Serving(r) # NoWindow => Serving(r)' = Serving(r)
    BY <1>0, <2>1 DEF Serving
  <2>3. PICK learned \in SUBSET Peer :
          view' = [view EXCEPT ![p] = [q \in Peer |-> IF q \in learned \ {p} THEN Serving(q)
                                                      ELSE NoWindow]]
    BY <1>1 DEF Start
  <2>4. \A x, y \in Peer : view'[x][y] \in {view[x][y], NoWindow, Serving(y)}
    BY <1>0, <2>3
  <2> QED BY <2>2, <2>4, HeldStays
<1>2. CASE Up(p) \/ Look(p) \/ LookAgain(p) \/ Cooled(p)
  <2>1. /\ UNCHANGED <<window, view>>
        /\ \/ node' = node
           \/ node' = [node EXCEPT ![p] = "up"]
           \/ node[p] \in {"up", "looking"} /\ node' = [node EXCEPT ![p] = "looking"]
    BY <1>2 DEF Up, Look, LookAgain, Cooled
  <2>2. \A r \in Peer : Serving(r) # NoWindow => Serving(r)' = Serving(r)
    BY <1>0, <2>1 DEF Serving
  <2>3. \A x, y \in Peer : view'[x][y] \in {view[x][y], NoWindow, Serving(y)}
    BY <2>1
  <2> QED BY <2>2, <2>3, HeldStays
<1>3. ASSUME NEW q \in Peer, Hear(p, q) PROVE Held'
  <2>1. UNCHANGED <<node, window>> /\ view' = [view EXCEPT ![p][q] = Serving(q)]
    BY <1>3 DEF Hear
  <2>2. \A r \in Peer : Serving(r)' = Serving(r)
    BY <2>1 DEF Serving
  <2>3. \A x, y \in Peer : view'[x][y] \in {view[x][y], NoWindow, Serving(y)}
    BY <1>0, <2>1
  <2> QED BY <2>2, <2>3, HeldStays
<1>4. ASSUME Fault PROVE FALSE
  BY <1>0, <1>4 DEF Fault
<1> QED BY <1>1, <1>2, <1>3, <1>4 DEF Step, Decide, Crash, MoveFails, Overdue

\* Every step is some peer's.
LEMMA NextIs == Next <=> \E p \in Peer : Step(p)
  BY DEF Next, Step

\* No step changes the manifest, and a step uses one fault at most.
LEMMA Kept == ASSUME Types, NEW p \in Peer, Step(p)
              PROVE  manifest' = manifest /\ faults \in Nat /\ (faults' = faults \/ faults' = faults + 1)
<1>1. faults \in Nat
  BY MoverAssumption DEF Types, RestOK
<1> QED BY <1>1 DEF Step, Start, Up, Decide, Look, LookAgain, Cooled, Crash, MoveFails, Hear, Overdue, Fault

\* The invariant holds at the start.
LEMMA InitInv == ASSUME Init PROVE IInv
<1>1. Held
  BY DEF Init, Held
<1> QED BY <1>1, InitTypes DEF IInv

\* Every step keeps it.
LEMMA NextInv == ASSUME Rising, IInv, [Next]_vars PROVE IInv'
<1>1. CASE UNCHANGED vars
  <2>1. UNCHANGED <<manifest, node, window, view, cooling, faults>>
    BY <1>1 DEF vars
  <2>2. Types'
    BY <2>1, SameNodes, SameViews DEF IInv, Types, RestOK
  <2>3. Alike' = Alike /\ Held' = Held
    BY <2>1 DEF Alike, Fits, Held, Serving
  <2> QED BY <2>1, <2>2, <2>3 DEF IInv
<1>2. ASSUME NEW p \in Peer, Step(p) PROVE IInv'
  <2>1. Types /\ Types'
    BY <1>2, TypesStep DEF IInv
  <2>2. manifest' = manifest /\ (Alike' <=> Alike)
    BY <1>2, <2>1, Kept DEF Alike, Fits
  <2>3. ASSUME Alike, faults' = 0 PROVE Held'
    <3>1. faults = 0 /\ faults' = faults
      BY <1>2, <2>1, <2>3, Kept
    <3>2. Held
      BY <2>3, <3>1 DEF IInv
    <3>3. CASE LookAgain(p) /\ Chosen(p)
      BY <2>1, <2>3, <3>2, <3>3, HeldMove
    <3>4. CASE ~(LookAgain(p) /\ Chosen(p))
      BY <1>2, <2>1, <3>1, <3>2, <3>4, HeldElse
    <3> QED BY <3>3, <3>4
  <2> QED BY <2>1, <2>2, <2>3 DEF IInv
<1> QED BY <1>1, <1>2, NextIs

-----------------------------------------------------------------------------
\* Who begins to move was looking, and has been chosen.
LEMMA WhoMoves ==
  ASSUME Types, NEW p \in Peer, NEW q \in Peer, Step(p), node[q] = "looking", node'[q] = "moving"
  PROVE  p = q /\ LookAgain(p) /\ Chosen(p)
<1>1. node \in [Peer -> {"out", "starting", "up", "looking", "moving", "stuck"}]
  BY DEF Types, NodesOK
<1>2. CASE LookAgain(p) /\ Chosen(p)
  BY <1>1, <1>2 DEF LookAgain
<1>3. CASE ~(LookAgain(p) /\ Chosen(p))
  <2>1. node' = node \/ \E s \in {"out", "starting", "up", "looking", "stuck"} : node' = [node EXCEPT ![p] = s]
    BY <1>3 DEF Step, Start, Up, Decide, Look, LookAgain, Cooled, Crash, MoveFails, Hear, Overdue
  <2> QED BY <1>1, <2>1
<1> QED BY <1>2, <1>3

\* A move leaves every stage that was covered covered.
LEMMA MoveEmptiesNothing ==
  ASSUME Rising, Types, Alike, Held, NEW p \in Peer, LookAgain(p), Chosen(p)
  PROVE  EmptiesNothing
<1> DEFINE now == [q \in Peer |-> Serving(q)]
           next == [q \in Peer |-> Serving(q)']
<1>1. PICK t \in Peer : t > p /\ Serving(t) = Serving(p)
  BY Leaves
<1>2. /\ \A x \in Peer \ {p} : Serving(x)' = Serving(x)
      /\ manifest' = manifest /\ t # p
  BY <1>1, MoveIs, MoverAssumption
<1>3. True = Live(now) /\ True' = Live(next)
  BY <1>2 DEF True, Live, Record
<1> SUFFICES ASSUME NEW s \in Stages(manifest), Coverage(Live(now), s) > 0
             PROVE  Coverage(Live(next), s) > 0
  BY <1>3 DEF EmptiesNothing
<1>4. PICK r \in Live(now) : Covers(r.window, s)
  <2>1. {x \in Live(now) : Covers(x.window, s)} \in SUBSET Live(now) /\ IsFiniteSet(Live(now))
    BY LiveIs
  <2>2. IsFiniteSet({x \in Live(now) : Covers(x.window, s)})
    BY <2>1, FS_Subset
  <2>3. {x \in Live(now) : Covers(x.window, s)} # {}
    BY <2>2, Counted DEF Coverage
  <2> QED BY <2>3
<1>5. r.peer \in Peer /\ r.window = now[r.peer] /\ now[r.peer] # NoWindow
  BY <1>4, LiveIs
<1>6. PICK x \in Peer : next[x] = now[r.peer]
  BY <1>1, <1>2, <1>5
<1>7. Record(x, next[x]) \in Live(next) /\ Record(x, next[x]).window = now[r.peer]
  BY <1>5, <1>6, LiveIs DEF Record
<1>8. {z \in Live(next) : Covers(z.window, s)} # {}
  BY <1>4, <1>5, <1>7
<1>9. IsFiniteSet({z \in Live(next) : Covers(z.window, s)})
  <2>1. {x0 \in Live(next) : Covers(x0.window, s)} \in SUBSET Live(next) /\ IsFiniteSet(Live(next))
    BY LiveIs
  <2> QED BY <2>1, FS_Subset
<1> QED BY <1>8, <1>9, Counted DEF Coverage

\* The state and the views have their types: a peer serves what it can hold, and is believed
\* to serve what it can hold.
THEOREM TypeCorrect == Rising => (Spec => []TypeOK)
<1> SUFFICES ASSUME Rising PROVE Spec => []TypeOK
  OBVIOUS
<1>1. Init => IInv
  BY InitInv
<1>2. IInv /\ [Next]_vars => IInv'
  BY NextInv
<1>3. IInv => TypeOK
  BY TypesSay DEF IInv
<1> QED BY <1>1, <1>2, <1>3, PTL DEF Spec

\* No move takes the last peer from a stage where each holds one and those that can hold the
\* same stage can hold the same ones (_mover, node.py:1407).
THEOREM NoStageLost == Rising => (Spec => LastHolderStays)
<1> SUFFICES ASSUME Rising PROVE Spec => LastHolderStays
  OBVIOUS
<1>1. Init => IInv
  BY InitInv
<1>2. IInv /\ [Next]_vars => IInv'
  BY NextInv
<1>3. IInv /\ [Next]_vars =>
        [\A p \in Peer : faults = 0 /\ node[p] = "looking" /\ node'[p] = "moving" /\ Alike
                           => EmptiesNothing]_vars
  <2> SUFFICES ASSUME IInv, Next, NEW q \in Peer, faults = 0, node[q] = "looking",
                      node'[q] = "moving", Alike
               PROVE  EmptiesNothing
    OBVIOUS
  <2>1. PICK p \in Peer : Step(p)
    BY NextIs
  <2>2. Types /\ Held
    BY DEF IInv
  <2>3. p = q /\ LookAgain(p) /\ Chosen(p)
    BY <2>1, <2>2, WhoMoves
  <2> QED BY <2>2, <2>3, MoveEmptiesNothing
<1> QED BY <1>1, <1>2, <1>3, PTL DEF Spec, LastHolderStays

-----------------------------------------------------------------------------
\* best_route.

\* A table of peers that serve windows of the manifest m.
Routable(m, live) ==
  /\ m.boundaries \in Seq(Nat) /\ m.boundaries # <<>>
  /\ \A i, j \in DOMAIN m.boundaries : i < j => m.boundaries[i] < m.boundaries[j]
  /\ IsFiniteSet(live)
  /\ \A r \in live : r.window \in Windows(m) /\ r.peer \in Nat /\ r.age \in Nat
  /\ \A r, q \in live : r.peer = q.peer => r = q

-----------------------------------------------------------------------------
\* Minima.

\* Pairs are compared by their first parts, then by their second.
LEMMA LessPair ==
  ASSUME NEW a \in Nat, NEW b \in Nat, NEW c \in Nat, NEW d \in Nat
  PROVE  Less(<<a, b>>, <<c, d>>) <=> a < c \/ (a = c /\ b < d)
<1> DEFINE s == <<a, b>>
           t == <<c, d>>
<1>1. /\ DOMAIN s = {1, 2} /\ s[1] = a /\ s[2] = b /\ t[1] = c /\ t[2] = d
      /\ 1 .. 1 - 1 = {} /\ 1 .. 2 - 1 = {1}
  OBVIOUS
<1> HIDE DEF s, t
<1>2. Less(s, t) <=> \E i \in {1, 2} : s[i] < t[i] /\ \A j \in 1 .. i - 1 : s[j] = t[j]
  BY <1>1 DEF Less
<1>3. Less(s, t) <=> s[1] < t[1] \/ (s[2] < t[2] /\ s[1] = t[1])
  BY <1>1, <1>2
<1>4. Less(s, t) <=> a < c \/ (a = c /\ b < d)
  BY <1>1, <1>3
<1> QED BY <1>4 DEF s, t

\* Something is least by one number, and then by another.
LEMMA LeastPair ==
  ASSUME NEW S, S # {}, NEW f \in [S -> Nat], NEW g \in [S -> Nat]
  PROVE  \E x \in S : \A y \in S : f[x] < f[y] \/ (f[x] = f[y] /\ g[x] <= g[y])
<1> DEFINE F == {f[x] : x \in S}
           G == {g[x] : x \in {y \in S : f[y] = Min(F)}}
<1>1. F \subseteq Nat /\ F # {}
  OBVIOUS
<1>2. Min(F) \in F /\ \A n \in F : Min(F) <= n
  BY <1>1, MinIs
<1>3. G \subseteq Nat /\ G # {}
  BY <1>2
<1>4. Min(G) \in G /\ \A n \in G : Min(G) <= n
  BY <1>3, MinIs
<1>5. PICK x \in S : f[x] = Min(F) /\ g[x] = Min(G)
  BY <1>4
<1>6. ASSUME NEW y \in S PROVE f[x] < f[y] \/ (f[x] = f[y] /\ g[x] <= g[y])
  <2>1. f[y] \in F /\ f[x] <= f[y]
    BY <1>2, <1>5
  <2>2. f[y] = f[x] => g[y] \in G
    BY <1>5
  <2>3. f[y] = f[x] => g[x] <= g[y]
    BY <1>4, <1>5, <2>2
  <2>4. f[x] \in Nat /\ f[y] \in Nat
    OBVIOUS
  <2> QED BY <2>1, <2>3, <2>4
<1> QED BY <1>6

\* The cheapest of some entries is one of them, and none has fewer hops.
LEMMA CheapestIs ==
  ASSUME NEW E, E # {}, \A e \in E : e.hops \in Nat /\ e.penalty \in Nat
  PROVE  Cheapest(E) \in E /\ \A e \in E : Cheapest(E).hops <= e.hops
<1> DEFINE f == [e \in E |-> e.hops]
           g == [e \in E |-> e.penalty]
<1>1. f \in [E -> Nat] /\ g \in [E -> Nat]
  OBVIOUS
<1>2. PICK x \in E : \A y \in E : f[x] < f[y] \/ (f[x] = f[y] /\ g[x] <= g[y])
  <2> HIDE DEF f, g
  <2> QED BY <1>1, LeastPair
<1>3. \A e, h \in E : Cheaper(e, h) <=> e.hops < h.hops \/ (e.hops = h.hops /\ e.penalty < h.penalty)
  BY LessPair DEF Cheaper
<1>4. \A y \in E : ~Cheaper(y, x)
  BY <1>2, <1>3
<1>5. Cheapest(E) \in E /\ \A y \in E : ~Cheaper(y, Cheapest(E))
  BY <1>4 DEF Cheapest
<1> QED BY <1>3, <1>5

\* Of the peers that serve a window one is taken.
LEMMA PickIs ==
  ASSUME NEW m, NEW live, Routable(m, live), NEW e, NEW w, NEW prefer,
         \E r \in live : r.window = w
  PROVE  /\ Pick(live, e, w, prefer) \in live /\ Pick(live, e, w, prefer).window = w
         /\ Penalty(Pick(live, e, w, prefer), e.backend, prefer) \in Nat
<1> DEFINE group == {r \in live : r.window = w}
           pen(r) == Penalty(r, e.backend, prefer)
           f == [r \in group |-> pen(r)]
           g == [r \in group |-> r.peer]
<1>1. \A r \in live : r.age \in Nat /\ r.peer \in Nat /\ pen(r) \in Nat
  <2>1. \A t : Quarters(t, 1) \in Nat /\ Quarters(t, 2) \in Nat
    BY DEF Quarters
  <2>2. \A r \in live : r.age \in Nat /\ r.peer \in Nat
    BY DEF Routable
  <2>3. ASSUME NEW r \in live PROVE pen(r) \in Nat
    <3> DEFINE a == Quarters(e.backend # "" /\ r.backend # e.backend, 2)
               b == Quarters(prefer # "" /\ r.backend # prefer, 2)
               c == Quarters(r.backend = "cpu", 1)
    <3>1. pen(r) = r.age + a + b + c
      BY DEF Penalty
    <3>2. a \in Nat /\ b \in Nat /\ c \in Nat /\ r.age \in Nat
      BY <2>1, <2>2
    <3> HIDE DEF pen, a, b, c
    <3> QED BY <3>1, <3>2
  <2> QED BY <2>2, <2>3
<1>2. group # {} /\ f \in [group -> Nat] /\ g \in [group -> Nat]
  BY <1>1
<1>3. PICK x \in group : \A y \in group : f[x] < f[y] \/ (f[x] = f[y] /\ g[x] <= g[y])
  <2> HIDE DEF f, g, group
  <2> QED BY <1>2, LeastPair
<1>4. \A y \in group \ {x} : y.peer # x.peer
  BY <1>3 DEF Routable
<1>5. \A y \in group \ {x} : Less(<<pen(x), x.peer>>, <<pen(y), y.peer>>)
  <2> SUFFICES ASSUME NEW y \in group \ {x} PROVE Less(<<pen(x), x.peer>>, <<pen(y), y.peer>>)
    OBVIOUS
  <2>1. pen(x) \in Nat /\ pen(y) \in Nat /\ x.peer \in Nat /\ y.peer \in Nat
    BY <1>1
  <2>2. pen(x) < pen(y) \/ (pen(x) = pen(y) /\ x.peer <= y.peer)
    BY <1>3
  <2>3. y.peer # x.peer
    BY <1>4
  <2> HIDE DEF pen
  <2> QED BY <2>1, <2>2, <2>3, LessPair
<1>6. \E r \in group : \A q \in group \ {r} : Less(<<pen(r), r.peer>>, <<pen(q), q.peer>>)
  BY <1>5
<1>7. Pick(live, e, w, prefer) =
        CHOOSE r \in group : \A q \in group \ {r} : Less(<<pen(r), r.peer>>, <<pen(q), q.peer>>)
  BY DEF Pick
<1>8. Pick(live, e, w, prefer) \in group
  <2> HIDE DEF group, pen
  <2> QED BY <1>6, <1>7
<1> QED BY <1>1, <1>8

\* What one hop more makes of an entry.
LEMMA ExtendIs ==
  ASSUME NEW m, NEW live, Routable(m, live), NEW e, NEW w, NEW prefer,
         \E r \in live : r.window = w
  PROVE  LET x == Extend(live, e, w, prefer)
             r == Pick(live, e, w, prefer)
         IN /\ r \in live /\ r.window = w
            /\ x.hops = e.hops + 1 /\ x.path = Append(e.path, r) /\ x.backend = r.backend
            /\ e.penalty \in Nat => x.penalty \in Nat
  BY PickIs DEF Extend

-----------------------------------------------------------------------------
\* The table of entries.

\* What ends at a boundary depends on what ends before it.
LEMMA AtSame ==
  ASSUME NEW m, NEW live, NEW prefer, NEW start, NEW f, NEW g, NEW i, \A j \in 1 .. i - 1 : f[j] = g[j]
  PROVE  At(m, live, prefer, start, f, i) = At(m, live, prefer, start, g, i)
<1> DEFINE on(h, j) == {Extend(live, e, <<m.boundaries[j], m.boundaries[i]>>, prefer) : e \in h[j]}
           J == {k \in 1 .. i - 1 : Replicas(live, <<m.boundaries[k], m.boundaries[i]>>) > 0}
<1>1. \A j \in J : on(f, j) = on(g, j)
  OBVIOUS
<1>2. \A h : Reaching(m, live, prefer, h, i) = UNION {on(h, j) : j \in J}
  BY DEF Reaching
<1>3. Reaching(m, live, prefer, f, i) = Reaching(m, live, prefer, g, i)
  <2> HIDE DEF on, J
  <2> QED BY <1>1, <1>2
<1> QED BY <1>3 DEF At

\* The table of best routes is the function its recursion defines.
LEMMA BestIs ==
  ASSUME NEW m, NEW live, NEW prefer, NEW start, m.boundaries \in Seq(Nat)
  PROVE  LET best == Best(m, live, prefer, start)
         IN best = [i \in DOMAIN m.boundaries |-> At(m, live, prefer, start, best, i)]
<1> DEFINE N == Len(m.boundaries)
           at(f, i) == At(m, live, prefer, start, f, i)
           Upto(n, f) == f = [i \in 1 .. n |-> at(f, i)]
           Bad == {n \in 0 .. N : ~ \E f : Upto(n, f)}
<1>1. N \in Nat /\ DOMAIN m.boundaries = 1 .. N
  OBVIOUS
<1>2. Best(m, live, prefer, start) = CHOOSE f : f = [i \in DOMAIN m.boundaries |-> at(f, i)]
  BY DEF Best
<1> HIDE DEF at, N
<1>3. Bad = {}
  <2> SUFFICES ASSUME Bad # {} PROVE FALSE
    OBVIOUS
  <2>1. Bad \subseteq Nat
    BY <1>1
  <2>2. PICK x \in Bad : \A y \in Bad : x <= y
    <3> HIDE DEF Bad
    <3>1. Min(Bad) \in Bad /\ \A y \in Bad : Min(Bad) <= y
      BY <2>1, MinIs
    <3> QED BY <3>1
  <2>3. CASE x = 0
    <3> DEFINE none == [i \in 1 .. 0 |-> 0]
    <3>1. none = [i \in 1 .. 0 |-> at(none, i)]
      OBVIOUS
    <3> QED BY <2>2, <2>3, <3>1
  <2>4. CASE x # 0
    <3>1. x \in 1 .. N /\ x - 1 \in 0 .. N /\ ~(x <= x - 1)
      BY <1>1, <2>2, <2>4
    <3>2. x - 1 \notin Bad
      <4> HIDE DEF Bad
      <4> QED BY <2>2, <3>1
    <3>3. PICK f : Upto(x - 1, f)
      BY <3>1, <3>2
    <3> DEFINE g == [i \in 1 .. x |-> IF i = x THEN at(f, x) ELSE f[i]]
    <3>4. \A i \in 1 .. x - 1 : g[i] = f[i] /\ f[i] = at(f, i)
      BY <3>1, <3>3
    <3>5. \A i \in 1 .. x : at(g, i) = at(f, i)
      <4> SUFFICES ASSUME NEW i \in 1 .. x PROVE at(g, i) = at(f, i)
        OBVIOUS
      <4>1. \A j \in 1 .. i - 1 : g[j] = f[j]
        BY <3>1, <3>4
      <4> HIDE DEF g
      <4> QED BY <4>1, AtSame DEF at
    <3>6. \A i \in 1 .. x : g[i] = at(g, i)
      <4> SUFFICES ASSUME NEW i \in 1 .. x PROVE g[i] = at(f, i)
        BY <3>5
      <4>1. CASE i = x
        BY <4>1
      <4>2. CASE i # x
        <5>1. i \in 1 .. x - 1
          BY <3>1, <4>2
        <5> HIDE DEF g
        <5> QED BY <3>4, <5>1
      <4> QED BY <4>1, <4>2
    <3>7. g = [i \in 1 .. x |-> at(g, i)]
      <4>1. g = [i \in 1 .. x |-> g[i]]
        OBVIOUS
      <4> HIDE DEF g
      <4> QED BY <3>6, <4>1
    <3>8. Upto(x, g)
      <4> HIDE DEF g
      <4> QED BY <3>7
    <3> HIDE DEF g, Upto
    <3> QED BY <2>2, <3>8
  <2> QED BY <2>3, <2>4
<1>4. \E f : f = [i \in DOMAIN m.boundaries |-> at(f, i)]
  <2>1. N \in 0 .. N /\ N \notin Bad
    BY <1>1, <1>3
  <2> QED BY <1>1, <2>1
<1>5. Best(m, live, prefer, start) = [i \in DOMAIN m.boundaries |-> at(Best(m, live, prefer, start), i)]
  BY <1>2, <1>4
<1> QED BY <1>5 DEF at

-----------------------------------------------------------------------------
\* What an entry stands for.

\* A path of windows from start to the i-th boundary.
Chained(m, live, start, e, i) ==
  /\ e.hops \in Nat /\ e.penalty \in Nat /\ e.path \in Seq(live) /\ Len(e.path) = e.hops
  /\ e.hops = 0 => m.boundaries[i] = start
  /\ e.hops # 0 => e.path[1].window[1] = start /\ e.path[e.hops].window[2] = m.boundaries[i]
  /\ \A k \in 1 .. e.hops - 1 : e.path[k].window[2] = e.path[k + 1].window[1]

\* One hop more is a path to the boundary where the hop ends.
LEMMA ChainsOn ==
  ASSUME NEW m, NEW live, Routable(m, live), NEW prefer, NEW start, NEW i, NEW j, NEW e,
         Chained(m, live, start, e, j),
         \E r \in live : r.window = <<m.boundaries[j], m.boundaries[i]>>
  PROVE  Chained(m, live, start, Extend(live, e, <<m.boundaries[j], m.boundaries[i]>>, prefer), i)
<1> DEFINE w == <<m.boundaries[j], m.boundaries[i]>>
           x == Extend(live, e, w, prefer)
           r == Pick(live, e, w, prefer)
<1>1. w[1] = m.boundaries[j] /\ w[2] = m.boundaries[i]
  OBVIOUS
<1>2. /\ e.hops \in Nat /\ e.penalty \in Nat /\ e.path \in Seq(live) /\ Len(e.path) = e.hops
      /\ e.hops = 0 => m.boundaries[j] = start
      /\ e.hops # 0 => e.path[1].window[1] = start /\ e.path[e.hops].window[2] = m.boundaries[j]
      /\ \A k \in 1 .. e.hops - 1 : e.path[k].window[2] = e.path[k + 1].window[1]
  BY DEF Chained
<1>3. \E y \in live : y.window = w
  OBVIOUS
<1> HIDE DEF w
<1>4. /\ r \in live /\ r.window = w /\ x.hops = e.hops + 1 /\ x.path = Append(e.path, r) /\ x.penalty \in Nat
  BY <1>2, <1>3, ExtendIs
<1> HIDE DEF x, r
<1>5. /\ x.path \in Seq(live) /\ Len(x.path) = e.hops + 1 /\ x.path[e.hops + 1] = r
      /\ \A k \in 1 .. e.hops : x.path[k] = e.path[k]
  BY <1>2, <1>4
<1>6. x.path[1].window[1] = start
  <2>1. CASE e.hops = 0
    BY <1>1, <1>2, <1>4, <1>5, <2>1
  <2>2. CASE e.hops # 0
    <3>1. 1 \in 1 .. e.hops
      BY <1>2, <2>2
    <3> QED BY <1>2, <1>5, <2>2, <3>1
  <2> QED BY <2>1, <2>2
<1>7. x.path[x.hops].window[2] = m.boundaries[i]
  BY <1>1, <1>4, <1>5
<1>8. ASSUME NEW k \in 1 .. x.hops - 1 PROVE x.path[k].window[2] = x.path[k + 1].window[1]
  <2>1. k \in 1 .. e.hops
    BY <1>2, <1>4
  <2>2. CASE k = e.hops
    <3>1. e.hops # 0 /\ x.path[k] = e.path[k] /\ x.path[k + 1] = r
      BY <1>5, <2>1, <2>2
    <3> QED BY <1>1, <1>2, <1>4, <2>2, <3>1
  <2>3. CASE k # e.hops
    <3>1. k \in 1 .. e.hops - 1 /\ k + 1 \in 1 .. e.hops
      BY <1>2, <2>1, <2>3
    <3> QED BY <1>2, <1>5, <2>1, <3>1
  <2> QED BY <2>2, <2>3
<1>9. x.hops \in Nat /\ x.hops # 0 /\ Len(x.path) = x.hops
  BY <1>2, <1>4, <1>5
<1>10. Chained(m, live, start, x, i)
  BY <1>4, <1>5, <1>6, <1>7, <1>8, <1>9 DEF Chained
<1> QED BY <1>10 DEF x, w

-----------------------------------------------------------------------------
\* What the table holds.

\* What reaches a boundary: an entry before it, continued by a live window that ends there.
LEMMA ReachingIs ==
  ASSUME NEW m, NEW live, Routable(m, live), NEW prefer, NEW f, NEW i, NEW x
  PROVE  x \in Reaching(m, live, prefer, f, i) <=>
           \E j \in 1 .. i - 1 : \E e \in f[j] :
             /\ \E r \in live : r.window = <<m.boundaries[j], m.boundaries[i]>>
             /\ x = Extend(live, e, <<m.boundaries[j], m.boundaries[i]>>, prefer)
<1>1. ASSUME NEW w PROVE Replicas(live, w) > 0 <=> \E r \in live : r.window = w
  <2> DEFINE X == {r \in live : r.window = w}
  <2>1. IsFiniteSet(X)
    BY FS_Subset DEF Routable
  <2>2. Replicas(live, w) = Cardinality(X)
    BY DEF Replicas
  <2> HIDE DEF X
  <2>3. Replicas(live, w) > 0 <=> X # {}
    BY <2>1, <2>2, Counted
  <2> QED BY <2>3 DEF X
<1>2. Reaching(m, live, prefer, f, i) =
        UNION {{Extend(live, e, <<m.boundaries[j], m.boundaries[i]>>, prefer) : e \in f[j]} :
                 j \in {k \in 1 .. i - 1 : Replicas(live, <<m.boundaries[k], m.boundaries[i]>>) > 0}}
  BY DEF Reaching
<1> DEFINE W(j) == <<m.boundaries[j], m.boundaries[i]>>
<1>3. x \in Reaching(m, live, prefer, f, i) <=>
        \E j \in 1 .. i - 1 : /\ Replicas(live, W(j)) > 0
                              /\ \E e \in f[j] : x = Extend(live, e, W(j), prefer)
  BY <1>2
<1>4. \A j : Replicas(live, W(j)) > 0 <=> \E r \in live : r.window = W(j)
  BY <1>1
<1> QED BY <1>3, <1>4

\* Away from the start, what is kept at a boundary is of what reaches it, and as short.
LEMMA AtIs ==
  ASSUME NEW m, NEW live, NEW prefer, NEW start, NEW f, NEW i, m.boundaries[i] # start,
         \A x \in Reaching(m, live, prefer, f, i) : x.hops \in Nat /\ x.penalty \in Nat
  PROVE  /\ At(m, live, prefer, start, f, i) \subseteq Reaching(m, live, prefer, f, i)
         /\ \A x \in Reaching(m, live, prefer, f, i) :
              \E e \in At(m, live, prefer, start, f, i) : e.hops <= x.hops
<1> DEFINE R == Reaching(m, live, prefer, f, i)
           On(k) == {e \in R : e.backend = k}
<1>1. At(m, live, prefer, start, f, i) = {Cheapest(On(k)) : k \in {e.backend : e \in R}}
  BY DEF At
<1> HIDE DEF R
<1>2. ASSUME NEW x \in R
      PROVE  Cheapest(On(x.backend)) \in R /\ Cheapest(On(x.backend)).hops <= x.hops
  <2>1. x \in On(x.backend) /\ \A e \in On(x.backend) : e.hops \in Nat /\ e.penalty \in Nat
    BY DEF R
  <2>2. On(x.backend) \subseteq R
    OBVIOUS
  <2> HIDE DEF On
  <2> QED BY <2>1, <2>2, CheapestIs
<1>3. At(m, live, prefer, start, f, i) \subseteq R
  BY <1>1, <1>2
<1>4. ASSUME NEW x \in R PROVE \E e \in At(m, live, prefer, start, f, i) : e.hops <= x.hops
  BY <1>1, <1>2
<1> QED BY <1>3, <1>4 DEF R

\* Every entry is a path.
LEMMA EntriesChain ==
  ASSUME NEW m, NEW live, Routable(m, live), NEW prefer, NEW start
  PROVE  \A i \in DOMAIN m.boundaries :
           \A e \in Best(m, live, prefer, start)[i] : Chained(m, live, start, e, i)
<1> DEFINE B == Best(m, live, prefer, start)
           Bad == {i \in DOMAIN m.boundaries : ~ \A e \in B[i] : Chained(m, live, start, e, i)}
<1>1. m.boundaries \in Seq(Nat) /\ DOMAIN m.boundaries \subseteq Nat
  BY DEF Routable
<1>2. \A i \in DOMAIN m.boundaries : B[i] = At(m, live, prefer, start, B, i)
  BY <1>1, BestIs
<1> HIDE DEF B
<1> SUFFICES ASSUME Bad # {} PROVE FALSE
  BY DEF B
<1>3. PICK i \in Bad : \A y \in Bad : i <= y
  <2>1. Bad \subseteq Nat
    BY <1>1
  <2> HIDE DEF Bad
  <2> QED BY <2>1, MinIs
<1>4. i \in DOMAIN m.boundaries /\ i \in Nat
  BY <1>1
<1>5. ASSUME NEW j \in 1 .. i - 1, NEW e \in B[j] PROVE Chained(m, live, start, e, j)
  <2>1. j \in DOMAIN m.boundaries /\ ~(i <= j)
    BY <1>1, <1>4
  <2>2. j \notin Bad
    <3> HIDE DEF Bad
    <3> QED BY <1>3, <2>1
  <2> QED BY <2>1, <2>2
<1>6. ASSUME NEW x \in Reaching(m, live, prefer, B, i) PROVE Chained(m, live, start, x, i)
  <2>1. PICK j \in 1 .. i - 1 : \E e \in B[j] :
          /\ \E r \in live : r.window = <<m.boundaries[j], m.boundaries[i]>>
          /\ x = Extend(live, e, <<m.boundaries[j], m.boundaries[i]>>, prefer)
    BY ReachingIs
  <2>2. PICK e \in B[j] :
          /\ \E r \in live : r.window = <<m.boundaries[j], m.boundaries[i]>>
          /\ x = Extend(live, e, <<m.boundaries[j], m.boundaries[i]>>, prefer)
    BY <2>1
  <2>3. Chained(m, live, start, e, j)
    BY <1>5
  <2> QED BY <2>2, <2>3, ChainsOn
<1>7. ASSUME NEW e \in B[i] PROVE Chained(m, live, start, e, i)
  <2>1. CASE m.boundaries[i] = start
    <3>1. e = [backend |-> "", hops |-> 0, penalty |-> 0, path |-> <<>>]
      BY <1>2, <1>4, <2>1 DEF At
    <3>2. e.hops = 0 /\ e.penalty = 0 /\ e.path = <<>>
      BY <3>1
    <3>3. e.path \in Seq(live) /\ Len(e.path) = 0 /\ 1 .. 0 - 1 = {}
      BY <3>2
    <3> QED BY <2>1, <3>2, <3>3 DEF Chained
  <2>2. CASE m.boundaries[i] # start
    <3>1. \A x \in Reaching(m, live, prefer, B, i) : x.hops \in Nat /\ x.penalty \in Nat
      BY <1>6 DEF Chained
    <3>2. e \in Reaching(m, live, prefer, B, i)
      BY <1>2, <1>4, <2>2, <3>1, AtIs
    <3> QED BY <1>6, <3>2
  <2> QED BY <2>1, <2>2
<1> QED BY <1>3, <1>7

\* Windows in a row, as many as n, from start to the i-th boundary.
InRow(m, live, start, n, c, i) ==
  /\ n \in Nat \ {0} /\ \A k \in 1 .. n : \E r \in live : r.window = c[k]
  /\ c[1][1] = start /\ c[n][2] = m.boundaries[i]
  /\ \A k \in 1 .. n - 1 : c[k][2] = c[k + 1][1]

\* The last of them.
LEMMA LastOfRow ==
  ASSUME NEW m, NEW live, Routable(m, live), NEW start, NEW n, NEW c, NEW i \in DOMAIN m.boundaries,
         InRow(m, live, start, n, c, i)
  PROVE  \E j \in 1 .. i - 1 :
           /\ j \in DOMAIN m.boundaries
           /\ \E r \in live : r.window = <<m.boundaries[j], m.boundaries[i]>>
           /\ n = 1 => m.boundaries[j] = start
           /\ n # 1 => InRow(m, live, start, n - 1, c, j)
<1> DEFINE b == m.boundaries
<1>1. /\ b \in Seq(Nat) /\ DOMAIN b = 1 .. Len(b) /\ Len(b) \in Nat
      /\ \A j, k \in DOMAIN b : j < k => b[j] < b[k]
      /\ \A r \in live : r.window \in Windows(m)
  BY DEF Routable
<1>2. /\ n \in Nat \ {0} /\ n \in 1 .. n /\ c[n][2] = b[i] /\ c[1][1] = start
      /\ \A k \in 1 .. n : \E r \in live : r.window = c[k]
      /\ \A k \in 1 .. n - 1 : c[k][2] = c[k + 1][1]
  BY DEF InRow
<1>3. PICK r \in live : r.window = c[n]
  BY <1>2
<1>4. PICK j, k \in DOMAIN b : c[n] = <<b[j], b[k]>> /\ b[j] < b[k]
  <2>1. c[n] \in Windows(m)
    BY <1>1, <1>3
  <2>2. PICK x \in ToSet(b), y \in ToSet(b) : c[n] = <<x, y>> /\ x < y
    BY <2>1 DEF Windows
  <2> QED BY <2>2 DEF ToSet
<1> HIDE DEF b
<1>5. b[k] = b[i] /\ b[j] \in Nat /\ b[k] \in Nat /\ j \in Nat /\ k \in Nat /\ i \in Nat
  BY <1>1, <1>2, <1>4 DEF b
<1>6. k = i
  <2>1. i \in DOMAIN b /\ \A x, y \in DOMAIN b : x < y => b[x] < b[y]
    BY <1>1 DEF b
  <2>2. ~(k < i) /\ ~(i < k)
    BY <1>5, <2>1
  <2> QED BY <1>5, <2>2
<1>7. j \in 1 .. i - 1
  BY <1>1, <1>4, <1>5, <1>6
<1>8. r.window = <<b[j], b[i]>>
  BY <1>3, <1>4, <1>6
<1>9. n = 1 => b[j] = start
  BY <1>2, <1>4
<1>10. ASSUME n # 1 PROVE InRow(m, live, start, n - 1, c, j)
  <2>1. n - 1 \in Nat \ {0} /\ n - 1 \in 1 .. n - 1 /\ (n - 1) + 1 = n
    BY <1>2, <1>10
  <2>2. c[n - 1][2] = b[j]
    BY <1>2, <1>4, <2>1
  <2>3. /\ \A h \in 1 .. n - 1 : \E x \in live : x.window = c[h]
        /\ \A h \in 1 .. (n - 1) - 1 : c[h][2] = c[h + 1][1]
    BY <1>2
  <2> QED BY <1>2, <2>1, <2>2, <2>3 DEF InRow, b
<1> QED BY <1>4, <1>7, <1>8, <1>9, <1>10 DEF b

\* For every row of windows there is an entry that is as short.
LEMMA RowsFound ==
  ASSUME NEW m, NEW live, Routable(m, live), NEW prefer, NEW start
  PROVE  \A i \in DOMAIN m.boundaries : \A n, c :
           InRow(m, live, start, n, c, i) => \E e \in Best(m, live, prefer, start)[i] : e.hops <= n
<1> DEFINE B == Best(m, live, prefer, start)
           Found(i) == \A n, c : InRow(m, live, start, n, c, i) => \E e \in B[i] : e.hops <= n
           Bad == {i \in DOMAIN m.boundaries : ~Found(i)}
<1>1. m.boundaries \in Seq(Nat) /\ DOMAIN m.boundaries \subseteq Nat
  BY DEF Routable
<1>2. \A i \in DOMAIN m.boundaries : B[i] = At(m, live, prefer, start, B, i)
  BY <1>1, BestIs
<1>3. \A i \in DOMAIN m.boundaries : \A e \in B[i] : Chained(m, live, start, e, i)
  BY EntriesChain
<1> SUFFICES ASSUME Bad # {} PROVE FALSE
  OBVIOUS
<1> HIDE DEF B
<1>4. PICK i \in Bad : \A y \in Bad : i <= y
  <2>1. Bad \subseteq Nat
    BY <1>1
  <2> HIDE DEF Bad
  <2> QED BY <2>1, MinIs
<1>5. i \in DOMAIN m.boundaries /\ i \in Nat
  BY <1>1
<1>6. PICK n, c : InRow(m, live, start, n, c, i) /\ ~ \E e \in B[i] : e.hops <= n
  BY <1>4
<1>7. n \in Nat \ {0}
  BY <1>6 DEF InRow
<1>8. m.boundaries[i] # start
  <2> SUFFICES ASSUME m.boundaries[i] = start PROVE FALSE
    OBVIOUS
  <2> DEFINE e == [backend |-> "", hops |-> 0, penalty |-> 0, path |-> <<>>]
  <2>1. e \in B[i] /\ e.hops = 0
    BY <1>2, <1>5 DEF At
  <2> HIDE DEF e
  <2> QED BY <1>6, <1>7, <2>1
<1>9. PICK j \in 1 .. i - 1 :
        /\ j \in DOMAIN m.boundaries
        /\ \E r \in live : r.window = <<m.boundaries[j], m.boundaries[i]>>
        /\ n = 1 => m.boundaries[j] = start
        /\ n # 1 => InRow(m, live, start, n - 1, c, j)
  BY <1>5, <1>6, LastOfRow
<1>10. \E e \in B[j] : e.hops <= n - 1
  <2>1. CASE n = 1
    <3> DEFINE e == [backend |-> "", hops |-> 0, penalty |-> 0, path |-> <<>>]
    <3>1. e \in B[j] /\ e.hops = 0
      BY <1>2, <1>9, <2>1 DEF At
    <3> HIDE DEF e
    <3> QED BY <2>1, <3>1
  <2>2. CASE n # 1
    <3>1. j \notin Bad
      <4>1. ~(i <= j)
        BY <1>5
      <4> HIDE DEF Bad
      <4> QED BY <1>4, <4>1
    <3>2. Found(j)
      BY <1>9, <3>1
    <3> QED BY <1>9, <2>2, <3>2
  <2> QED BY <2>1, <2>2
<1>11. PICK e \in B[j] : e.hops <= n - 1
  BY <1>10
<1> DEFINE w == <<m.boundaries[j], m.boundaries[i]>>
           x == Extend(live, e, w, prefer)
<1>12. e.hops \in Nat /\ \E r \in live : r.window = w
  BY <1>3, <1>9, <1>11 DEF Chained
<1>13. x \in Reaching(m, live, prefer, B, i)
  BY <1>9, <1>11, ReachingIs
<1>14. x.hops = e.hops + 1
  <2> HIDE DEF w
  <2> QED BY <1>12, ExtendIs
<1>15. \A y \in Reaching(m, live, prefer, B, i) : y.hops \in Nat /\ y.penalty \in Nat
  <2> SUFFICES ASSUME NEW y \in Reaching(m, live, prefer, B, i) PROVE y.hops \in Nat /\ y.penalty \in Nat
    OBVIOUS
  <2>1. PICK k \in 1 .. i - 1 : \E h \in B[k] :
          /\ \E r \in live : r.window = <<m.boundaries[k], m.boundaries[i]>>
          /\ y = Extend(live, h, <<m.boundaries[k], m.boundaries[i]>>, prefer)
    BY ReachingIs
  <2>2. PICK h \in B[k] :
          /\ \E r \in live : r.window = <<m.boundaries[k], m.boundaries[i]>>
          /\ y = Extend(live, h, <<m.boundaries[k], m.boundaries[i]>>, prefer)
    BY <2>1
  <2>3. Chained(m, live, start, h, k)
    <3>1. k \in DOMAIN m.boundaries
      BY <1>1, <1>5
    <3> QED BY <1>3, <3>1
  <2>4. Chained(m, live, start, y, i)
    BY <2>2, <2>3, ChainsOn
  <2> QED BY <2>4 DEF Chained
<1>16. PICK y \in B[i] : y.hops <= x.hops
  <2> HIDE DEF x
  <2>1. \E y \in At(m, live, prefer, start, B, i) : y.hops <= x.hops
    BY <1>8, <1>13, <1>15, AtIs
  <2> QED BY <1>2, <1>5, <2>1
<1>17. y.hops \in Nat
  BY <1>3, <1>5 DEF Chained
<1>18. y.hops <= n
  <2> HIDE DEF x
  <2> QED BY <1>7, <1>11, <1>12, <1>14, <1>16, <1>17
<1> QED BY <1>6, <1>16, <1>18

-----------------------------------------------------------------------------
\* The alternates of a hop.

\* Triples are compared by their parts in turn.
LEMMA LessTriple ==
  ASSUME NEW a \in Nat, NEW b \in Nat, NEW c \in Nat, NEW d \in Nat, NEW e \in Nat, NEW f \in Nat
  PROVE  Less(<<a, b, c>>, <<d, e, f>>) <=> a < d \/ (a = d /\ (b < e \/ (b = e /\ c < f)))
<1> DEFINE s == <<a, b, c>>
           t == <<d, e, f>>
<1>1. /\ DOMAIN s = {1, 2, 3} /\ s[1] = a /\ s[2] = b /\ s[3] = c /\ t[1] = d /\ t[2] = e /\ t[3] = f
      /\ 1 .. 1 - 1 = {} /\ 1 .. 2 - 1 = {1} /\ 1 .. 3 - 1 = {1, 2}
  OBVIOUS
<1> HIDE DEF s, t
<1>2. Less(s, t) <=> \E i \in {1, 2, 3} : s[i] < t[i] /\ \A j \in 1 .. i - 1 : s[j] = t[j]
  BY <1>1 DEF Less
<1>3. Less(s, t) <=> s[1] < t[1] \/ (s[2] < t[2] /\ s[1] = t[1]) \/ (s[3] < t[3] /\ s[1] = t[1] /\ s[2] = t[2])
  BY <1>1, <1>2
<1>4. Less(s, t) <=> a < d \/ (b < e /\ a = d) \/ (c < f /\ a = d /\ b = e)
  BY <1>1, <1>3
<1> QED BY <1>4 DEF s, t

\* In a finite order everything has a place of its own.
LEMMA Places ==
  ASSUME NEW S, IsFiniteSet(S), NEW R,
         \A x \in S : <<x, x>> \notin R,
         \A x, y, z \in S : <<x, y>> \in R /\ <<y, z>> \in R => <<x, z>> \in R,
         \A x, y \in S : x = y \/ <<x, y>> \in R \/ <<y, x>> \in R
  PROVE  LET rank(q) == Cardinality({p \in S : <<p, q>> \in R})
         IN /\ \A q \in S : rank(q) \in 0 .. Cardinality(S) - 1
            /\ \A i \in 0 .. Cardinality(S) - 1 : \E q \in S : rank(q) = i
            /\ \A p, q \in S : rank(p) = rank(q) => p = q
<1> DEFINE n == Cardinality(S)
           below(q) == {p \in S : <<p, q>> \in R}
           rank == [q \in S |-> Cardinality(below(q))]
<1>1. n \in Nat /\ \A q \in S : IsFiniteSet(below(q))
  BY FS_CardinalityType, FS_Subset
<1>2. ASSUME NEW x \in S, NEW y \in S, <<x, y>> \in R PROVE Cardinality(below(x)) < Cardinality(below(y))
  <2>1. below(x) \subseteq below(y) /\ x \in below(y) /\ x \notin below(x)
    BY <1>2
  <2>2. IsFiniteSet(below(y))
    BY <1>1
  <2> HIDE DEF below
  <2>3. IsFiniteSet(below(x)) /\ Cardinality(below(x)) <= Cardinality(below(y))
        /\ (Cardinality(below(x)) = Cardinality(below(y)) => below(x) = below(y))
    BY <2>1, <2>2, FS_Subset
  <2>4. Cardinality(below(x)) \in Nat /\ Cardinality(below(y)) \in Nat
    BY <2>2, <2>3, FS_CardinalityType
  <2> QED BY <2>1, <2>3, <2>4
<1>3. ASSUME NEW q \in S PROVE rank[q] \in 0 .. n - 1
  <2>1. below(q) \subseteq S /\ q \notin below(q)
    OBVIOUS
  <2> HIDE DEF below
  <2>2. IsFiniteSet(below(q)) /\ Cardinality(below(q)) <= n
        /\ (Cardinality(below(q)) = n => below(q) = S)
    BY <2>1, FS_Subset
  <2>3. Cardinality(below(q)) \in Nat
    BY <2>2, FS_CardinalityType
  <2> HIDE DEF n
  <2> QED BY <1>1, <2>1, <2>2, <2>3
<1> HIDE DEF n
<1>4. \A x, y \in S : rank[x] = rank[y] => x = y
  <2>1. ASSUME NEW x \in S, NEW y \in S, <<x, y>> \in R PROVE rank[x] # rank[y]
    <3>1. rank[x] \in 0 .. n - 1 /\ rank[y] \in 0 .. n - 1 /\ rank[x] < rank[y]
      BY <1>2, <1>3, <2>1
    <3> HIDE DEF rank
    <3> QED BY <1>1, <3>1
  <2> HIDE DEF rank
  <2> QED BY <2>1
<1>5. rank \in Injection(S, 0 .. n - 1)
  <2>1. rank \in [S -> 0 .. n - 1]
    BY <1>3
  <2> HIDE DEF rank
  <2> QED BY <1>4, <2>1 DEF Injection, IsInjective
<1>6. IsFiniteSet(0 .. n - 1) /\ Cardinality(0 .. n - 1) = n
  <2>1. CASE n = 0
    <3>1. 0 .. n - 1 = {}
      BY <2>1
    <3> QED BY <2>1, <3>1, FS_EmptySet
  <2>2. CASE n # 0
    BY <1>1, <2>2, FS_Interval
  <2> QED BY <2>1, <2>2
<1>7. rank \in Surjection(S, 0 .. n - 1)
  <2> HIDE DEF rank
  <2> QED BY <1>5, <1>6, FS_Injection DEF n
<1>8. \A q \in S : rank[q] = Cardinality(below(q))
  OBVIOUS
<1>9. /\ \A q \in S : Cardinality(below(q)) \in 0 .. n - 1
      /\ \A i \in 0 .. n - 1 : \E q \in S : Cardinality(below(q)) = i
      /\ \A p, q \in S : Cardinality(below(p)) = Cardinality(below(q)) => p = q
  <2> HIDE DEF rank, below
  <2> QED BY <1>3, <1>4, <1>7, <1>8 DEF Surjection
<1> QED BY <1>9 DEF n

\* They are the other peers of the hop's window.
LEMMA AlternatesAre ==
  ASSUME NEW m, NEW live, Routable(m, live), NEW r
  PROVE  ToSet(Alternates(live, r)) = {q \in live : q.window = r.window /\ q.peer # r.peer}
<1> DEFINE S == {q \in live : q.window = r.window /\ q.peer # r.peer}
           R == {z \in S \X S : Sooner(z[1], z[2], r)}
<1>1. IsFiniteSet(S)
  BY FS_Subset DEF Routable
<1>2. \A q \in S : q.peer \in Nat /\ q.age \in Nat /\ Rank(q.backend = r.backend) \in Nat
  BY DEF Routable, Rank
<1>3. \A p, q \in S : p.peer = q.peer => p = q
  BY DEF Routable
<1> DEFINE a(q) == Rank(q.backend = r.backend)
<1>4. \A p, q \in S : <<p, q>> \in R <=>
        a(p) < a(q) \/ (a(p) = a(q) /\ (p.age < q.age \/ (p.age = q.age /\ p.peer < q.peer)))
  <2> SUFFICES ASSUME NEW p \in S, NEW q \in S
               PROVE  <<p, q>> \in R <=>
                        a(p) < a(q) \/ (a(p) = a(q) /\ (p.age < q.age \/ (p.age = q.age /\ p.peer < q.peer)))
    OBVIOUS
  <2>1. <<p, q>> \in R <=> Less(<<a(p), p.age, p.peer>>, <<a(q), q.age, q.peer>>)
    BY DEF Sooner
  <2> DEFINE pa == p.age
             pp == p.peer
             qa == q.age
             qp == q.peer
             ap == a(p)
             aq == a(q)
  <2>2. ap \in Nat /\ aq \in Nat /\ pa \in Nat /\ qa \in Nat /\ pp \in Nat /\ qp \in Nat
    BY <1>2
  <2>3. Less(<<ap, pa, pp>>, <<aq, qa, qp>>)
          <=> ap < aq \/ (ap = aq /\ (pa < qa \/ (pa = qa /\ pp < qp)))
    <3> HIDE DEF pa, pp, qa, qp, ap, aq
    <3> QED BY <2>2, LessTriple
  <2> QED BY <2>1, <2>3
<1>5. \A q \in S : a(q) \in Nat
  BY <1>2
<1> HIDE DEF a, R, S
<1>6. \A x \in S : <<x, x>> \notin R
  BY <1>2, <1>4, <1>5
<1>7. \A x, y, z \in S : <<x, y>> \in R /\ <<y, z>> \in R => <<x, z>> \in R
  BY <1>2, <1>4, <1>5
<1>8. \A x, y \in S : x = y \/ <<x, y>> \in R \/ <<y, x>> \in R
  <2> SUFFICES ASSUME NEW x \in S, NEW y \in S PROVE x = y \/ <<x, y>> \in R \/ <<y, x>> \in R
    OBVIOUS
  <2>1. /\ a(x) \in Nat /\ a(y) \in Nat /\ x.age \in Nat /\ y.age \in Nat
        /\ x.peer \in Nat /\ y.peer \in Nat
    BY <1>2, <1>5
  <2>2. x.peer = y.peer => x = y
    BY <1>3
  <2> QED BY <1>4, <2>1, <2>2
<1> DEFINE rank(q) == Cardinality({p \in S : <<p, q>> \in R})
           of(i) == CHOOSE q \in S : Cardinality({p \in S : Sooner(p, q, r)}) = i - 1
           n == Cardinality(S)
<1>9. /\ \A q \in S : rank(q) \in 0 .. n - 1
      /\ \A i \in 0 .. n - 1 : \E q \in S : rank(q) = i
      /\ \A p, q \in S : rank(p) = rank(q) => p = q
  BY <1>1, <1>6, <1>7, <1>8, Places
<1>10. \A q \in S : Cardinality({p \in S : Sooner(p, q, r)}) = rank(q)
  <2>1. \A q \in S : {p \in S : <<p, q>> \in R} = {p \in S : Sooner(p, q, r)}
    BY DEF R
  <2> QED BY <2>1
<1>11. n \in Nat
  BY <1>1, FS_CardinalityType
<1>12. Alternates(live, r) = [i \in 1 .. n |-> of(i)]
  BY DEF Alternates, S
<1> HIDE DEF n, rank
<1>13. ASSUME NEW i \in 1 .. n PROVE of(i) \in S
  <2>1. i - 1 \in 0 .. n - 1
    BY <1>11
  <2>2. \E q \in S : Cardinality({p \in S : Sooner(p, q, r)}) = i - 1
    BY <1>9, <1>10, <2>1
  <2> QED BY <2>2
<1>14. ASSUME NEW x \in S PROVE \E i \in 1 .. n : of(i) = x
  <2>1. rank(x) \in Nat /\ rank(x) + 1 \in 1 .. n /\ (rank(x) + 1) - 1 = rank(x)
    BY <1>9, <1>11
  <2>2. \A q \in S : Cardinality({p \in S : Sooner(p, q, r)}) = (rank(x) + 1) - 1 <=> q = x
    BY <1>9, <1>10, <2>1
  <2>3. of(rank(x) + 1) = x
    BY <2>2
  <2> HIDE DEF of
  <2> QED BY <2>1, <2>3
<1>15. ToSet(Alternates(live, r)) = S
  <2> HIDE DEF of
  <2> QED BY <1>12, <1>13, <1>14 DEF ToSet
<1> QED BY <1>15 DEF S

-----------------------------------------------------------------------------
\* Routes.

\* A route's hops are a path, each with the alternates of its peer.
Hops(live, route, path) ==
  /\ path \in Seq(live) /\ DOMAIN route = 1 .. Len(path) /\ Len(route) = Len(path)
  /\ \A i \in 1 .. Len(path) : route[i].primary = path[i] /\ route[i].alternates = Alternates(live, path[i])

\* The route returned is linked and served, and no longer than any row of served windows; there is one if
\* there is such a row.
LEMMA RouteIs ==
  ASSUME NEW m, NEW live, Routable(m, live), NEW prefer, NEW start
  PROVE  LET route == Route(m, live, prefer, start)
             N == Len(m.boundaries)
         IN /\ route # NoRoute =>
                 \E e : /\ Chained(m, live, start, e, N) /\ e.hops # 0
                       /\ Hops(live, route, e.path)
            /\ \A n, c : InRow(m, live, start, n, c, N) => route # NoRoute /\ Len(route) <= n
<1> DEFINE route == Route(m, live, prefer, start)
           N == Len(m.boundaries)
           finals == Best(m, live, prefer, start)[N]
           x == Cheapest(finals)
<1>1. /\ m.boundaries \in Seq(Nat) /\ N \in Nat /\ N \in DOMAIN m.boundaries /\ DOMAIN m.boundaries = 1 .. N
      /\ \A i, j \in DOMAIN m.boundaries : i < j => m.boundaries[i] < m.boundaries[j]
      /\ \A r \in live : r.window \in Windows(m)
  BY DEF Routable
<1>2. route = IF finals = {} THEN NoRoute
              ELSE [i \in DOMAIN x.path |-> [primary |-> x.path[i], alternates |-> Alternates(live, x.path[i])]]
  BY DEF Route
<1>3. \A e \in finals : Chained(m, live, start, e, N)
  BY <1>1, EntriesChain
<1>4. \A n, c : InRow(m, live, start, n, c, N) => \E e \in finals : e.hops <= n
  BY <1>1, RowsFound
<1> HIDE DEF route, finals, x
<1>5. ASSUME finals # {} PROVE x \in finals /\ \A e \in finals : x.hops <= e.hops
  BY <1>3, <1>5, CheapestIs DEF Chained, x
<1>6. ASSUME finals # {} PROVE Hops(live, route, x.path) /\ Len(route) = x.hops /\ Chained(m, live, start, x, N)
  <2>1. Chained(m, live, start, x, N)
    BY <1>3, <1>5, <1>6
  <2>2. x.path \in Seq(live) /\ Len(x.path) = x.hops /\ x.hops \in Nat
    BY <2>1 DEF Chained
  <2> DEFINE h(i) == [primary |-> x.path[i], alternates |-> Alternates(live, x.path[i])]
  <2>3. route = [i \in 1 .. x.hops |-> h(i)]
    BY <1>2, <1>6, <2>2
  <2>4. \A i : h(i).primary = x.path[i] /\ h(i).alternates = Alternates(live, x.path[i])
    OBVIOUS
  <2> HIDE DEF h
  <2>5. DOMAIN route = 1 .. x.hops /\ Len(route) = x.hops /\ \A i \in 1 .. x.hops : route[i] = h(i)
    BY <2>2, <2>3
  <2> QED BY <2>1, <2>2, <2>4, <2>5 DEF Hops
<1>7. ASSUME route # NoRoute PROVE finals # {} /\ x.hops # 0
  <2>1. finals # {}
    BY <1>2, <1>7
  <2>2. x.hops # 0
    <3> SUFFICES ASSUME x.hops = 0 PROVE FALSE
      OBVIOUS
    <3>1. Chained(m, live, start, x, N)
      BY <1>6, <2>1
    <3>2. x.path = <<>>
      BY <3>1 DEF Chained
    <3> QED BY <1>2, <1>7, <2>1, <3>2 DEF NoRoute
  <2> QED BY <2>1, <2>2
<1>8. ASSUME NEW n, NEW c, InRow(m, live, start, n, c, N) PROVE route # NoRoute /\ Len(route) <= n
  <2>1. PICK e \in finals : e.hops <= n
    BY <1>4, <1>8
  <2>2. finals # {} /\ x.hops \in Nat /\ e.hops \in Nat /\ n \in Nat \ {0} /\ x.hops <= e.hops
    BY <1>3, <1>5, <1>8, <2>1 DEF Chained, InRow
  <2>3. m.boundaries[N] # start
    <3>1. 1 \in 1 .. n /\ c[1][1] = start
      BY <1>8, <2>2 DEF InRow
    <3>2. PICK r \in live : r.window = c[1]
      BY <1>8, <3>1 DEF InRow
    <3>3. PICK v \in ToSet(m.boundaries), w \in ToSet(m.boundaries) : c[1] = <<v, w>> /\ v < w
      BY <1>1, <3>2 DEF Windows
    <3>4. PICK j \in DOMAIN m.boundaries : m.boundaries[j] = w
      BY <3>3 DEF ToSet
    <3>5. PICK k \in DOMAIN m.boundaries : m.boundaries[k] = v
      BY <3>3 DEF ToSet
    <3>6. v \in Nat /\ w \in Nat /\ m.boundaries[N] \in Nat /\ start = v /\ j \in 1 .. N
      BY <1>1, <3>1, <3>3, <3>4, <3>5
    <3>7. j = N \/ m.boundaries[j] < m.boundaries[N]
      <4>1. j = N \/ j < N
        BY <1>1, <3>6
      <4> HIDE DEF N
      <4> QED BY <1>1, <3>4, <4>1
    <3> QED BY <3>3, <3>4, <3>6, <3>7
  <2>4. x.hops # 0
    BY <1>6, <2>2, <2>3 DEF Chained
  <2>5. Len(route) = x.hops
    BY <1>6, <2>2
  <2>6. route # NoRoute
    BY <2>4, <2>5 DEF NoRoute
  <2> QED BY <2>1, <2>2, <2>5, <2>6
<1> QED BY <1>6, <1>7, <1>8 DEF route

-----------------------------------------------------------------------------
\* The routes of a peer.

\* What a peer believes of the others is fit to be routed over.
LEMMA LiveRoutable ==
  ASSUME Rising, Types, NEW p \in Peer
  PROVE  Routable(manifest, Live(Believed(p)))
<1> DEFINE live == Live(Believed(p))
           b == manifest.boundaries
<1>1. b \in Seq(Nat) /\ b # <<>> /\ \A i, j \in DOMAIN b : i < j => b[i] < b[j]
  <2>1. manifest \in Manifests
    BY DEF Types, RestOK
  <2> QED BY <2>1 DEF Rising
<1>2. IsFiniteSet(live)
  BY LiveIs
<1>3. \A r \in live : r.peer \in Peer /\ Believed(p)[r.peer] # NoWindow
                     /\ r = Record(r.peer, Believed(p)[r.peer]) /\ r.window = Believed(p)[r.peer]
  BY LiveIs
<1>4. ASSUME NEW r \in live PROVE r.window \in Windows(manifest) /\ r.peer \in Nat /\ r.age \in Nat
  <2>1. r.window \in Fits(r.peer)
    BY <1>3, BelievedSeen DEF Seen
  <2>2. r.age = 0
    BY <1>3 DEF Record
  <2>3. r.window \in Windows(manifest)
    BY <1>3, <2>1, WindowIs
  <2>4. r.peer \in Nat
    BY <1>3, MoverAssumption
  <2> QED BY <2>2, <2>3, <2>4
<1>5. \A r, q \in live : r.peer = q.peer => r = q
  BY <1>3
<1> HIDE DEF live
<1> QED BY <1>1, <1>2, <1>4, <1>5 DEF Routable, live

\* What RouteShortest says of a route.
LEMMA RouteIsShortest ==
  ASSUME Rising, Types, NEW p \in Peer, NEW start
  PROVE  LET live == Live(Believed(p))
             route == Route(manifest, live, Backend[p], start)
         IN /\ \A n \in Nat \ {0} : Chains(live, start, n) # {} => route # NoRoute /\ Len(route) <= n
            /\ route # NoRoute =>
                 /\ [i \in DOMAIN route |-> route[i].primary.window] \in Chains(live, start, Len(route))
                 /\ \A i \in DOMAIN route :
                      /\ ToSet(route[i].alternates) \cup {route[i].primary}
                           = {r \in live : r.window = route[i].primary.window}
                      /\ route[i].primary \notin ToSet(route[i].alternates)
<1> DEFINE live == Live(Believed(p))
           route == Route(manifest, live, Backend[p], start)
           b == manifest.boundaries
<1>1. Routable(manifest, live)
  BY LiveRoutable
<1> HIDE DEF live
<1>2. b \in Seq(Nat) /\ b # <<>> /\ \A r, q \in live : r.peer = q.peer => r = q
  BY <1>1 DEF Routable
<1>3. End(manifest) = b[Len(b)]
  BY <1>2 DEF End, Last
<1>4. /\ route # NoRoute => \E e : /\ Chained(manifest, live, start, e, Len(b)) /\ e.hops # 0
                                  /\ Hops(live, route, e.path)
      /\ \A n, c : InRow(manifest, live, start, n, c, Len(b)) => route # NoRoute /\ Len(route) <= n
  BY <1>1, RouteIs
<1> HIDE DEF route
<1>5. ASSUME NEW n \in Nat \ {0}, Chains(live, start, n) # {} PROVE route # NoRoute /\ Len(route) <= n
  <2>1. PICK c \in Chains(live, start, n) : TRUE
    BY <1>5
  <2>2. /\ c \in [1 .. n -> {r.window : r \in live}] /\ c[1][1] = start /\ c[n][2] = End(manifest)
        /\ \A i \in 1 .. n - 1 : c[i][2] = c[i + 1][1]
    BY <2>1 DEF Chains
  <2>3. \A k \in 1 .. n : \E r \in live : r.window = c[k]
    BY <2>2
  <2>4. InRow(manifest, live, start, n, c, Len(b))
    BY <1>3, <2>2, <2>3 DEF InRow
  <2> QED BY <1>4, <2>4
<1>6. ASSUME route # NoRoute
      PROVE  /\ [i \in DOMAIN route |-> route[i].primary.window] \in Chains(live, start, Len(route))
             /\ \A i \in DOMAIN route :
                  /\ ToSet(route[i].alternates) \cup {route[i].primary}
                       = {r \in live : r.window = route[i].primary.window}
                  /\ route[i].primary \notin ToSet(route[i].alternates)
  <2>1. PICK e : /\ Chained(manifest, live, start, e, Len(b)) /\ e.hops # 0
                 /\ Hops(live, route, e.path)
    BY <1>4, <1>6
  <2>2. /\ e.hops \in Nat \ {0} /\ e.path \in Seq(live) /\ Len(e.path) = e.hops
        /\ e.path[1].window[1] = start /\ e.path[e.hops].window[2] = b[Len(b)]
        /\ \A k \in 1 .. e.hops - 1 : e.path[k].window[2] = e.path[k + 1].window[1]
    BY <2>1 DEF Chained
  <2>3. /\ DOMAIN route = 1 .. e.hops /\ Len(route) = e.hops
        /\ \A i \in 1 .. e.hops : /\ route[i].primary = e.path[i] /\ e.path[i] \in live
                                  /\ route[i].alternates = Alternates(live, e.path[i])
    BY <2>1, <2>2 DEF Hops
  <2> DEFINE c == [i \in DOMAIN route |-> route[i].primary.window]
  <2>4. c \in Chains(live, start, Len(route))
    <3>1. /\ c \in [1 .. e.hops -> {r.window : r \in live}]
          /\ \A i \in 1 .. e.hops : c[i] = e.path[i].window
      BY <2>3
    <3>2. 1 \in 1 .. e.hops /\ e.hops \in 1 .. e.hops
          /\ \A k \in 1 .. e.hops - 1 : k \in 1 .. e.hops /\ k + 1 \in 1 .. e.hops
      BY <2>2
    <3> HIDE DEF c
    <3>3. /\ c[1][1] = start /\ c[e.hops][2] = End(manifest)
          /\ \A k \in 1 .. e.hops - 1 : c[k][2] = c[k + 1][1]
      BY <1>3, <2>2, <3>1, <3>2
    <3> QED BY <2>3, <3>1, <3>3 DEF Chains
  <2>5. ASSUME NEW i \in DOMAIN route
        PROVE  /\ ToSet(route[i].alternates) \cup {route[i].primary}
                    = {r \in live : r.window = route[i].primary.window}
               /\ route[i].primary \notin ToSet(route[i].alternates)
    <3> DEFINE x == e.path[i]
    <3>1. x \in live /\ route[i].primary = x /\ route[i].alternates = Alternates(live, x)
      BY <2>3
    <3> HIDE DEF x
    <3>2. ToSet(Alternates(live, x)) = {q \in live : q.window = x.window /\ q.peer # x.peer}
      BY <1>1, AlternatesAre
    <3> QED BY <1>2, <3>1, <3>2
  <2> QED BY <2>4, <2>5
<1> QED BY <1>5, <1>6 DEF live, route

\* Every view gives a shortest route, if there is a chain at all, with the other peers of each
\* window as alternates (best_route, placement.py:173).
THEOREM RoutesShortest == Rising => (Spec => []RoutesSound)
<1> SUFFICES ASSUME Rising PROVE Spec => []RoutesSound
  OBVIOUS
<1>1. Init => IInv
  BY InitInv
<1>2. IInv /\ [Next]_vars => IInv'
  BY NextInv
<1>3. IInv => RoutesSound
  <2> SUFFICES ASSUME IInv PROVE RoutesSound
    OBVIOUS
  <2>1. Types /\ TypeOK
    BY TypesSay DEF IInv
  <2>2. IsFiniteSet(Stages(manifest)) /\ 1 .. Cardinality(Stages(manifest)) \subseteq Nat \ {0}
    <3> DEFINE b == manifest.boundaries
               D == 1 .. Len(b) - 1
               f == [i \in D |-> <<b[i], b[i + 1]>>]
    <3>1. manifest \in Manifests
      BY <2>1 DEF Types, RestOK
    <3>2. Len(b) \in Nat
      BY <3>1 DEF Rising
    <3>3. IsFiniteSet(D)
      BY <3>2, FS_Interval
    <3>4. f \in Surjection(D, Stages(manifest))
      BY DEF Surjection, Stages
    <3>5. IsFiniteSet(Stages(manifest))
      BY <3>3, <3>4, FS_Surjection
    <3>6. Cardinality(Stages(manifest)) \in Nat
      BY <3>5, FS_CardinalityType
    <3> QED BY <3>5, <3>6
  <2>3. RouteShortest
    BY <2>1, <2>2, RouteIsShortest DEF RouteShortest
  <2> QED BY <2>1, <2>3 DEF RoutesSound
<1> QED BY <1>1, <1>2, <1>3, PTL DEF Spec
=============================================================================
