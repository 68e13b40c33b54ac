-------------------------------- MODULE Mover --------------------------------
(***************************************************************************)
(* The peers of one network choosing the layers they serve: each joins with*)
(* a window that fits what it has heard, and when a stage loses every peer *)
(* one that can be spared moves there (commonnet/node.py: start, _choose,  *)
(* _mover, _maybe_move, move), by the rules of Placement.                  *)
(*                                                                         *)
(* Gossip is reduced to what a decision reads of it: which window a peer   *)
(* believes each other one to be serving, brought up to date one pair at a *)
(* time.  PeerTable and Gossip model how records travel.                   *)
(***************************************************************************)
EXTENDS Placement

CONSTANTS
  Peer,        \* peer ids, numbers as they are ordered
  Manifests,   \* the manifests a network may have
  Gib,         \* by peer: the memory it offers
  Backend,     \* by peer
  Disk,        \* by peer: the windows it has downloaded before
  Pinned,      \* peers started with --layers
  MaxFaults    \* processes that end, blocks that do not load, records unheard

ASSUME MoverAssumption ==
  /\ Peer \subseteq Nat /\ IsFiniteSet(Peer) /\ Pinned \subseteq Peer
  /\ Gib \in [Peer -> Nat] /\ MaxFaults \in Nat

VARIABLES
  manifest,
  node,    \* "out"; "starting" and "moving" while a block is loaded; "up";
           \* "looking" between the two looks of _maybe_move; "stuck" after a
           \* move whose block did not load
  window,  \* the window served or being loaded
  view,    \* table: the window p believes q to serve, NoWindow for none
  cooling, \* peers that moved less than cooldown_s ago
  faults

vars == <<manifest, node, window, view, cooling, faults>>

Serving(p) == IF node[p] \in {"up", "looking"} THEN window[p] ELSE NoWindow
Record(p, w) == [peer |-> p, window |-> w, gib |-> Gib[p], backend |-> Backend[p], age |-> 0]

\* table.live(): what a peer says of itself is in its own table at once.
Believed(p) == [q \in Peer |-> IF q = p THEN Serving(p) ELSE view[p][q]]
Live(known) == {Record(q, known[q]) : q \in {r \in Peer : known[r] # NoWindow}}
True == Live([q \in Peer |-> Serving(q)])

Covered(live) == Uncovered(manifest, live) = {}
Fits(p) == Fitting(manifest, Gib[p], Backend[p])

TypeOK ==
  /\ manifest \in Manifests
  /\ node \in [Peer -> {"out", "starting", "up", "looking", "moving", "stuck"}]
  /\ window \in [Peer -> Windows(manifest) \cup {NoWindow}]
  /\ \A p \in Peer : /\ node[p] = "out" <=> window[p] = NoWindow
                     /\ node[p] # "out" => window[p] \in Fits(p)
  /\ view \in [Peer -> [Peer -> Windows(manifest) \cup {NoWindow}]]
  /\ \A p \in Peer : view[p][p] = NoWindow
  /\ cooling \subseteq Peer /\ faults \in 0..MaxFaults

Init ==
  /\ manifest \in Manifests
  /\ node = [p \in Peer |-> "out"] /\ window = [p \in Peer |-> NoWindow]
  /\ view = [p \in Peer |-> [q \in Peer |-> NoWindow]]
  /\ cooling = {} /\ faults = 0

-----------------------------------------------------------------------------
\* Joining.

\* _choose: the window given with --layers, or the best one by the records
\* learned from the directory and the seeds.
Choose(p, w) ==
  p \notin Pinned =>
    w = ChooseWindow(manifest, Live(view'[p]), Gib[p], Backend[p], p,
                     [v \in Windows(manifest) |-> IF v \in Disk[p] THEN Length(v) ELSE 0])

Start(p) ==
  /\ node[p] = "out" /\ node' = [node EXCEPT ![p] = "starting"]
  /\ \E learned \in SUBSET Peer :
       view' = [view EXCEPT ![p] = [q \in Peer |-> IF q \in learned \ {p} THEN Serving(q)
                                                   ELSE NoWindow]]
  /\ \E w \in Fits(p) : Choose(p, w) /\ window' = [window EXCEPT ![p] = w]
  /\ UNCHANGED <<manifest, cooling, faults>>

\* The block is loaded and served: start and move end by saying "up".
Up(p) == /\ node[p] \in {"starting", "moving"}
         /\ node' = [node EXCEPT ![p] = "up"]
         /\ UNCHANGED <<manifest, window, view, cooling, faults>>

-----------------------------------------------------------------------------
\* Moving.

\* The peer and the window each peer would choose for itself.
MoverSelf(live, p) ==
  LET w == ShouldMove(manifest, live, p)
  IN IF w = NoWindow THEN {} ELSE {<<p, w>>}

\* _mover as p asks it: the eligible peer with the lowest id, whoever asks.
Mover(live, p) ==
  LET eligible == {q \in Peer : ShouldMove(manifest, live, q) # NoWindow}
  IN IF eligible = {} THEN {}
     ELSE {<<Min(eligible), ShouldMove(manifest, live, Min(eligible))>>}

Chosen(p) == \E c \in Mover(Live(Believed(p)), p) : c[1] = p

\* The first look of _maybe_move.
Look(p) ==
  /\ p \notin Pinned /\ node[p] = "up" /\ p \notin cooling
  /\ Chosen(p)
  /\ node' = [node EXCEPT ![p] = "looking"]
  /\ UNCHANGED <<manifest, window, view, cooling, faults>>

\* The second, a moment later; move says "loading", takes the block down and
\* loads the other.
LookAgain(p) ==
  /\ node[p] = "looking"
  /\ IF Chosen(p)
     THEN /\ \E c \in Mover(Live(Believed(p)), p) : window' = [window EXCEPT ![p] = c[2]]
          /\ node' = [node EXCEPT ![p] = "moving"] /\ cooling' = cooling \cup {p}
     ELSE node' = [node EXCEPT ![p] = "up"] /\ UNCHANGED <<window, cooling>>
  /\ UNCHANGED <<manifest, view, faults>>

\* An exchange with a peer's own address.
HearSelf(p, q) ==
  /\ node[p] # "out" /\ view[p][q] # Serving(q)
  /\ view' = [view EXCEPT ![p][q] = Serving(q)]
  /\ UNCHANGED <<manifest, node, window, cooling, faults>>

\* p hears what q says of itself, or drops the record of a q that is gone.
Hear(p, q) ==
  /\ p # q /\ node[p] # "out" /\ view[p][q] # Serving(q)
  /\ view' = [view EXCEPT ![p][q] = Serving(q)]
  /\ UNCHANGED <<manifest, node, window, cooling, faults>>

\* cooldown_s (five minutes) is over: taken to be longer than it takes every
\* peer to load its window and every record to be heard, or to age out.
Cooled(p) ==
  /\ p \in cooling
  /\ \A q \in Peer : node[q] \in {"out", "up", "stuck"}
  /\ \A q, r \in Peer : q # r /\ node[q] # "out" => view[q][r] = Serving(r)
  /\ cooling' = cooling \ {p}
  /\ UNCHANGED <<manifest, node, window, view, faults>>

-----------------------------------------------------------------------------
\* What goes wrong.

Fault == faults < MaxFaults /\ faults' = faults + 1

\* The process ends: killed, or stopped, or refused its block at the start.
Crash(p) ==
  /\ Fault /\ node[p] # "out"
  /\ node' = [node EXCEPT ![p] = "out"] /\ window' = [window EXCEPT ![p] = NoWindow]
  /\ view' = [view EXCEPT ![p] = [q \in Peer |-> NoWindow]]
  /\ cooling' = cooling \ {p}
  /\ UNCHANGED manifest

\* _serve raises in move: the exception ends in _maintain's log.
MoveFails(p) ==
  /\ Fault /\ node[p] = "moving" /\ node' = [node EXCEPT ![p] = "stuck"]
  /\ UNCHANGED <<manifest, window, view, cooling>>

\* LIVE_SECONDS without a record of a peer that is up.
Overdue(p, q) ==
  /\ Fault /\ view[p][q] # NoWindow /\ Serving(q) # NoWindow
  /\ view' = [view EXCEPT ![p][q] = NoWindow]
  /\ UNCHANGED <<manifest, node, window, cooling>>

Decide(p) == Look(p) \/ LookAgain(p)
Next == \E p \in Peer :
  \/ Start(p) \/ Up(p) \/ Decide(p) \/ Cooled(p) \/ Crash(p) \/ MoveFails(p)
  \/ \E q \in Peer : Hear(p, q) \/ Overdue(p, q)

Spec == Init /\ [][Next]_vars

\* The threads of every node run on and records get through.  The second
\* conjunct is WF_vars(Decide(p)), with ENABLED written out for TLC's sake: p
\* leaves "up" or "looking" only by deciding, or by a fault.
Due(p) == \/ node[p] = "looking"
          \/ p \notin Pinned \cup cooling /\ node[p] = "up" /\ Chosen(p)
FairSpec ==
  /\ Spec
  /\ \A p \in Peer : WF_vars(Up(p) \/ Cooled(p))
  /\ \A p \in Peer : []<>~Due(p) \/ []<><<node'[p] # node[p]>>_vars
  /\ WF_vars(\E p, q \in Peer : Hear(p, q))

-----------------------------------------------------------------------------
\* Properties.

\* "Every peer that could spare itself would see the same empty stage and all move at
\* once, emptying the stages they left.  So only the eligible peer with the lowest id
\* moves" (_mover, node.py:1410): while nothing has failed, no move takes the last peer
\* from a stage, however old the views are.
EmptiesNothing == \A s \in Stages(manifest) : Coverage(True, s) > 0 => Coverage(True', s) > 0
NoMoveEmpties ==
  [][\A p \in Peer : faults = 0 /\ node[p] = "looking" /\ node'[p] = "moving" => EmptiesNothing]_vars

\* So it is where every peer can hold one stage at a time and those that can hold the
\* same stage can hold the same ones: of the holders of a stage that believe each other
\* spare only the one with the lowest id goes, and one that another does not know stays
\* counted.
Alike == /\ \A p \in Peer : Fits(p) \subseteq Stages(manifest)
         /\ \A p, q \in Peer : Fits(p) \cap Fits(q) # {} => Fits(p) = Fits(q)
LastHolderStays ==
  [][\A p \in Peer : faults = 0 /\ node[p] = "looking" /\ node'[p] = "moving" /\ Alike
                       => EmptiesNothing]_vars

\* A peer that could be spared: every stage of its window has another, and it
\* can hold a window over a stage that has none.
CanBeSpared(p) ==
  /\ p \notin Pinned /\ node[p] = "up"
  /\ \A s \in Stages(manifest) : Covers(window[p], s) => Coverage(True, s) >= 2
  /\ \E w \in Fits(p), s \in Uncovered(manifest, True) :
       Covers(w, s)

\* "If a stage loses every peer, a spare peer moves over" (README.md:110):
\* once nothing goes wrong any more, no stage is left without a peer for ever
\* while one could be spared for it.
SpareMoves == <>[](Covered(True) \/ ~\E p \in Peer : CanBeSpared(p))

\* The stages for which the best chain of the windows served lacks a peer.
Missing(live) ==
  LET b == manifest.boundaries
      cost[i \in DOMAIN b] ==
        IF i = 1 THEN 0
        ELSE Min({cost[i - 1] + 1} \cup
                 {cost[j] : j \in {k \in 1 .. i - 1 : Replicas(live, <<b[k], b[i]>>) > 0}})
  IN cost[Len(b)]

\* "A planned split first builds a boundary-aligned route" (placement.py:80):
\* a peer that knows of all the others brings the chain nearer, whatever
\* windows crashes and concurrent joins have left.
PlannedCloses ==
  [][\A p \in Peer \ Pinned :
       /\ manifest.limit # 0 /\ node[p] = "out" /\ node'[p] = "starting"
       /\ \A q \in Peer \ {p} : view'[p][q] = Serving(q)
       /\ Missing(True) > 0
       => Missing(True \cup {Record(p, window'[p])}) < Missing(True)]_vars

\* Over whatever a peer believes, a route is a chain of windows from layer 0,
\* or from where a local front ends, to the end; there is one exactly when some
\* chain exists, none is shorter, and an alternate serves the very window of its
\* hop.
Chains(live, start, n) ==
  {c \in [1..n -> {r.window : r \in live}] :
     /\ c[1][1] = start /\ c[n][2] = End(manifest)
     /\ \A i \in 1 .. n - 1 : c[i][2] = c[i + 1][1]}
RouteShortest ==
  \A p \in Peer, start \in {manifest.boundaries[1], manifest.boundaries[2]} :
    LET live == Live(Believed(p))
        route == Route(manifest, live, Backend[p], start)
    IN /\ \A n \in 1 .. Cardinality(Stages(manifest)) :
            Chains(live, start, n) # {} => route # NoRoute /\ Len(route) <= n
       /\ route # NoRoute =>
            /\ [i \in DOMAIN route |-> route[i].primary.window] \in Chains(live, start, Len(route))
            /\ \A i \in DOMAIN route :
                 /\ ToSet(route[i].alternates) \cup {route[i].primary}
                      = {r \in live : r.window = route[i].primary.window}
                 /\ route[i].primary \notin ToSet(route[i].alternates)
\* Of the chains of as many hops, a route is one of the lowest penalty ("the chain of peers with the
\* fewest hops, then the lowest penalty").  It need not be: the code keeps, of the peers of a window,
\* the one that is cheapest after the hop before, whatever hop follows.
Cost(c, prefer) ==
  LET cost(i) == Penalty(c[i], IF i = 1 THEN "" ELSE c[i - 1].backend, prefer)
  IN MapThenSumSet(cost, DOMAIN c)
RouteCheapest ==
  \A p \in Peer : \A prefer \in {"", Backend[p]} :
    LET live == Live(Believed(p))
        route == Route(manifest, live, prefer, 0)
        hops == [i \in DOMAIN route |-> route[i].primary]
    IN \A c \in [DOMAIN route -> live] :
         route # NoRoute /\ [i \in DOMAIN c |-> c[i].window] \in Chains(live, 0, Len(route))
           => Cost(hops, prefer) <= Cost(c, prefer)
\* With the types (placement.py, best_route).
RoutesSound == TypeOK /\ RouteShortest
=============================================================================
