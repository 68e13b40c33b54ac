-------------------------------- MODULE Gossip --------------------------------
(***************************************************************************)
(* The gossip loop (commonnet/mesh/gossip.py Gossiper): every few seconds  *)
(* a peer swaps tables with some of the peers it sees and with a seed.     *)
(* Which record of a peer a table may hold is the subject of PeerTable;    *)
(* here it is how old the record is, since a peer is seen while its record *)
(* is fresh, and only a new signature makes it fresher.                    *)
(*                                                                         *)
(* A tick is a round: in each, every running peer has one.                 *)
(***************************************************************************)
EXTENDS Integers, FiniteSets

CONSTANTS
  Peer,
  Seeds,          \* per peer: the peers whose addresses it was started with
  FANOUT,
  SKIP,           \* FAILURES_BEFORE_SKIP
  LIVE,           \* LIVE_SECONDS, in rounds
  MaxFaults       \* links that break, lost replies, peers that stop or restart

Unseen == LIVE + 1            \* a record too old to be seen, or none

VARIABLES
  up,        \* the peers that run
  broken,    \* pairs of peers that cannot reach each other
  age,       \* per peer and peer: rounds since the record it holds was signed
  failures,  \* per peer and peer: Gossiper.failures, up to SKIP
  ask,       \* per peer: who is still to be asked in this round
  turn,      \* the peers that have not begun this round
  faults

vars == <<up, broken, age, failures, ask, turn, faults>>

Pairs == {s \in SUBSET Peer : Cardinality(s) = 2}

TypeOK == /\ up \subseteq Peer /\ broken \subseteq Pairs
          /\ age \in [Peer -> [Peer -> 0..Unseen]]
          /\ failures \in [Peer -> [Peer -> 0..SKIP]]
          /\ \A p \in Peer : ask[p] \subseteq Peer \ {p} /\ Cardinality(ask[p]) <= FANOUT + 1
          /\ turn \subseteq up
          /\ faults \in 0..MaxFaults

\* Everyone has just started and knows its seeds' addresses only.
Init == /\ up = Peer /\ broken = {}
        /\ age = [p \in Peer |-> [q \in Peer |-> IF p = q THEN 0 ELSE Unseen]]
        /\ failures = [p \in Peer |-> [q \in Peer |-> 0]]
        /\ ask = [p \in Peer |-> {}] /\ turn = Peer
        /\ faults = 0

Fault == faults < MaxFaults /\ faults' = faults + 1
Reaches(p, q) == q \in up /\ {p, q} \notin broken

-----------------------------------------------------------------------------
\* run_round

Seen(p) == {q \in Peer \ {p} : age[p][q] <= LIVE}
Skipped(p, q) == failures[p][q] >= SKIP

\* Any FANOUT of the peers seen and not skipped, or all when they are fewer.
Fanouts(p) ==
  LET pool == {q \in Seen(p) : ~Skipped(p, q)}
  IN {s \in SUBSET pool : Cardinality(s) = FANOUT \/ (s = pool /\ Cardinality(pool) <= FANOUT)}

\* One seed beside them.  A skipped seed is asked when there is nobody else, or
\* never.
WithSeedNever(p, s) ==
  IF Seeds[p] \ {p} = {} THEN {s}
  ELSE {IF ~Skipped(p, seed) THEN s \cup {seed} ELSE s : seed \in Seeds[p] \ {p}}
WithSeed(p, s) ==
  IF Seeds[p] \ {p} = {} THEN {s}
  ELSE {IF ~Skipped(p, seed) \/ s = {} THEN s \cup {seed} ELSE s : seed \in Seeds[p] \ {p}}

\* The own record is signed anew, and the round's targets are chosen.
Begin(p) ==
  /\ p \in turn /\ turn' = turn \ {p}
  /\ age' = [age EXCEPT ![p][p] = 0]
  /\ \E s \in Fanouts(p) : \E t \in WithSeed(p, s) : ask' = [ask EXCEPT ![p] = t]
  /\ UNCHANGED <<up, broken, failures, faults>>

Younger(a, b) == IF a < b THEN a ELSE b
\* A relay that stamps the records it passes on.
MergedNow(mine, theirs) == [x \in Peer |-> IF theirs[x] <= LIVE THEN 0 ELSE mine[x]]
\* A table after it has merged what another exports.
Merged(mine, theirs) ==
  [x \in Peer |-> IF theirs[x] <= LIVE THEN Younger(mine[x], theirs[x]) ELSE mine[x]]

\* exchange: the other merges ours and answers with its own; or there is no
\* answer.
Exchange(p) ==
  \E q \in ask[p] :
    LET there == Merged(age[q], age[p]) IN
    /\ ask' = [ask EXCEPT ![p] = @ \ {q}]
    /\ \/ /\ Reaches(p, q)
          /\ age' = [age EXCEPT ![q] = there, ![p] = Merged(@, there)]
          /\ failures' = [failures EXCEPT ![p][q] = 0]
          /\ UNCHANGED faults
       \/ /\ IF Reaches(p, q) THEN Fault /\ age' = [age EXCEPT ![q] = there]
                              ELSE UNCHANGED <<age, faults>>
          /\ failures' = [failures EXCEPT ![p][q] = IF @ < SKIP THEN @ + 1 ELSE @]
    /\ UNCHANGED <<up, broken, turn>>

Round == \E p \in Peer : Begin(p) \/ Exchange(p)

\* A stopped peer that goes on with its rounds.
TickAll == /\ turn = {} /\ \A p \in Peer : ask[p] = {}
        /\ turn' = Peer
        /\ age' = [p \in Peer |-> [q \in Peer |-> IF age[p][q] < Unseen THEN age[p][q] + 1 ELSE Unseen]]
        /\ UNCHANGED <<up, broken, failures, ask, faults>>
\* Everyone's round is over, and the records are a round older.
Tick == /\ turn = {} /\ \A p \in Peer : ask[p] = {}
        /\ turn' = up
        /\ age' = [p \in Peer |-> [q \in Peer |-> IF age[p][q] < Unseen THEN age[p][q] + 1 ELSE Unseen]]
        /\ UNCHANGED <<up, broken, failures, ask, faults>>

-----------------------------------------------------------------------------
\* The world, between two rounds.

Quiet == turn = {} /\ \A p \in Peer : ask[p] = {}
Break(s) == /\ Quiet /\ Fault /\ s \notin broken /\ broken' = broken \cup {s}
            /\ UNCHANGED <<up, age, failures, ask, turn>>
Mend(s) == /\ Quiet /\ s \in broken /\ broken' = broken \ {s}
           /\ UNCHANGED <<up, age, failures, ask, turn, faults>>
Stop(p) == /\ Quiet /\ Fault /\ p \in up /\ up' = up \ {p}
           /\ UNCHANGED <<broken, age, failures, ask, turn>>
\* A process starts with an empty table.
Restart(p) == /\ Quiet /\ p \notin up /\ up' = up \cup {p}
              /\ age' = [age EXCEPT ![p] = [q \in Peer |-> IF p = q THEN 0 ELSE Unseen]]
              /\ failures' = [failures EXCEPT ![p] = [q \in Peer |-> 0]]
              /\ UNCHANGED <<broken, ask, turn, faults>>

World == (\E s \in Pairs : Break(s) \/ Mend(s)) \/ \E p \in Peer : Stop(p) \/ Restart(p)
Next == Round \/ Tick \/ World

Spec == Init /\ [][Next]_vars
FairSpec == Spec /\ WF_vars(Round) /\ WF_vars(Tick)

-----------------------------------------------------------------------------
\* Properties.

\* The seeds of everyone that runs are running and all links work.
Settled == broken = {} /\ \A p \in up : Seeds[p] \ {p} \subseteq up

\* Once the links work and the seeds are there for good, everyone sees
\* everyone again and goes on doing so, whatever was skipped on the way.
Converges == <>[]Settled => <>[](\A p, q \in up : age[p][q] <= LIVE)

\* A peer that is gone for good is seen by nobody in the end: passing a record
\* on does not make it fresher.
Fades == \A q \in Peer : <>[](q \notin up) => <>[](\A p \in up : age[p][q] > LIVE)

\* What a peer holds of another was signed by it: never fresher than the
\* other's own record.
NeverFresher == \A p, q \in Peer : q \in up /\ age[q][q] <= LIVE => age[p][q] >= age[q][q]

\* "A peer that fails three exchanges in a row is skipped until it answers
\* again" (gossip.py:194): a peer or seed that could answer from some time on
\* is not skipped for ever.
SkipEnds ==
  \A p, q \in Peer :
    <>[](p \in up /\ Reaches(p, q) /\ q \in Seen(p) \cup Seeds[p]) => []<>~Skipped(p, q)
=============================================================================
