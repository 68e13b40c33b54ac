------------------------------ MODULE PeerTable ------------------------------
(***************************************************************************)
(* The tables of signed records by which peers know each other             *)
(* (commonnet/mesh/gossip.py PeerTable, commonnet/mesh/records.py).  Each  *)
(* process keeps the newest record of every peer it has heard of, in       *)
(* memory; there is no directory to ask.                                   *)
(*                                                                         *)
(* Records travel by gossip, /peers, the gateway's directory and the DHT,  *)
(* and any of them may be slow, repeat itself or answer from a cache.  So  *)
(* every record ever signed may be handed to every table at any time, any  *)
(* number of times, in any order.  Which records travel when is the        *)
(* subject of Gossip.                                                      *)
(*                                                                         *)
(* Every process reads its own clock, and nothing keeps the clocks         *)
(* together.  Time is in ticks; ts is the clock and seq the clock in       *)
(* milliseconds, which only the order of matters of.                       *)
(***************************************************************************)
EXTENDS Integers, FiniteSets

CONSTANTS
  Peer,                      \* every process with a table
  Client,                    \* those that only look for a route, and sign nothing
  LIVE, TOMBSTONE, FORGET,   \* LIVE_SECONDS, TOMBSTONE_SECONDS, FORGET_SECONDS
  SKEW,                      \* FUTURE_SKEW_SECONDS
  ClockBack,                 \* how far a clock is set back between two runs
  MaxClock, MaxSigned        \* bounds: ticks of a clock, records ever signed

ASSUME PeerTableAssumption ==
  /\ Client \subseteq Peer
  /\ LIVE \in Nat /\ TOMBSTONE \in Nat /\ FORGET \in Nat /\ SKEW \in Nat
  /\ LIVE <= TOMBSTONE /\ TOMBSTONE <= FORGET
  /\ ClockBack \in Nat /\ MaxClock \in Nat /\ MaxSigned \in Nat

State == {"loading", "up", "leaving"}       \* STATES of records.py
Record == [peer : Peer, seq : Nat, ts : Nat, state : State]

VARIABLES
  clock,     \* per process: time.time()
  state,     \* per process: Node.state, or "off" when it is not running
  last,      \* per process: Identity._last_seq
  table,     \* per process and peer: _records, {} or the one record held
  signed,    \* every record signed so far
  high       \* history: per process and peer, the highest seq it has held

vars == <<clock, state, last, table, signed, high>>

TypeOK == /\ clock \in [Peer -> Nat]
          /\ state \in [Peer -> State \cup {"off"}]
          /\ last \in [Peer -> Nat]
          /\ table \in [Peer -> [Peer -> SUBSET Record]]
          /\ \A o, p \in Peer : \A r, s \in table[o][p] : r = s
          /\ signed \subseteq Record
          /\ high \in [Peer -> [Peer -> Nat]]

NobodyKnown == [p \in Peer |-> {}]

Init == /\ clock = [p \in Peer |-> 1]
        /\ state = [p \in Peer |-> "off"]
        /\ last = [p \in Peer |-> 0]
        /\ table = [p \in Peer |-> NobodyKnown]
        /\ signed = {}
        /\ high = [p \in Peer |-> [q \in Peer |-> 0]]

-----------------------------------------------------------------------------
\* A process

\* A run begins with an empty table and no memory of the seqs it has used; the
\* key is the same file.  It begins at least a millisecond after the last
\* record of the run before.
Start(p) ==
  /\ state[p] = "off" /\ clock[p] > last[p]
  /\ state' = [state EXCEPT ![p] = "loading"]
  /\ \E back \in 0..ClockBack :
       /\ back <= clock[p]
       /\ clock' = [clock EXCEPT ![p] = @ - back]
  /\ last' = [last EXCEPT ![p] = 0]
  /\ table' = [table EXCEPT ![p] = NobodyKnown]
  /\ high' = [high EXCEPT ![p] = [q \in Peer |-> 0]]
  /\ UNCHANGED signed

\* Node.start and Node.move: loading, then up, and loading again; Node.stop.
Turn(p, s) ==
  /\ p \notin Client
  /\ \/ state[p] = "loading" /\ s = "up"
     \/ state[p] = "up" /\ s = "loading"
     \/ state[p] \in {"loading", "up"} /\ s = "leaving"
  /\ state' = [state EXCEPT ![p] = s]
  /\ UNCHANGED <<clock, last, table, signed, high>>

\* A stopped node exits, and any process may be killed.
Exit(p) ==
  /\ state[p] # "off"
  /\ state' = [state EXCEPT ![p] = "off"]
  /\ UNCHANGED <<clock, last, table, signed, high>>

\* The clock alone: two records of one millisecond share a seq.
NextSeqClock(p) == clock[p]
NextSeq(p) == IF clock[p] > last[p] THEN clock[p] ELSE last[p] + 1

\* Node.record: the state is read and signed under one lock.  The process hands
\* the record to its own table as to every other (Merge).
Sign(p) ==
  /\ p \notin Client /\ state[p] # "off" /\ Cardinality(signed) < MaxSigned
  /\ signed' = signed \cup {[peer |-> p, seq |-> NextSeq(p), ts |-> clock[p],
                             state |-> state[p]]}
  /\ last' = [last EXCEPT ![p] = NextSeq(p)]
  /\ UNCHANGED <<clock, state, table, high>>

Tick(p) == /\ clock[p] < MaxClock
           /\ clock' = [clock EXCEPT ![p] = @ + 1]
           /\ UNCHANGED <<state, last, table, signed, high>>

-----------------------------------------------------------------------------
\* A table

Newer(held, r) == \A h \in held : h.seq < r.seq

\* merge's tests, without the one for a record everyone has forgotten, and
\* without the one for a record older than the one held.
AcceptsOld(o, r) == r.ts <= clock[o] + SKEW /\ Newer(table[o][r.peer], r)
AcceptsAny(o, r) == r.ts <= clock[o] + SKEW /\ clock[o] - r.ts <= FORGET
Accepts(o, r) == /\ r.ts <= clock[o] + SKEW /\ clock[o] - r.ts <= FORGET
                 /\ Newer(table[o][r.peer], r)

\* The new record kept beside the old.
MergeBoth(o, r) ==
  /\ state[o] # "off" /\ Accepts(o, r)
  /\ table' = [table EXCEPT ![o][r.peer] = @ \cup {r}]
  /\ high' = [high EXCEPT ![o][r.peer] = IF r.seq > @ THEN r.seq ELSE @]
  /\ UNCHANGED <<clock, state, last, signed>>

\* PeerTable.merge of a record that is not refused.
Merge(o, r) ==
  /\ state[o] # "off" /\ Accepts(o, r)
  /\ table' = [table EXCEPT ![o][r.peer] = {r}]
  /\ high' = [high EXCEPT ![o][r.peer] = IF r.seq > @ THEN r.seq ELSE @]
  /\ UNCHANGED <<clock, state, last, signed>>

\* PeerTable.export drops what is too old.
Kept(o, held) == {r \in held : clock[o] - r.ts <= FORGET}
\* What it drops is gone for good.
Export(o) ==
  /\ state[o] # "off"
  /\ \E p \in Peer : Kept(o, table[o][p]) # table[o][p]
  /\ table' = [table EXCEPT ![o] = [p \in Peer |-> Kept(o, table[o][p])]]
  /\ UNCHANGED <<clock, state, last, signed, high>>

\* is_live, over what the table holds.
Live(o) == {p \in Peer : \E r \in table[o][p] :
              r.state = "up" /\ clock[o] - r.ts <= LIVE /\ r.ts <= clock[o] + SKEW}

Process == \E p \in Peer : Start(p) \/ (\E s \in State : Turn(p, s)) \/ Exit(p) \/ Sign(p) \/ Tick(p)
Tables == \E o \in Peer : (\E r \in signed : Merge(o, r)) \/ Export(o)
Next == Process \/ Tables

Spec == Init /\ [][Next]_vars

-----------------------------------------------------------------------------
\* Properties.  NoRegress and NoReturn need clocks that are not set back.

\* "seq is kept strictly increasing for this identity" (records.py:99): the
\* seq of a record just signed is above every seq the identity has signed.
SeqIncreases ==
  [][\A r \in signed' \ signed : \A s \in signed : s.peer = r.peer => s.seq < r.seq]_vars

\* A table never falls back to an older record of a peer, not even after it
\* has dropped the newer one: what export forgets, merge refuses.
NoRegress == \A o, p \in Peer : \A r \in table[o][p] : r.seq = high[o][p]

\* A peer that left, or was dropped, comes back to a view only with a record
\* newer than all that the view has held of it: no delayed copy of an old one
\* revives it.
Returns(o, p) == p \notin Live(o) /\ p \in Live(o)'
NoReturn ==
  [][\A o, p \in Peer : Returns(o, p) =>
       \A r \in table'[o][p] : r.seq > high[o][p]]_vars
=============================================================================
