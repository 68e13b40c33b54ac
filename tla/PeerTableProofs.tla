--------------------------- MODULE PeerTableProofs ---------------------------
(***************************************************************************)
(* Proofs about PeerTable, for any number of processes and any horizons,   *)
(* about the ages of the records that Gossip passes on, about what the     *)
(* nodes of the DHT (Dht) and the gateway (Directory) hold of them, and    *)
(* about the routing table of a DHT node (DhtTable).                       *)
(*                                                                         *)
(* That a table never falls back to an older record rests on two facts     *)
(* about every record a peer has signed: in the order of their seqs, their *)
(* times do not decrease (Ordered), and a new one is given a seq above     *)
(* them all (Bounded).  Both need a clock that is not set back between two *)
(* runs.  Then a record that export has dropped for its age is followed    *)
(* only by younger ones: every older one is refused for its age (Dropped). *)
(***************************************************************************)
EXTENDS PeerTable, Sequences, SequenceTheorems, FiniteSetTheorems, TLAPS

ClockIsKept == ClockBack = 0

Ordered ==
  \A r, s \in signed : r.peer = s.peer =>
    /\ r.seq < s.seq => r.ts <= s.ts
    /\ r.seq = s.seq => r = s
Bounded ==
  \A r \in signed : /\ 0 < r.seq /\ r.ts <= clock[r.peer]
                    /\ r.seq <= last[r.peer] \/ r.seq < clock[r.peer]
Held ==
  \A o, p \in Peer : \A r \in table[o][p] :
    r \in signed /\ r.peer = p /\ r.seq = high[o][p] /\ r.ts <= clock[o] + SKEW
Dropped ==
  \A o, p \in Peer : table[o][p] = {} => \/ high[o][p] = 0
                                         \/ \E r \in signed : /\ r.peer = p /\ r.seq = high[o][p]
                                                              /\ clock[o] - r.ts > FORGET

TableInv == TypeOK /\ Ordered /\ Bounded /\ Held /\ Dropped

-----------------------------------------------------------------------------
\* A seq just given is a natural number above the last one and not below the
\* clock.
LEMMA SeqIsNew ==
  ASSUME TypeOK, NEW p \in Peer
  PROVE  /\ NextSeq(p) \in Nat /\ NextSeq(p) > last[p] /\ NextSeq(p) >= clock[p]
  BY DEF TypeOK, NextSeq

\* A new record of p comes after all of p's records, in seq and in time.
LEMMA NewIsLast ==
  ASSUME TypeOK, Bounded, NEW p \in Peer, NEW r \in signed, r.peer = p
  PROVE  r.seq < NextSeq(p) /\ r.ts <= clock[p]
<1>1. r.seq \in Nat /\ r.ts \in Nat /\ clock[p] \in Nat /\ last[p] \in Nat
  BY DEF TypeOK, Record
<1>2. r.ts <= clock[p] /\ (r.seq <= last[p] \/ r.seq < clock[p])
  BY DEF Bounded
<1>3. QED
  BY <1>1, <1>2, SeqIsNew

\* What export has dropped, merge refuses: a record that a table accepts is
\* above all that it has held of the peer.
LEMMA AcceptedIsNewer ==
  ASSUME TypeOK, Ordered, Bounded, Held, Dropped,
         NEW o \in Peer, NEW r \in signed, Accepts(o, r)
  PROVE  r.peer \in Peer /\ r.seq \in Nat /\ r.seq > high[o][r.peer]
<1> DEFINE p == r.peer
<1>1. /\ r \in Record /\ p \in Peer /\ r.seq \in Nat /\ r.ts \in Nat
      /\ clock[o] \in Nat /\ high[o][p] \in Nat /\ FORGET \in Nat
  BY PeerTableAssumption DEF TypeOK, Record
<1>2. CASE table[o][p] # {}
  <2>1. PICK h \in table[o][p] : TRUE
    BY <1>2
  <2>2. h.seq = high[o][p] /\ h.seq < r.seq
    BY <1>1, <2>1 DEF Held, Accepts, Newer
  <2>3. QED
    BY <1>1, <2>2
<1>3. CASE table[o][p] = {} /\ high[o][p] # 0
  <2>1. PICK d \in signed : d.peer = p /\ d.seq = high[o][p] /\ clock[o] - d.ts > FORGET
    BY <1>1, <1>3 DEF Dropped
  <2>2. d.seq \in Nat /\ d.ts \in Nat
    BY DEF TypeOK, Record
  <2>3. clock[o] - r.ts <= FORGET
    BY DEF Accepts
  <2>4. ~(r.seq < d.seq) /\ r.seq # d.seq
    BY <1>1, <2>1, <2>2, <2>3 DEF Ordered
  <2>5. QED
    BY <1>1, <2>1, <2>2, <2>4
<1>4. CASE high[o][p] = 0
  BY <1>1, <1>4 DEF Bounded
<1>5. QED
  BY <1>1, <1>2, <1>3, <1>4

-----------------------------------------------------------------------------
\* The invariant holds at the start.
LEMMA InitTable == Init => TableInv
  BY DEF Init, NobodyKnown, TableInv, TypeOK, Ordered, Bounded, Held, Dropped, State

\* A step that only turns a state or ends a run.
LEMMA StateOnly ==
  ASSUME TableInv, UNCHANGED <<clock, last, table, signed, high>>,
         state' \in [Peer -> State \cup {"off"}]
  PROVE  TableInv'
<1>1. TypeOK'
  BY DEF TableInv, TypeOK
<1>2. Ordered' /\ Bounded'
  BY DEF TableInv, Ordered, Bounded
<1>3. Held' /\ Dropped'
  BY DEF TableInv, Held, Dropped
<1>4. QED
  BY <1>1, <1>2, <1>3 DEF TableInv

\* Every step keeps the table's invariant while nobody's clock is turned back.
LEMMA StepTable ==
  ASSUME TableInv, [Next]_vars, ClockIsKept
  PROVE  TableInv'
<1> USE DEF TableInv
<1>1. ASSUME NEW p \in Peer, Start(p) PROVE TableInv'
  <2>1. clock' = clock
    <3>1. \E back \in 0..0 : clock' = [clock EXCEPT ![p] = @ - back]
      BY <1>1 DEF Start, ClockIsKept
    <3>2. clock' = [clock EXCEPT ![p] = @ - 0]
      BY <3>1
    <3>3. QED
      BY <3>2 DEF TypeOK
  <2>2. clock[p] > last[p] /\ last' = [last EXCEPT ![p] = 0] /\ signed' = signed
    BY <1>1 DEF Start
  <2>3. TypeOK'
    BY <1>1, <2>1 DEF Start, TypeOK, NobodyKnown, State
  <2>4. Bounded'
    <3> SUFFICES ASSUME NEW r \in signed
                 PROVE  /\ 0 < r.seq /\ r.ts <= clock[r.peer]
                        /\ r.seq <= last'[r.peer] \/ r.seq < clock[r.peer]
      BY <2>1, <2>2 DEF Bounded
    <3>1. 0 < r.seq /\ r.ts <= clock[r.peer] /\ (r.seq <= last[r.peer] \/ r.seq < clock[r.peer])
      BY DEF Bounded
    <3>2. /\ r.peer \in Peer /\ r.seq \in Nat /\ last \in [Peer -> Nat] /\ clock \in [Peer -> Nat]
      BY DEF TypeOK, Record
    <3>3. QED
      BY <2>2, <3>1, <3>2
  <2>5. Ordered'
    BY <2>2 DEF Ordered
  <2>6. \A a, q \in Peer : IF a = p THEN table'[a][q] = {} /\ high'[a][q] = 0
                                    ELSE table'[a][q] = table[a][q] /\ high'[a][q] = high[a][q]
    BY <1>1 DEF Start, NobodyKnown, TypeOK
  <2>7. Held'
    BY <2>1, <2>2, <2>6 DEF Held
  <2>8. Dropped'
    <3> SUFFICES ASSUME NEW a \in Peer, NEW q \in Peer, table'[a][q] = {}
                 PROVE  \/ high'[a][q] = 0
                        \/ \E d \in signed : /\ d.peer = q /\ d.seq = high'[a][q]
                                             /\ clock[a] - d.ts > FORGET
      BY <2>1, <2>2 DEF Dropped
    <3>1. CASE a = p
      BY <2>6, <3>1
    <3>2. CASE a # p
      <4>1. table[a][q] = {} /\ high'[a][q] = high[a][q]
        BY <2>6, <3>2
      <4>2. QED
        BY <4>1 DEF Dropped
    <3>3. QED
      BY <3>1, <3>2
  <2>9. QED
    BY <2>3, <2>4, <2>5, <2>7, <2>8
<1>2. ASSUME NEW p \in Peer, NEW s \in State, Turn(p, s) PROVE TableInv'
  <2>1. state' = [state EXCEPT ![p] = s] /\ UNCHANGED <<clock, last, table, signed, high>>
    BY <1>2 DEF Turn
  <2>2. state' \in [Peer -> State \cup {"off"}]
    BY <2>1 DEF TypeOK
  <2>3. QED
    BY <2>1, <2>2, StateOnly
<1>3. ASSUME NEW p \in Peer, Exit(p) PROVE TableInv'
  <2>1. state' = [state EXCEPT ![p] = "off"] /\ UNCHANGED <<clock, last, table, signed, high>>
    BY <1>3 DEF Exit
  <2>2. state' \in [Peer -> State \cup {"off"}]
    BY <2>1 DEF TypeOK
  <2>3. QED
    BY <2>1, <2>2, StateOnly
<1>4. ASSUME NEW p \in Peer, Sign(p) PROVE TableInv'
  <2> DEFINE n == [peer |-> p, seq |-> NextSeq(p), ts |-> clock[p], state |-> state[p]]
  <2>1. /\ signed' = signed \cup {n} /\ last' = [last EXCEPT ![p] = NextSeq(p)]
        /\ state[p] # "off" /\ UNCHANGED <<clock, state, table, high>>
    BY <1>4 DEF Sign
  <2>2. n \in Record
    BY <2>1, SeqIsNew DEF TypeOK, Record
  <2>3. \A r \in signed : r.peer = p => r.seq < n.seq /\ r.ts <= n.ts
    BY NewIsLast
  <2>4. n.peer = p /\ n.seq = NextSeq(p) /\ n.ts = clock[p]
    OBVIOUS
  <2> HIDE DEF n
  <2>5. TypeOK'
    BY <2>1, <2>2, SeqIsNew DEF TypeOK
  <2>6. Ordered'
    <3> SUFFICES ASSUME NEW r \in signed', NEW s \in signed', r.peer = s.peer
                 PROVE  (r.seq < s.seq => r.ts <= s.ts) /\ (r.seq = s.seq => r = s)
      BY DEF Ordered
    <3>1. CASE r \in signed /\ s \in signed
      BY <3>1 DEF Ordered
    <3>2. CASE r \in signed /\ s = n
      <4>1. r.seq < n.seq /\ r.ts <= n.ts /\ r.seq \in Nat /\ n.seq \in Nat
        BY <2>2, <2>3, <2>4, <3>2 DEF TypeOK, Record
      <4>2. QED
        BY <3>2, <4>1
    <3>3. CASE r = n /\ s \in signed
      <4>1. s.seq < n.seq /\ s.seq \in Nat /\ n.seq \in Nat
        BY <2>2, <2>3, <2>4, <3>3 DEF TypeOK, Record
      <4>2. QED
        BY <3>3, <4>1
    <3>4. CASE r = n /\ s = n
      BY <2>2, <3>4 DEF Record
    <3>5. QED
      BY <2>1, <3>1, <3>2, <3>3, <3>4
  <2>7. Bounded'
    <3> SUFFICES ASSUME NEW r \in signed'
                 PROVE  /\ 0 < r.seq /\ r.ts <= clock[r.peer]
                        /\ r.seq <= last'[r.peer] \/ r.seq < clock[r.peer]
      BY <2>1 DEF Bounded
    <3>0. last \in [Peer -> Nat] /\ clock \in [Peer -> Nat] /\ NextSeq(p) \in Nat /\ NextSeq(p) > last[p]
      BY SeqIsNew DEF TypeOK
    <3>1. CASE r = n
      BY <2>1, <2>4, <3>0, <3>1
    <3>2. CASE r \in signed
      <4>1. 0 < r.seq /\ r.ts <= clock[r.peer] /\ (r.seq <= last[r.peer] \/ r.seq < clock[r.peer])
        BY <3>2 DEF Bounded
      <4>2. r.peer \in Peer /\ r.seq \in Nat
        BY <3>2 DEF TypeOK, Record
      <4>3. QED
        BY <2>1, <3>0, <4>1, <4>2
    <3>3. QED
      BY <2>1, <3>1, <3>2
  <2>8. Held'
    BY <2>1 DEF Held
  <2>9. Dropped'
    BY <2>1 DEF Dropped
  <2>10. QED
    BY <2>5, <2>6, <2>7, <2>8, <2>9
<1>5. ASSUME NEW p \in Peer, Tick(p) PROVE TableInv'
  <2>1. clock' = [clock EXCEPT ![p] = @ + 1] /\ UNCHANGED <<state, last, table, signed, high>>
    BY <1>5 DEF Tick
  <2>2. \A o \in Peer : clock'[o] \in Nat /\ clock[o] \in Nat /\ clock'[o] >= clock[o]
    BY <2>1 DEF TypeOK
  <2>3. TypeOK'
    BY <2>1 DEF TypeOK
  <2>4. Bounded'
    <3> SUFFICES ASSUME NEW r \in signed
                 PROVE  /\ 0 < r.seq /\ r.ts <= clock'[r.peer]
                        /\ r.seq <= last[r.peer] \/ r.seq < clock'[r.peer]
      BY <2>1 DEF Bounded
    <3>1. /\ 0 < r.seq /\ r.ts <= clock[r.peer] /\ (r.seq <= last[r.peer] \/ r.seq < clock[r.peer])
      BY DEF Bounded
    <3>2. r.peer \in Peer /\ r.seq \in Nat /\ r.ts \in Nat
      BY DEF TypeOK, Record
    <3>3. QED
      BY <2>2, <3>1, <3>2
  <2>5. Ordered' /\ Held'
    <3>1. Ordered'
      BY <2>1 DEF Ordered
    <3>2. ASSUME NEW o \in Peer, NEW q \in Peer, NEW r \in table[o][q]
          PROVE  r.ts <= clock'[o] + SKEW
      <4>1. r \in signed /\ r.ts <= clock[o] + SKEW
        BY DEF Held
      <4>2. r.ts \in Nat /\ SKEW \in Nat
        BY <4>1, PeerTableAssumption DEF TypeOK, Record
      <4>3. QED
        BY <2>2, <4>1, <4>2
    <3>3. QED
      BY <2>1, <3>1, <3>2 DEF Held
  <2>6. Dropped'
    <3> SUFFICES ASSUME NEW o \in Peer, NEW q \in Peer, table[o][q] = {}, high[o][q] # 0
                 PROVE  \E r \in signed : /\ r.peer = q /\ r.seq = high[o][q]
                                          /\ clock'[o] - r.ts > FORGET
      BY <2>1 DEF Dropped
    <3>1. PICK r \in signed : r.peer = q /\ r.seq = high[o][q] /\ clock[o] - r.ts > FORGET
      BY DEF Dropped
    <3>2. r.ts \in Nat /\ FORGET \in Nat
      BY PeerTableAssumption DEF TypeOK, Record
    <3>3. clock'[o] - r.ts > FORGET
      BY <2>2, <3>1, <3>2
    <3>4. QED
      BY <3>1, <3>3
  <2>7. QED
    BY <2>3, <2>4, <2>5, <2>6
<1>6. ASSUME NEW o \in Peer, NEW r \in signed, Merge(o, r) PROVE TableInv'
  <2>1. /\ table' = [table EXCEPT ![o][r.peer] = {r}]
        /\ high' = [high EXCEPT ![o][r.peer] = IF r.seq > high[o][r.peer] THEN r.seq ELSE high[o][r.peer]]
        /\ Accepts(o, r) /\ UNCHANGED <<clock, state, last, signed>>
    BY <1>6 DEF Merge, TypeOK, Record
  <2>2. r \in Record /\ r.peer \in Peer /\ r.seq \in Nat
    BY DEF TypeOK, Record
  <2>3. (IF r.seq > high[o][r.peer] THEN r.seq ELSE high[o][r.peer]) = r.seq
    <3>1. r.seq > high[o][r.peer]
      BY <2>1, AcceptedIsNewer
    <3>2. high[o][r.peer] \in Nat
      BY <2>2 DEF TypeOK
    <3>3. QED
      BY <2>2, <3>1, <3>2
  <2>4. high' = [high EXCEPT ![o][r.peer] = r.seq]
    BY <2>1, <2>3
  <2>5. \A a, p \in Peer : IF a = o /\ p = r.peer
                           THEN table'[a][p] = {r} /\ high'[a][p] = r.seq
                           ELSE table'[a][p] = table[a][p] /\ high'[a][p] = high[a][p]
    BY <2>1, <2>2, <2>4 DEF TypeOK
  <2>6. TypeOK'
    BY <2>1, <2>2, <2>4, <2>5 DEF TypeOK
  <2>7. Ordered' /\ Bounded'
    BY <2>1 DEF Ordered, Bounded
  <2>8. Held'
    BY <2>1, <2>5 DEF Held, Accepts
  <2>9. Dropped'
    <3> SUFFICES ASSUME NEW a \in Peer, NEW p \in Peer, table'[a][p] = {}
                 PROVE  \/ high'[a][p] = 0
                        \/ \E d \in signed : /\ d.peer = p /\ d.seq = high'[a][p]
                                             /\ clock[a] - d.ts > FORGET
      BY <2>1 DEF Dropped
    <3>1. table[a][p] = {} /\ high'[a][p] = high[a][p]
      BY <2>5
    <3>2. QED
      BY <3>1 DEF Dropped
  <2>10. QED
    BY <2>6, <2>7, <2>8, <2>9
<1>7. ASSUME NEW o \in Peer, Export(o) PROVE TableInv'
  <2>1. /\ table' = [table EXCEPT ![o] = [p \in Peer |-> Kept(o, table[o][p])]]
        /\ UNCHANGED <<clock, state, last, signed, high>>
    BY <1>7 DEF Export
  <2>2. \A a, p \in Peer : table'[a][p] = IF a = o THEN Kept(o, table[o][p]) ELSE table[a][p]
    BY <2>1 DEF TypeOK
  <2>3. \A p \in Peer : Kept(o, table[o][p]) \subseteq table[o][p]
    BY DEF Kept
  <2>4. table' \in [Peer -> [Peer -> SUBSET Record]]
    BY <2>1, <2>3 DEF TypeOK
  <2>5. TypeOK'
    <3>1. \A a, p \in Peer : table'[a][p] \subseteq table[a][p]
      BY <2>2, <2>3
    <3>2. \A a, p \in Peer : \A r, s \in table'[a][p] : r = s
      BY <3>1 DEF TypeOK
    <3>3. QED
      BY <2>1, <2>4, <3>2 DEF TypeOK
  <2>6. Ordered' /\ Bounded'
    BY <2>1 DEF Ordered, Bounded
  <2>7. Held'
    BY <2>1, <2>2, <2>3 DEF Held
  <2>8. Dropped'
    <3> SUFFICES ASSUME NEW a \in Peer, NEW p \in Peer, table'[a][p] = {}
                 PROVE  \/ high[a][p] = 0
                        \/ \E d \in signed : /\ d.peer = p /\ d.seq = high[a][p]
                                             /\ clock[a] - d.ts > FORGET
      BY <2>1 DEF Dropped
    <3>1. CASE table[a][p] = {}
      BY <3>1 DEF Dropped
    <3>2. CASE table[a][p] # {}
      <4>1. PICK d \in table[a][p] : TRUE
        BY <3>2
      <4>2. a = o /\ Kept(o, table[o][p]) = {}
        BY <2>2, <3>2
      <4>3. ~(clock[o] - d.ts <= FORGET)
        BY <4>1, <4>2 DEF Kept
      <4>4. d \in signed /\ d.peer = p /\ d.seq = high[a][p]
        BY <4>1 DEF Held
      <4>5. d.ts \in Nat /\ clock[o] \in Nat /\ FORGET \in Nat
        BY <4>4, PeerTableAssumption DEF TypeOK, Record
      <4>6. QED
        BY <4>2, <4>3, <4>4, <4>5
    <3>3. QED
      BY <3>1, <3>2
  <2>9. QED
    BY <2>5, <2>6, <2>7, <2>8
<1>8. CASE UNCHANGED vars
  BY <1>8 DEF vars, TypeOK, Ordered, Bounded, Held, Dropped
<1>9. QED
  BY <1>1, <1>2, <1>3, <1>4, <1>5, <1>6, <1>7, <1>8 DEF Next, Process, Tables

\* So it always holds.
LEMMA TableAlways == ASSUME ClockIsKept PROVE Spec => []TableInv
<1>1. Init => TableInv
  BY InitTable
<1>2. TableInv /\ [Next]_vars => TableInv'
  BY StepTable
<1>3. QED
  BY <1>1, <1>2, PTL DEF Spec

-----------------------------------------------------------------------------
\* The seqs of an identity whose clock is not set back increase, over restarts
\* too (records.py:99).
THEOREM SeqsIncrease == ASSUME ClockIsKept PROVE Spec => SeqIncreases
<1>1. TableInv /\ [Next]_vars =>
        [\A r \in signed' \ signed : \A s \in signed : s.peer = r.peer => s.seq < r.seq]_vars
  <2> SUFFICES ASSUME TableInv, [Next]_vars, NEW r \in signed' \ signed, NEW s \in signed,
                      s.peer = r.peer
               PROVE  s.seq < r.seq
    OBVIOUS
  <2>1. PICK p \in Peer : Sign(p)
    BY DEF Next, Process, Tables, Start, Turn, Exit, Tick, Merge, Export, vars
  <2>2. r = [peer |-> p, seq |-> NextSeq(p), ts |-> clock[p], state |-> state[p]]
    BY <2>1 DEF Sign
  <2>3. QED
    BY <2>2, NewIsLast DEF TableInv
<1>2. QED
  BY <1>1, TableAlways, PTL DEF Spec, SeqIncreases

\* No table falls back to an older record of a peer.
THEOREM NeverRegresses == ASSUME ClockIsKept PROVE Spec => []NoRegress
<1>1. TableInv => NoRegress
  BY DEF TableInv, Held, NoRegress
<1>2. QED
  BY <1>1, TableAlways, PTL

\* Whatever a step does, the view o has of p only shrinks and its clock only
\* goes on, unless o merges a record of p.
LEMMA ViewFrame ==
  ASSUME TypeOK, [Next]_vars, NEW o \in Peer, NEW p \in Peer,
         ~\E n \in signed : Merge(o, n) /\ n.peer = p
  PROVE  /\ table'[o][p] \subseteq table[o][p]
         /\ clock'[o] = clock[o] \/ clock'[o] = clock[o] + 1 \/ table'[o][p] = {}
<1>1. ASSUME NEW a \in Peer, Start(a)
      PROVE  /\ table'[o][p] \subseteq table[o][p]
             /\ clock'[o] = clock[o] \/ table'[o][p] = {}
  <2>1. table' = [table EXCEPT ![a] = NobodyKnown] /\ \E c : clock' = [clock EXCEPT ![a] = c]
    BY <1>1 DEF Start
  <2>2. QED
    BY <2>1 DEF TypeOK, NobodyKnown
<1>2. ASSUME NEW a \in Peer, Tick(a)
      PROVE  table' = table /\ (clock'[o] = clock[o] \/ clock'[o] = clock[o] + 1)
  BY <1>2 DEF Tick, TypeOK
<1>3. ASSUME NEW a \in Peer, NEW n \in signed, Merge(a, n)
      PROVE  table'[o][p] = table[o][p] /\ clock' = clock
  BY <1>3 DEF Merge, TypeOK, Record
<1>4. ASSUME NEW a \in Peer, Export(a)
      PROVE  table'[o][p] \subseteq table[o][p] /\ clock' = clock
  BY <1>4 DEF Export, Kept, TypeOK
<1>5. ASSUME NEW a \in Peer, Exit(a) \/ Sign(a) \/ \E s \in State : Turn(a, s)
      PROVE  UNCHANGED <<table, clock>>
  BY <1>5 DEF Exit, Sign, Turn
<1>6. CASE UNCHANGED vars
  BY <1>6 DEF vars
<1>7. QED
  BY <1>1, <1>2, <1>3, <1>4, <1>5, <1>6 DEF Next, Process, Tables

\* A peer comes back to a view only with a record newer than all the view has
\* held of it.
THEOREM NeverReturnsOld == ASSUME ClockIsKept PROVE Spec => NoReturn
<1>1. TableInv /\ [Next]_vars =>
        [\A o, p \in Peer : Returns(o, p) => \A r \in table'[o][p] : r.seq > high[o][p]]_vars
  <2> SUFFICES ASSUME TableInv, [Next]_vars, NEW o \in Peer, NEW p \in Peer, Returns(o, p),
                      NEW r \in table'[o][p]
               PROVE  r.seq > high[o][p]
    OBVIOUS
  <2>1. p \notin Live(o) /\ p \in Live(o)'
    BY DEF Returns
  <2>2. CASE \E n \in signed : Merge(o, n) /\ n.peer = p
    <3>1. PICK n \in signed : Merge(o, n) /\ n.peer = p
      BY <2>2
    <3>2. Accepts(o, n) /\ table' = [table EXCEPT ![o][p] = {n}]
      BY <3>1 DEF Merge
    <3>3. n.seq > high[o][p]
      BY <3>1, <3>2, AcceptedIsNewer DEF TableInv
    <3>4. r = n
      BY <3>2 DEF TableInv, TypeOK
    <3>5. QED
      BY <3>3, <3>4
  <2>3. CASE ~\E n \in signed : Merge(o, n) /\ n.peer = p
    <3>1. table'[o][p] \subseteq table[o][p] /\ (clock'[o] = clock[o] \/ clock'[o] = clock[o] + 1
                                               \/ table'[o][p] = {})
      BY <2>3, ViewFrame DEF TableInv
    <3>2. PICK l \in table'[o][p] : l.state = "up" /\ clock'[o] - l.ts <= LIVE
      BY <2>1 DEF Live
    <3>3. l \in table[o][p] /\ l \in signed /\ l.ts <= clock[o] + SKEW
      BY <3>1, <3>2 DEF TableInv, Held
    <3>4. l.ts \in Nat /\ clock[o] \in Nat /\ LIVE \in Nat
      BY <3>3, PeerTableAssumption DEF TableInv, TypeOK, Record
    <3>5. clock[o] - l.ts <= LIVE
      BY <3>1, <3>2, <3>4
    <3>6. p \in Live(o)
      BY <3>2, <3>3, <3>5 DEF Live
    <3>7. QED
      BY <2>1, <3>6
  <2>4. QED
    BY <2>2, <2>3
<1>2. QED
  BY <1>1, TableAlways, PTL DEF Spec, NoReturn


-----------------------------------------------------------------------------
\* The types hold however the clocks are set: what a process keeps of each peer is one record, and
\* a clock that is set back between two runs does not fall below zero.
THEOREM TypeCorrect == Spec => []TypeOK
<1>1. Init => TypeOK
  BY InitTable DEF TableInv
<1>2. ASSUME TypeOK, [Next]_vars PROVE TypeOK'
  <2>1. ASSUME NEW p \in Peer, Start(p) PROVE TypeOK'
    <3>1. PICK back \in 0..ClockBack : back <= clock[p] /\ clock' = [clock EXCEPT ![p] = @ - back]
      BY <2>1 DEF Start
    <3>2. clock[p] \in Nat /\ back \in Nat
      BY <1>2, PeerTableAssumption DEF TypeOK
    <3>3. clock[p] - back \in Nat
      BY <3>1, <3>2
    <3>4. clock' \in [Peer -> Nat]
      BY <1>2, <3>1, <3>3 DEF TypeOK
    <3> QED BY <1>2, <2>1, <3>4 DEF Start, TypeOK, NobodyKnown, State
  <2>2. ASSUME NEW p \in Peer, NEW s \in State, Turn(p, s) PROVE TypeOK'
    BY <1>2, <2>2 DEF Turn, TypeOK
  <2>3. ASSUME NEW p \in Peer, Exit(p) \/ Tick(p) PROVE TypeOK'
    <3>1. CASE Exit(p)
      BY <1>2, <3>1 DEF Exit, TypeOK
    <3>2. CASE Tick(p)
      BY <1>2, <3>2 DEF Tick, TypeOK
    <3> QED BY <2>3, <3>1, <3>2
  <2>4. ASSUME NEW p \in Peer, Sign(p) PROVE TypeOK'
    <3> DEFINE n == [peer |-> p, seq |-> NextSeq(p), ts |-> clock[p], state |-> state[p]]
    <3>1. /\ signed' = signed \cup {n} /\ last' = [last EXCEPT ![p] = NextSeq(p)]
          /\ state[p] # "off" /\ UNCHANGED <<clock, state, table, high>>
      BY <2>4 DEF Sign
    <3>2. n \in Record
      BY <1>2, <3>1, SeqIsNew DEF TypeOK, Record
    <3> HIDE DEF n
    <3> QED BY <1>2, <3>1, <3>2, SeqIsNew DEF TypeOK
  <2>5. ASSUME NEW o \in Peer, NEW r \in signed, Merge(o, r) PROVE TypeOK'
    <3>1. r \in Record /\ r.peer \in Peer /\ r.seq \in Nat /\ high[o][r.peer] \in Nat
      BY <1>2 DEF TypeOK, Record
    <3> DEFINE h == IF r.seq > high[o][r.peer] THEN r.seq ELSE high[o][r.peer]
    <3>2. h \in Nat
      BY <3>1
    <3>3. /\ table' = [table EXCEPT ![o][r.peer] = {r}] /\ high' = [high EXCEPT ![o][r.peer] = h]
          /\ UNCHANGED <<clock, state, last, signed>>
      BY <1>2, <2>5, <3>1 DEF Merge, TypeOK
    <3> HIDE DEF h
    <3> QED BY <1>2, <3>1, <3>2, <3>3 DEF TypeOK
  <2>6. ASSUME NEW o \in Peer, Export(o) PROVE TypeOK'
    <3>1. /\ table' = [table EXCEPT ![o] = [p \in Peer |-> Kept(o, table[o][p])]]
          /\ UNCHANGED <<clock, state, last, signed, high>>
      BY <2>6 DEF Export
    <3>2. \A a, p \in Peer : table'[a][p] \subseteq table[a][p]
      BY <1>2, <3>1 DEF TypeOK, Kept
    <3>3. table' \in [Peer -> [Peer -> SUBSET Record]]
      BY <1>2, <3>1 DEF TypeOK, Kept
    <3>4. \A a, p \in Peer : \A r, s \in table'[a][p] : r = s
      BY <1>2, <3>2 DEF TypeOK
    <3> QED BY <1>2, <3>1, <3>3, <3>4 DEF TypeOK
  <2>7. CASE UNCHANGED vars
    BY <1>2, <2>7 DEF vars, TypeOK
  <2> QED BY <1>2, <2>1, <2>2, <2>3, <2>4, <2>5, <2>6, <2>7 DEF Next, Process, Tables
<1> QED BY <1>1, <1>2, PTL DEF Spec

-----------------------------------------------------------------------------
(* How old a record is when it is passed on (Gossip).  Its time is counted *)
(* in rounds, so its LIVE is another.                                      *)

CONSTANTS Seeds, FANOUT, SKIP, LiveRounds, MaxFaults
VARIABLES up, broken, age, failures, ask, turn, faults

G == INSTANCE Gossip WITH LIVE <- LiveRounds

GossipSized == /\ IsFiniteSet(Peer) /\ Seeds \in [Peer -> SUBSET Peer]
               /\ FANOUT \in Nat /\ SKIP \in Nat /\ LiveRounds \in Nat /\ MaxFaults \in Nat

Asks == ask \in [Peer -> SUBSET Peer]
        /\ \A p \in Peer : ask[p] \subseteq Peer \ {p} /\ Cardinality(ask[p]) <= FANOUT + 1
\* While a peer runs, nobody holds a younger record of it than its own.
Oldest == \A p, q \in Peer : q \in up => age[p][q] >= age[q][q]
GossipInv == G!TypeOK /\ Asks /\ Oldest

\* An instance has its own name for the library's operator.
LEMMA SameCount == \A S : G!Cardinality(S) = Cardinality(S)
  BY DEF G!Cardinality, Cardinality

\* What a merge leaves of a peer is one of the two ages, and not the older.
LEMMA MergedIs ==
  ASSUME GossipSized, NEW mine \in [Peer -> 0..G!Unseen], NEW theirs \in [Peer -> 0..G!Unseen]
  PROVE  /\ G!Merged(mine, theirs) \in [Peer -> 0..G!Unseen]
         /\ \A x \in Peer, b \in Nat : mine[x] >= b /\ theirs[x] >= b => G!Merged(mine, theirs)[x] >= b
         /\ \A x \in Peer : G!Merged(mine, theirs)[x] <= mine[x]
<1>1. G!Unseen \in Nat
  BY DEF GossipSized, G!Unseen
<1>2. ASSUME NEW x \in Peer
      PROVE  \/ G!Merged(mine, theirs)[x] = mine[x]
             \/ G!Merged(mine, theirs)[x] = theirs[x] /\ ~(mine[x] < theirs[x])
  BY DEF G!Merged, G!Younger
<1>3. ASSUME NEW x \in Peer PROVE mine[x] \in 0..G!Unseen /\ theirs[x] \in 0..G!Unseen
  OBVIOUS
<1>4. G!Merged(mine, theirs) \in [Peer -> 0..G!Unseen]
  BY <1>3 DEF G!Merged, G!Younger
<1>5. ASSUME NEW x \in Peer, NEW b \in Nat, mine[x] >= b, theirs[x] >= b
      PROVE  G!Merged(mine, theirs)[x] >= b
  BY <1>2, <1>5
<1>6. ASSUME NEW x \in Peer PROVE G!Merged(mine, theirs)[x] <= mine[x]
  BY <1>1, <1>2, <1>3
<1> QED BY <1>4, <1>5, <1>6

\* The targets of a round are as many as the fanout, and one seed.
LEMMA TargetsAre ==
  ASSUME GossipSized, NEW p \in Peer, NEW s \in G!Fanouts(p), NEW t \in G!WithSeed(p, s)
  PROVE  t \subseteq Peer \ {p} /\ Cardinality(t) <= FANOUT + 1
<1>1. s \subseteq Peer \ {p} /\ Cardinality(s) <= FANOUT
  <2>1. s \subseteq Peer \ {p} /\ (Cardinality(s) = FANOUT \/ Cardinality(s) <= FANOUT)
    BY SameCount DEF G!Fanouts, G!Seen
  <2> QED BY <2>1 DEF GossipSized
<1>2. IsFiniteSet(s)
  <2>1. s \in SUBSET Peer
    BY <1>1
  <2> QED BY <2>1, FS_Subset DEF GossipSized
<1>3. Cardinality(s) \in Nat /\ FANOUT \in Nat
  BY <1>2, FS_CardinalityType DEF GossipSized
<1>4. t = s \/ \E seed \in Seeds[p] \ {p} : t = s \cup {seed}
  BY DEF G!WithSeed
<1>5. CASE t = s
  BY <1>1, <1>3, <1>5
<1>6. ASSUME NEW seed \in Seeds[p] \ {p}, t = s \cup {seed}
      PROVE  t \subseteq Peer \ {p} /\ Cardinality(t) <= FANOUT + 1
  <2>1. seed \in Peer
    BY DEF GossipSized
  <2>2. Cardinality(s \cup {seed}) = IF seed \in s THEN Cardinality(s) ELSE Cardinality(s) + 1
    BY <1>2, FS_AddElement
  <2> QED BY <1>1, <1>3, <1>6, <2>1, <2>2
<1> QED BY <1>4, <1>5, <1>6

\* The invariant holds at the start.
LEMMA GossipInitInv == ASSUME GossipSized, G!Init PROVE GossipInv
<1>1. G!Unseen \in Nat /\ 0 \in 0..SKIP /\ 0 \in 0..MaxFaults
  BY DEF GossipSized, G!Unseen
<1>2. age \in [Peer -> [Peer -> 0..G!Unseen]] /\ Oldest
  BY <1>1 DEF G!Init, Oldest
<1>3. Asks
  BY FS_EmptySet DEF G!Init, Asks, GossipSized
<1>4. failures \in [Peer -> [Peer -> 0..SKIP]]
  BY <1>1 DEF G!Init
<1> QED BY <1>1, <1>2, <1>3, <1>4, SameCount DEF GossipInv, G!TypeOK, G!Init, Asks

\* A round that begins asks peers that are known, or a seed.
LEMMA BeginInv == ASSUME GossipSized, GossipInv, NEW p \in Peer, G!Begin(p) PROVE GossipInv'
<1>1. G!TypeOK /\ Asks /\ Oldest
  BY DEF GossipInv
<1>2. PICK s \in G!Fanouts(p) : \E t \in G!WithSeed(p, s) : ask' = [ask EXCEPT ![p] = t]
  BY DEF G!Begin
<1>3. PICK t \in G!WithSeed(p, s) : ask' = [ask EXCEPT ![p] = t]
  BY <1>2
<1>4. t \subseteq Peer \ {p} /\ Cardinality(t) <= FANOUT + 1
  BY TargetsAre
<1>5. Asks'
  BY <1>1, <1>3, <1>4 DEF Asks
<1>6. age' = [age EXCEPT ![p] = [@ EXCEPT ![p] = 0]] /\ turn' = turn \ {p}
      /\ UNCHANGED <<up, broken, failures, faults>>
  BY DEF G!Begin
<1>7. G!Unseen \in Nat
  BY DEF GossipSized, G!Unseen
<1>8. age' \in [Peer -> [Peer -> 0..G!Unseen]]
      /\ \A x, y \in Peer : age'[x][y] = IF x = p /\ y = p THEN 0 ELSE age[x][y]
  BY <1>1, <1>6, <1>7 DEF G!TypeOK
<1>9. Oldest'
  BY <1>1, <1>6, <1>7, <1>8 DEF Oldest, G!TypeOK
<1>10. G!TypeOK'
  BY <1>1, <1>5, <1>6, <1>8, SameCount DEF G!TypeOK, Asks
<1> QED BY <1>5, <1>9, <1>10 DEF GossipInv

\* An exchange: both merge, or only the one that was asked, or neither.
LEMMA ExchangeInv == ASSUME GossipSized, GossipInv, NEW p \in Peer, G!Exchange(p) PROVE GossipInv'
<1>1. G!TypeOK /\ Asks /\ Oldest
  BY DEF GossipInv
<1> DEFINE there(q) == G!Merged(age[q], age[p])
           back(q) == G!Merged(age[p], there(q))
<1>2. PICK q \in ask[p] :
        /\ ask' = [ask EXCEPT ![p] = @ \ {q}] /\ UNCHANGED <<up, broken, turn>>
        /\ \/ /\ age' = [age EXCEPT ![q] = there(q), ![p] = G!Merged(@, there(q))]
              /\ failures' = [failures EXCEPT ![p][q] = 0] /\ UNCHANGED faults
           \/ /\ G!Fault /\ age' = [age EXCEPT ![q] = there(q)]
              /\ failures' = [failures EXCEPT ![p][q] = IF @ < SKIP THEN @ + 1 ELSE @]
           \/ /\ UNCHANGED <<age, faults>>
              /\ failures' = [failures EXCEPT ![p][q] = IF @ < SKIP THEN @ + 1 ELSE @]
  BY DEF G!Exchange
<1>3. q \in Peer /\ p # q /\ age[p] \in [Peer -> 0..G!Unseen] /\ age[q] \in [Peer -> 0..G!Unseen]
  BY <1>1 DEF Asks, G!TypeOK
<1>4. G!Unseen \in Nat
  BY DEF GossipSized, G!Unseen
<1>5. /\ there(q) \in [Peer -> 0..G!Unseen] /\ back(q) \in [Peer -> 0..G!Unseen]
      /\ \A x \in Peer : there(q)[x] <= age[q][x] /\ back(q)[x] <= age[p][x]
      /\ \A x \in up : x \in Peer => there(q)[x] >= age[x][x] /\ back(q)[x] >= age[x][x]
  <2>1. there(q) \in [Peer -> 0..G!Unseen] /\ \A x \in Peer : there(q)[x] <= age[q][x]
    BY <1>3, MergedIs
  <2>2. back(q) \in [Peer -> 0..G!Unseen] /\ \A x \in Peer : back(q)[x] <= age[p][x]
    <3> HIDE DEF there
    <3> QED BY <1>3, <2>1, MergedIs
  <2>3. ASSUME NEW x \in Peer, x \in up
        PROVE  there(q)[x] >= age[x][x] /\ back(q)[x] >= age[x][x]
    <3>1. age[q][x] >= age[x][x] /\ age[p][x] >= age[x][x] /\ age[x][x] \in Nat
      BY <1>1, <1>3, <1>4, <2>3 DEF Oldest, G!TypeOK
    <3>2. there(q)[x] >= age[x][x]
      BY <1>3, <3>1, MergedIs
    <3>3. back(q)[x] >= age[x][x]
      <4> HIDE DEF there
      <4> QED BY <1>3, <2>1, <3>1, <3>2, MergedIs
    <3> QED BY <3>2, <3>3
  <2> QED BY <2>1, <2>2, <2>3
<1> HIDE DEF there, back
<1>6. /\ age' \in [Peer -> [Peer -> 0..G!Unseen]]
      /\ \A x \in Peer : \/ age'[x] = age[x]
                         \/ x = q /\ age'[x] = there(q)
                         \/ x = p /\ age'[x] = back(q)
  <2>1. CASE age' = [age EXCEPT ![q] = there(q), ![p] = G!Merged(@, there(q))]
    <3>1. age' = [age EXCEPT ![q] = there(q), ![p] = back(q)]
      BY <1>1, <1>3, <2>1 DEF back, G!TypeOK
    <3> QED BY <1>1, <1>3, <1>5, <3>1 DEF G!TypeOK
  <2>2. CASE age' = [age EXCEPT ![q] = there(q)]
    BY <1>1, <1>3, <1>5, <2>2 DEF G!TypeOK
  <2>3. CASE age' = age
    BY <1>1, <2>3 DEF G!TypeOK
  <2> QED BY <1>2, <2>1, <2>2, <2>3
<1>7. Oldest'
  <2> SUFFICES ASSUME NEW x \in Peer, NEW y \in Peer, y \in up PROVE age'[x][y] >= age'[y][y]
    BY <1>2 DEF Oldest
  <2>1. age'[y][y] <= age[y][y]
    <3>1. age[y][y] \in Nat
      BY <1>1, <1>4 DEF G!TypeOK
    <3>2. CASE age'[y] = age[y]
      BY <3>1, <3>2
    <3>3. CASE y = q /\ age'[y] = there(q)
      BY <1>5, <3>3
    <3>4. CASE y = p /\ age'[y] = back(q)
      BY <1>5, <3>4
    <3> QED BY <1>6, <3>2, <3>3, <3>4
  <2>2. age'[x][y] >= age[y][y]
    BY <1>1, <1>5, <1>6 DEF Oldest
  <2>3. age'[x][y] \in Nat /\ age'[y][y] \in Nat /\ age[y][y] \in Nat
    BY <1>1, <1>4, <1>6 DEF G!TypeOK
  <2> QED BY <2>1, <2>2, <2>3
<1>8. Asks'
  <2>1. IsFiniteSet(ask[p])
    <3>1. ask[p] \in SUBSET Peer
      BY <1>1 DEF Asks
    <3> QED BY <3>1, FS_Subset DEF GossipSized
  <2>2. Cardinality(ask[p] \ {q}) \in Nat /\ Cardinality(ask[p] \ {q}) <= Cardinality(ask[p])
    <3>1. (ask[p] \ {q}) \in SUBSET ask[p]
      OBVIOUS
    <3> QED BY <2>1, <3>1, FS_Subset, FS_CardinalityType
  <2>3. Cardinality(ask[p]) <= FANOUT + 1 /\ Cardinality(ask[p]) \in Nat /\ FANOUT \in Nat
    BY <1>1, <2>1, FS_CardinalityType DEF Asks, GossipSized
  <2>4. ask' = [ask EXCEPT ![p] = ask[p] \ {q}]
    BY <1>2
  <2>5. \A x \in Peer : ask'[x] = IF x = p THEN ask[p] \ {q} ELSE ask[x]
    BY <1>1, <2>4 DEF Asks
  <2>6. ask' \in [Peer -> SUBSET Peer]
    BY <1>1, <2>4 DEF Asks
  <2> QED BY <1>1, <2>2, <2>3, <2>5, <2>6 DEF Asks
<1>9. G!TypeOK'
  <2>1. failures' \in [Peer -> [Peer -> 0..SKIP]]
    <3> DEFINE n == failures[p][q]
    <3>1. n \in 0..SKIP /\ SKIP \in Nat /\ failures \in [Peer -> [Peer -> 0..SKIP]]
      BY <1>1, <1>3 DEF G!TypeOK, GossipSized
    <3>2. PICK m \in 0..SKIP : failures' = [failures EXCEPT ![p] = [@ EXCEPT ![q] = m]]
      <4>1. 0 \in 0..SKIP /\ (IF n < SKIP THEN n + 1 ELSE n) \in 0..SKIP
        BY <3>1
      <4>2. \/ failures' = [failures EXCEPT ![p] = [@ EXCEPT ![q] = 0]]
            \/ failures' = [failures EXCEPT ![p] = [@ EXCEPT ![q] = IF n < SKIP THEN n + 1 ELSE n]]
        BY <1>2, <3>1
      <4> QED BY <4>1, <4>2
    <3> QED BY <3>1, <3>2
  <2>2. faults' \in 0..MaxFaults
    BY <1>1, <1>2 DEF G!TypeOK, G!Fault, GossipSized
  <2>3. up' = up /\ broken' = broken /\ turn' = turn /\ age' \in [Peer -> [Peer -> 0..G!Unseen]]
    BY <1>2, <1>6
  <2>4. up \subseteq Peer /\ broken \subseteq G!Pairs /\ turn \subseteq up
    BY <1>1 DEF G!TypeOK
  <2> QED BY <1>8, <2>1, <2>2, <2>3, <2>4, SameCount DEF G!TypeOK, Asks
<1> QED BY <1>7, <1>8, <1>9 DEF GossipInv

\* A tick makes everything older by one, and nothing older than can be.
LEMMA TickInv == ASSUME GossipSized, GossipInv, G!Tick PROVE GossipInv'
<1>1. G!TypeOK /\ Asks /\ Oldest
  BY DEF GossipInv
<1>2. /\ turn' = up /\ UNCHANGED <<up, broken, failures, ask, faults>>
      /\ age' = [p \in Peer |-> [q \in Peer |-> IF age[p][q] < G!Unseen THEN age[p][q] + 1 ELSE G!Unseen]]
  BY DEF G!Tick
<1>3. G!Unseen \in Nat
  BY DEF GossipSized, G!Unseen
<1>4. age' \in [Peer -> [Peer -> 0..G!Unseen]]
  BY <1>1, <1>2, <1>3 DEF G!TypeOK
<1>5. Oldest'
  BY <1>1, <1>2, <1>3 DEF Oldest, G!TypeOK
<1> QED BY <1>1, <1>2, <1>4, <1>5 DEF GossipInv, G!TypeOK, Asks

\* Links break and are mended, peers stop and start with an empty table.
LEMMA WorldInv == ASSUME GossipSized, GossipInv, G!World PROVE GossipInv'
<1>1. G!TypeOK /\ Asks /\ Oldest
  BY DEF GossipInv
<1>2. G!Unseen \in Nat /\ 0 \in 0..SKIP
  BY DEF GossipSized, G!Unseen
<1>3. ASSUME NEW s \in G!Pairs, G!Break(s) \/ G!Mend(s)
      PROVE  GossipInv'
  <2>1. /\ UNCHANGED <<up, age, failures, ask, turn>> /\ broken' \subseteq G!Pairs /\ faults' \in 0..MaxFaults
    BY <1>1, <1>3 DEF G!Break, G!Mend, G!Fault, G!TypeOK, GossipSized
  <2> QED BY <1>1, <2>1 DEF GossipInv, G!TypeOK, Asks, Oldest
<1>4. ASSUME NEW p \in Peer, G!Stop(p)
      PROVE  GossipInv'
  <2>1. /\ UNCHANGED <<broken, age, failures, ask, turn>> /\ up' = up \ {p} /\ turn = {}
        /\ faults' \in 0..MaxFaults
    BY <1>1, <1>4 DEF G!Stop, G!Quiet, G!Fault, G!TypeOK, GossipSized
  <2> QED BY <1>1, <2>1 DEF GossipInv, G!TypeOK, Asks, Oldest
<1>5. ASSUME NEW p \in Peer, G!Restart(p)
      PROVE  GossipInv'
  <2> DEFINE fresh == [q \in Peer |-> IF p = q THEN 0 ELSE G!Unseen]
  <2>1. /\ UNCHANGED <<broken, ask, turn, faults>> /\ up' = up \cup {p}
        /\ age' = [age EXCEPT ![p] = fresh]
        /\ failures' = [failures EXCEPT ![p] = [q \in Peer |-> 0]]
    BY <1>5 DEF G!Restart
  <2>2. fresh \in [Peer -> 0..G!Unseen] /\ [q \in Peer |-> 0] \in [Peer -> 0..SKIP]
    BY <1>2
  <2>3. age' \in [Peer -> [Peer -> 0..G!Unseen]] /\ failures' \in [Peer -> [Peer -> 0..SKIP]]
    BY <1>1, <2>1, <2>2 DEF G!TypeOK
  <2>4. \A x, y \in Peer : age'[x][y] = IF x # p THEN age[x][y] ELSE IF y = p THEN 0 ELSE G!Unseen
    BY <1>1, <2>1 DEF G!TypeOK
  <2>5. Oldest'
    <3> SUFFICES ASSUME NEW x \in Peer, NEW y \in Peer, y \in up' PROVE age'[x][y] >= age'[y][y]
      BY DEF Oldest
    <3>1. age[x][y] \in 0..G!Unseen /\ age[y][y] \in 0..G!Unseen
      BY <1>1 DEF G!TypeOK
    <3>2. CASE y = p
      BY <1>2, <2>4, <3>1, <3>2
    <3>3. CASE y # p
      BY <1>1, <1>2, <2>1, <2>4, <3>1, <3>3 DEF Oldest
    <3> QED BY <3>2, <3>3
  <2>6. G!TypeOK' /\ Asks'
    BY <1>1, <2>1, <2>3 DEF G!TypeOK, Asks
  <2> QED BY <2>5, <2>6 DEF GossipInv
<1> QED BY <1>3, <1>4, <1>5 DEF G!World

\* What a peer holds of another that runs was signed by it: whoever passed the record on, and however
\* often, it is no fresher than the other's own (gossip.py: run_round, exchange; merge keeps ts).
THEOREM NeverFresher == ASSUME GossipSized PROVE G!Spec => [](G!TypeOK /\ G!NeverFresher)
<1>1. G!Init => GossipInv
  BY GossipInitInv
<1>2. GossipInv /\ [G!Next]_(G!vars) => GossipInv'
  <2> SUFFICES ASSUME GossipInv, [G!Next]_(G!vars) PROVE GossipInv'
    OBVIOUS
  <2>1. CASE UNCHANGED G!vars
    BY <2>1 DEF GossipInv, G!TypeOK, Asks, Oldest, G!vars
  <2> QED BY <2>1, BeginInv, ExchangeInv, TickInv, WorldInv DEF G!Next, G!Round
<1>3. GossipInv => G!TypeOK /\ G!NeverFresher
  BY DEF GossipInv, Oldest, G!NeverFresher
<1> QED BY <1>1, <1>2, <1>3, PTL DEF G!Spec

-----------------------------------------------------------------------------
(* Records in the DHT (Dht): what its nodes hold stays within the limits,  *)
(* their counters are exact, and nothing is replaced by what is older.     *)

CONSTANTS Node, Publisher, Ip, Home, Reader, MaxPerKey, MaxPerSource, MaxSeq
VARIABLES ip, data, per, secret, token, seq, stale, store, late, find, hFaults

H == INSTANCE Dht WITH faults <- hFaults

\* Dht counts sets as everybody does.
LEMMA CountInDht == \A S : H!Cardinality(S) = Cardinality(S)
  BY DEF H!Cardinality, Cardinality

\* Finitely many nodes; publishers are nodes that other nodes see at some address.
DhtSized == /\ IsFiniteSet(Node) /\ Publisher \subseteq Node
            /\ Home \in [Publisher -> Ip]
            /\ MaxSeq \in [Publisher -> Nat] /\ MaxPerKey \in Nat /\ MaxPerSource \in Nat

-----------------------------------------------------------------------------
\* The inductive invariant.

Value == [seq : Nat, src : H!Source]
Announcing == [pc : {"idle", "store"}, attempt : 0..1, todo : SUBSET Node, retry : SUBSET Node,
          acked : SUBSET Node, stored : Nat]
Sent == [p : Publisher, src : Ip, n : Node, seq : Nat, token : Nat]
DhtTypes ==
  /\ ip \in [Publisher -> Ip]
  /\ data \in [Node -> [Publisher -> Value]]
  /\ per \in [Node -> [H!Source -> Int]]
  /\ secret \in [Node -> Nat]
  /\ token \in [Publisher -> [Node -> Nat]]
  /\ seq \in [Publisher -> Nat] /\ stale \in [Publisher -> Nat]
  /\ store \in [Publisher -> Announcing]
  /\ late \in SUBSET Sent
  /\ find \in [pc : {"idle", "collect", "found"}, todo : SUBSET Node, best : [Publisher -> Nat]]

\* Nobody holds, and nothing on its way brings, a record that was not published yet.
Published == /\ \A p \in Publisher : /\ seq[p] <= MaxSeq[p]
                                     /\ \A n \in Node : data[n][p].seq <= seq[p]
             /\ \A r \in late : r.seq <= seq[r.p]

\* A replica that counts is asked no more, and a publisher does not ask itself.
Replicated(p, v) == /\ v.acked \cap (v.todo \cup v.retry) = {} /\ v.todo \cap v.retry = {}
                    /\ p \notin v.acked \cup v.todo \cup v.retry
                    /\ v.stored <= Cardinality(v.acked) + 1
Replicas == \A p \in Publisher : Replicated(p, store[p])

DhtInv == DhtTypes /\ Published /\ Replicas /\ H!CountsExact /\ H!LimitsHold

-----------------------------------------------------------------------------
\* The store of one node.

Holders(d) == {p \in Publisher : d[p].seq # 0}
From(d, s) == {p \in Publisher : d[p].seq # 0 /\ d[p].src = s}

\* Those who hold a record are finitely many, so they can be counted.
LEMMA FiniteHolders ==
  ASSUME DhtSized, NEW d
  PROVE  /\ IsFiniteSet(Publisher) /\ IsFiniteSet(Holders(d))
         /\ \A s : IsFiniteSet(From(d, s)) /\ From(d, s) \subseteq Holders(d)
<1>1. IsFiniteSet(Publisher)
  BY FS_Subset DEF DhtSized
<1>2. Holders(d) \in SUBSET Publisher /\ \A s : From(d, s) \in SUBSET Publisher
  BY DEF Holders, From
<1>3. \A s : From(d, s) \subseteq Holders(d)
  BY DEF Holders, From
<1> QED BY <1>1, <1>2, <1>3, FS_Subset

\* Pruning gives back what it takes away.
LEMMA PrunedIs ==
  ASSUME DhtSized, DhtInv, NEW n \in Node
  PROVE  /\ H!Pruned(n) \in [Publisher -> Value]
         /\ \A p \in Publisher : H!Pruned(n)[p] = IF data[n][p].seq > stale[p] THEN data[n][p] ELSE H!None
         /\ H!PrunedCounts(n) = H!Counted(H!Pruned(n))
         /\ Cardinality(Holders(H!Pruned(n))) <= MaxPerKey
         /\ \A s \in H!Source : H!Counted(H!Pruned(n))[s] <= MaxPerSource
<1>1. DhtTypes /\ n \in Node /\ data[n] \in [Publisher -> Value] /\ stale \in [Publisher -> Nat]
  BY DEF DhtInv, DhtTypes
<1>2. H!None \in Value
  BY DEF H!None, Value, H!Source
<1>3. /\ H!Pruned(n) \in [Publisher -> Value]
      /\ \A p \in Publisher : H!Pruned(n)[p] = IF data[n][p].seq > stale[p] THEN data[n][p] ELSE H!None
  BY <1>1, <1>2 DEF H!Pruned, H!Live
<1> DEFINE gone(s) == {p \in H!Gone(n) : data[n][p].src = s}
<1>4. ASSUME NEW s \in H!Source
      PROVE  /\ From(H!Pruned(n), s) = From(data[n], s) \ gone(s)
             /\ Cardinality(From(H!Pruned(n), s)) = Cardinality(From(data[n], s)) - Cardinality(gone(s))
             /\ Cardinality(From(H!Pruned(n), s)) <= Cardinality(From(data[n], s))
  <2>1. From(H!Pruned(n), s) = From(data[n], s) \ gone(s)
    BY <1>1, <1>3 DEF From, H!Gone, H!Live, H!None, Value
  <2>2. gone(s) \subseteq From(data[n], s)
    BY DEF From, H!Gone
  <2>3. From(data[n], s) \cap gone(s) = gone(s)
    BY <2>2
  <2>4. IsFiniteSet(From(data[n], s))
    BY FiniteHolders
  <2> HIDE DEF gone
  <2>5. Cardinality(From(data[n], s) \ gone(s)) = Cardinality(From(data[n], s)) - Cardinality(From(data[n], s) \cap gone(s))
    BY <2>4, FS_Difference
  <2>6. From(H!Pruned(n), s) \in SUBSET From(data[n], s)
    BY <2>1
  <2>7. Cardinality(From(H!Pruned(n), s)) <= Cardinality(From(data[n], s))
    BY <2>4, <2>6, FS_Subset
  <2> QED BY <2>1, <2>3, <2>5, <2>7
<1>5. \A s \in H!Source : per[n][s] = Cardinality(From(data[n], s))
  BY CountInDht DEF DhtInv, H!CountsExact, H!Counted, From
<1>6. H!PrunedCounts(n) = H!Counted(H!Pruned(n))
  BY <1>4, <1>5, CountInDht DEF H!PrunedCounts, H!Counted, From
<1>7. Cardinality(Holders(H!Pruned(n))) <= MaxPerKey
  <2>1. Holders(H!Pruned(n)) \in SUBSET Holders(data[n])
    BY <1>1, <1>3 DEF Holders, H!None, Value
  <2>2. IsFiniteSet(Holders(data[n]))
    BY FiniteHolders
  <2>3. IsFiniteSet(Holders(H!Pruned(n))) /\ Cardinality(Holders(H!Pruned(n))) <= Cardinality(Holders(data[n]))
    BY <2>1, <2>2, FS_Subset
  <2>4. Cardinality(Holders(data[n])) <= MaxPerKey
    BY CountInDht DEF DhtInv, H!LimitsHold, Holders
  <2>5. Cardinality(Holders(data[n])) \in Nat /\ Cardinality(Holders(H!Pruned(n))) \in Nat /\ MaxPerKey \in Nat
    BY <2>2, <2>3, FS_CardinalityType DEF DhtSized
  <2> QED BY <2>3, <2>4, <2>5
<1>8. \A s \in H!Source : H!Counted(H!Pruned(n))[s] <= MaxPerSource
  <2> SUFFICES ASSUME NEW s \in H!Source PROVE Cardinality(From(H!Pruned(n), s)) <= MaxPerSource
    BY CountInDht DEF H!Counted, From
  <2>1. Cardinality(From(data[n], s)) <= MaxPerSource
    BY CountInDht DEF DhtInv, H!LimitsHold, H!Counted, From
  <2>2. Cardinality(From(data[n], s)) \in Nat /\ Cardinality(From(H!Pruned(n), s)) \in Nat /\ MaxPerSource \in Nat
    BY FiniteHolders, FS_CardinalityType DEF DhtSized
  <2>3. Cardinality(From(H!Pruned(n), s)) <= Cardinality(From(data[n], s))
    BY <1>4
  <2> QED BY <2>1, <2>2, <2>3
<1> QED BY <1>3, <1>6, <1>7, <1>8

\* What a step may do to the stores: of record p alone a newer one may come, s; others may only go
\* stale; and the counters follow.
HeldOn(p, s) ==
  /\ data' \in [Node -> [Publisher -> Value]] /\ per' \in [Node -> [H!Source -> Int]]
  /\ H!CountsExact' /\ H!LimitsHold'
  /\ \A m \in Node, q \in Publisher :
       /\ \/ data'[m][q].seq >= data[m][q].seq \/ data[m][q].seq <= stale[q]
          \/ secret'[m] # secret[m]
       /\ data'[m][q].seq \in {data[m][q].seq, 0} \/ (q = p /\ data'[m][q].seq = s)

\* The store of node n becomes d, with the counters of d, when record p with number s arrives there.
Becomes(n, p, s, d) ==
  /\ data' = [data EXCEPT ![n] = d] /\ per' = [per EXCEPT ![n] = H!Counted(d)]
  /\ Cardinality(Holders(d)) <= MaxPerKey
  /\ \A x \in H!Source : H!Counted(d)[x] <= MaxPerSource
  /\ \A q \in Publisher :
       /\ d[q].seq >= data[n][q].seq \/ data[n][q].seq <= stale[q]
       /\ d[q].seq \in {data[n][q].seq, 0} \/ (q = p /\ d[q].seq = s)

\* A node that changes one publisher's record keeps that record held.
LEMMA OneHeld ==
  ASSUME DhtSized, DhtInv, NEW n \in Node, NEW p, NEW s \in Nat,
         NEW d \in [Publisher -> Value], Becomes(n, p, s, d)
  PROVE  HeldOn(p, s)
<1>1. data \in [Node -> [Publisher -> Value]] /\ per \in [Node -> [H!Source -> Int]]
  BY DEF DhtInv, DhtTypes
<1>2. H!Counted(d) \in [H!Source -> Int]
  <2>1. \A x : Cardinality(From(d, x)) \in Int
    <3>1. \A x : IsFiniteSet(From(d, x))
      BY FiniteHolders
    <3>2. \A x : Cardinality(From(d, x)) \in Nat
      BY <3>1, FS_CardinalityType
    <3> QED BY <3>2
  <2> QED BY <2>1, CountInDht DEF H!Counted, From
<1>3. /\ data' \in [Node -> [Publisher -> Value]] /\ per' \in [Node -> [H!Source -> Int]]
      /\ data'[n] = d /\ per'[n] = H!Counted(d)
      /\ \A m \in Node \ {n} : data'[m] = data[m] /\ per'[m] = per[m]
  BY <1>1, <1>2 DEF Becomes
<1>4. H!CountsExact'
  <2> SUFFICES ASSUME NEW m \in Node PROVE per'[m] = H!Counted(data'[m])
    BY CountInDht DEF H!CountsExact, H!Counted
  <2> QED BY <1>3 DEF DhtInv, H!CountsExact
<1>5. H!LimitsHold'
  <2> SUFFICES ASSUME NEW m \in Node
               PROVE  /\ Cardinality(Holders(data'[m])) <= MaxPerKey
                      /\ \A x \in H!Source : H!Counted(data'[m])[x] <= MaxPerSource
    BY CountInDht DEF H!LimitsHold, Holders, H!Counted
  <2> QED BY <1>3, CountInDht DEF Becomes, DhtInv, H!LimitsHold, Holders
<1>6. ASSUME NEW m \in Node, NEW q \in Publisher
      PROVE  /\ data'[m][q].seq >= data[m][q].seq \/ data[m][q].seq <= stale[q]
             /\ data'[m][q].seq \in {data[m][q].seq, 0} \/ (q = p /\ data'[m][q].seq = s)
  <2>1. CASE m = n
    BY <1>3, <2>1 DEF Becomes
  <2>2. CASE m # n
    <3>1. data[m][q].seq \in Nat
      BY <1>1 DEF Value
    <3> QED BY <1>3, <2>2, <3>1
  <2> QED BY <2>1, <2>2
<1> QED BY <1>3, <1>4, <1>5, <1>6 DEF HeldOn

\* Dropping what expired keeps every record that has not.
LEMMA PruneIs ==
  ASSUME DhtSized, DhtInv, NEW n \in Node, H!Prune(n), NEW p, NEW s \in Nat
  PROVE  HeldOn(p, s)
<1>1. /\ H!Pruned(n) \in [Publisher -> Value]
      /\ \A q \in Publisher : H!Pruned(n)[q] = IF data[n][q].seq > stale[q] THEN data[n][q] ELSE H!None
      /\ H!PrunedCounts(n) = H!Counted(H!Pruned(n))
      /\ Cardinality(Holders(H!Pruned(n))) <= MaxPerKey
      /\ \A x \in H!Source : H!Counted(H!Pruned(n))[x] <= MaxPerSource
  BY PrunedIs
<1>2. \A q \in Publisher : data[n][q].seq \in Nat /\ stale[q] \in Nat
  BY DEF DhtInv, DhtTypes, Value
<1>3. \A q \in Publisher :
        /\ H!Pruned(n)[q].seq >= data[n][q].seq \/ data[n][q].seq <= stale[q]
        /\ H!Pruned(n)[q].seq \in {data[n][q].seq, 0}
  BY <1>1, <1>2 DEF H!None
<1>4. data' = [data EXCEPT ![n] = H!Pruned(n)] /\ per' = [per EXCEPT ![n] = H!Counted(H!Pruned(n))]
  BY <1>1 DEF H!Prune
<1>5. Becomes(n, p, s, H!Pruned(n))
  BY <1>1, <1>3, <1>4 DEF Becomes
<1> QED BY <1>1, <1>5, OneHeld

\* A record that is put is held, or a newer one was there.
LEMMA PutIs ==
  ASSUME DhtSized, DhtInv, NEW n \in Node, NEW p \in Publisher, NEW s \in Nat, NEW src \in H!Source,
         H!Put(n, p, s, src)
  PROVE  HeldOn(p, s)
<1>1. /\ H!Pruned(n) \in [Publisher -> Value]
      /\ \A q \in Publisher : H!Pruned(n)[q] = IF data[n][q].seq > stale[q] THEN data[n][q] ELSE H!None
      /\ H!PrunedCounts(n) = H!Counted(H!Pruned(n))
      /\ Cardinality(Holders(H!Pruned(n))) <= MaxPerKey
      /\ \A x \in H!Source : H!Counted(H!Pruned(n))[x] <= MaxPerSource
  BY PrunedIs
<1>2. \A q \in Publisher : data[n][q].seq \in Nat /\ stale[q] \in Nat
  BY DEF DhtInv, DhtTypes, Value
<1>3. CASE H!Refuses(n, p, s, src) \/ s = H!Old(n, p).seq
  <2>1. H!Prune(n)
    BY <1>3 DEF H!Put
  <2> QED BY <2>1, PruneIs
<1>4. CASE ~(H!Refuses(n, p, s, src) \/ s = H!Old(n, p).seq)
  <2> DEFINE old == H!Pruned(n)
             v == [seq |-> s, src |-> src]
             d == [old EXCEPT ![p] = v]
             c == H!CountWithout(n, p)
  <2>1. /\ data' = [data EXCEPT ![n] = d] /\ per' = [per EXCEPT ![n] = [c EXCEPT ![src] = @ + 1]]
        /\ s > stale[p] /\ ~(old[p].seq > s) /\ s # old[p].seq /\ ~(c[src] >= MaxPerSource)
        /\ old[p].seq # 0 \/ Cardinality(Holders(old)) < MaxPerKey
    BY <1>2, <1>4, CountInDht DEF H!Put, H!Refuses, H!Old, H!Room, Holders
  <2>2. old \in [Publisher -> Value] /\ v \in Value /\ old[p].seq \in Nat /\ s # 0
        /\ old[p].src \in H!Source
    BY <1>1, <1>2, <2>1 DEF Value
  <2>3. /\ d \in [Publisher -> Value] /\ d[p] = v /\ \A q \in Publisher \ {p} : d[q] = old[q]
    BY <2>2
  <2>4. c = [x \in H!Source |-> Cardinality(From(old, x) \ {p})]
    <3>1. H!Counted(old) = [x \in H!Source |-> Cardinality(From(old, x))]
      BY CountInDht DEF H!Counted, From
    <3>2. CASE old[p].seq = 0
      <4>1. \A x : From(old, x) \ {p} = From(old, x)
        BY <3>2 DEF From
      <4>2. c = H!Counted(old)
        BY <1>1, <3>2 DEF H!CountWithout, H!Old
      <4> QED BY <3>1, <4>1, <4>2
    <3>3. CASE old[p].seq # 0
      <4>1. c = [H!Counted(old) EXCEPT ![old[p].src] = @ - 1]
        BY <1>1, <3>3 DEF H!CountWithout, H!Old
      <4>2. \A x \in H!Source \ {old[p].src} : From(old, x) \ {p} = From(old, x)
        BY DEF From
      <4>3. p \in From(old, old[p].src)
        BY <3>3 DEF From
      <4>4. IsFiniteSet(From(old, old[p].src))
        BY FiniteHolders
      <4>5. Cardinality(From(old, old[p].src) \ {p}) = Cardinality(From(old, old[p].src)) - 1
        BY <4>3, <4>4, FS_RemoveElement
      <4> HIDE DEF c, old
      <4> QED BY <2>2, <3>1, <4>1, <4>2, <4>5
    <3> QED BY <3>2, <3>3
  <2>5. [c EXCEPT ![src] = @ + 1] = H!Counted(d)
    <3>1. ASSUME NEW x \in H!Source
          PROVE  Cardinality(From(d, x)) = IF x = src THEN Cardinality(From(old, x) \ {p}) + 1
                                           ELSE Cardinality(From(old, x) \ {p})
      <4>1. CASE x = src
        <5>1. From(d, x) = (From(old, x) \ {p}) \cup {p}
          BY <2>2, <2>3, <4>1 DEF From
        <5>2. IsFiniteSet(From(old, x) \ {p})
          BY FiniteHolders, FS_RemoveElement
        <5> QED BY <4>1, <5>1, <5>2, FS_AddElement
      <4>2. CASE x # src
        <5>1. From(d, x) = From(old, x) \ {p}
          BY <2>2, <2>3, <4>2 DEF From
        <5> QED BY <4>2, <5>1
      <4> QED BY <4>1, <4>2
    <3>2. H!Counted(d) = [x \in H!Source |-> Cardinality(From(d, x))]
      BY CountInDht DEF H!Counted, From
    <3> HIDE DEF c, d, old
    <3> QED BY <2>4, <3>1, <3>2
  <2>6. \A x \in H!Source : H!Counted(d)[x] <= MaxPerSource
    <3> SUFFICES ASSUME NEW x \in H!Source PROVE H!Counted(d)[x] <= MaxPerSource
      OBVIOUS
    <3>1. c[x] \in Nat /\ c[x] <= H!Counted(old)[x] /\ H!Counted(old)[x] \in Nat
      <4>1. IsFiniteSet(From(old, x)) /\ From(old, x) \ {p} \in SUBSET From(old, x)
        BY FiniteHolders
      <4>2. /\ IsFiniteSet(From(old, x) \ {p})
            /\ Cardinality(From(old, x) \ {p}) <= Cardinality(From(old, x))
        BY <4>1, FS_Subset
      <4> QED BY <2>4, <4>1, <4>2, FS_CardinalityType, CountInDht DEF H!Counted, From
    <3>2. H!Counted(d)[x] = IF x = src THEN c[x] + 1 ELSE c[x]
      <4> HIDE DEF c, d
      <4> QED BY <2>4, <2>5
    <3>3. H!Counted(old)[x] <= MaxPerSource /\ MaxPerSource \in Nat
      BY <1>1 DEF DhtSized
    <3> HIDE DEF c, d, old
    <3> QED BY <2>1, <3>1, <3>2, <3>3
  <2>7. Cardinality(Holders(d)) <= MaxPerKey
    <3>1. Holders(d) = Holders(old) \cup {p}
      BY <2>2, <2>3 DEF Holders
    <3>2. IsFiniteSet(Holders(old)) /\ (p \in Holders(old) <=> old[p].seq # 0)
      BY FiniteHolders DEF Holders
    <3>3. Cardinality(Holders(d)) = IF p \in Holders(old) THEN Cardinality(Holders(old))
                                    ELSE Cardinality(Holders(old)) + 1
      BY <3>1, <3>2, FS_AddElement
    <3>4. Cardinality(Holders(old)) \in Nat /\ MaxPerKey \in Nat
      BY <3>2, FS_CardinalityType DEF DhtSized
    <3> HIDE DEF d, old
    <3>5. /\ Cardinality(Holders(old)) <= MaxPerKey
          /\ old[p].seq # 0 \/ Cardinality(Holders(old)) < MaxPerKey
      BY <1>1, <2>1 DEF old
    <3> QED BY <3>2, <3>3, <3>4, <3>5
  <2>8. \A q \in Publisher :
          /\ d[q].seq >= data[n][q].seq \/ data[n][q].seq <= stale[q]
          /\ d[q].seq \in {data[n][q].seq, 0} \/ (q = p /\ d[q].seq = s)
    <3> SUFFICES ASSUME NEW q \in Publisher
                 PROVE  /\ d[q].seq >= data[n][q].seq \/ data[n][q].seq <= stale[q]
                        /\ d[q].seq \in {data[n][q].seq, 0} \/ (q = p /\ d[q].seq = s)
      OBVIOUS
    <3>1. old[q].seq = IF data[n][q].seq > stale[q] THEN data[n][q].seq ELSE 0
      BY <1>1 DEF H!None
    <3> HIDE DEF d, old
    <3>2. CASE q = p
      BY <1>2, <2>1, <2>3, <3>1, <3>2
    <3>3. CASE q # p
      BY <1>2, <2>3, <3>1, <3>3
    <3> QED BY <3>2, <3>3
  <2>9. /\ data' = [data EXCEPT ![n] = d] /\ per' = [per EXCEPT ![n] = H!Counted(d)]
    <3> HIDE DEF c, d
    <3> QED BY <2>1, <2>5
  <2>10. d \in [Publisher -> Value]
    BY <2>3
  <2> HIDE DEF d, c, old, v
  <2>11. Becomes(n, p, s, d)
    BY <2>6, <2>7, <2>8, <2>9 DEF Becomes
  <2> QED BY <2>10, <2>11, OneHeld
<1> QED BY <1>3, <1>4

\* Where nothing is stored or dropped, what was held is held.
LEMMA SameIs ==
  ASSUME DhtSized, DhtInv, UNCHANGED <<data, per>>, NEW p, NEW s \in Nat
  PROVE  HeldOn(p, s)
<1>1. \A m \in Node, q \in Publisher : data[m][q].seq \in Nat
  BY DEF DhtInv, DhtTypes, Value
<1>2. H!CountsExact' /\ H!LimitsHold'
  BY CountInDht DEF DhtInv, H!CountsExact, H!LimitsHold, H!Counted
<1> QED BY <1>1, <1>2 DEF HeldOn, DhtInv, DhtTypes

\* A node that starts again holds nothing, and counts nothing.
LEMMA ForgetsIs ==
  ASSUME DhtSized, DhtInv, NEW n \in Node, NEW p, NEW s \in Nat,
         secret' = [secret EXCEPT ![n] = @ + 1],
         data' = [data EXCEPT ![n] = [q \in Publisher |-> H!None]],
         per' = [per EXCEPT ![n] = [x \in H!Source |-> 0]]
  PROVE  HeldOn(p, s)
<1> DEFINE empty == [q \in Publisher |-> H!None]
           zero == [x \in H!Source |-> 0]
<1>1. data \in [Node -> [Publisher -> Value]] /\ per \in [Node -> [H!Source -> Int]]
  BY DEF DhtInv, DhtTypes
<1>2. empty \in [Publisher -> Value] /\ zero \in [H!Source -> Int]
  BY DEF H!None, Value, H!Source
<1>3. /\ \A x : From(empty, x) = {}
      /\ Holders(empty) = {}
  BY DEF From, Holders, H!None
<1>4. H!Counted(empty) = zero
  <2>1. H!Counted(empty) = [x \in H!Source |-> Cardinality(From(empty, x))]
    BY CountInDht DEF H!Counted, From
  <2> HIDE DEF empty
  <2> QED BY <1>3, <2>1, FS_EmptySet
<1>5. \A q \in Publisher : empty[q].seq = 0
  BY DEF H!None
<1>6. /\ data' \in [Node -> [Publisher -> Value]] /\ per' \in [Node -> [H!Source -> Int]]
      /\ data'[n] = empty /\ per'[n] = zero
      /\ \A m \in Node \ {n} : data'[m] = data[m] /\ per'[m] = per[m]
  <2> HIDE DEF empty, zero
  <2>1. data' = [data EXCEPT ![n] = empty] /\ per' = [per EXCEPT ![n] = zero]
    BY DEF empty, zero
  <2> QED BY <1>1, <1>2, <2>1
<1> HIDE DEF empty, zero
<1>7. H!CountsExact'
  <2> SUFFICES ASSUME NEW m \in Node PROVE per'[m] = H!Counted(data'[m])
    BY CountInDht DEF H!CountsExact, H!Counted
  <2> QED BY <1>4, <1>6 DEF DhtInv, H!CountsExact
<1>8. H!LimitsHold'
  <2> SUFFICES ASSUME NEW m \in Node
               PROVE  /\ Cardinality(Holders(data'[m])) <= MaxPerKey
                      /\ \A x \in H!Source : H!Counted(data'[m])[x] <= MaxPerSource
    BY CountInDht DEF H!LimitsHold, Holders, H!Counted
  <2>1. CASE m = n
    <3>1. \A x \in H!Source : H!Counted(empty)[x] = 0
      BY <1>4 DEF zero
    <3>2. Cardinality(Holders(empty)) = 0
      BY <1>3, FS_EmptySet
    <3> QED BY <1>6, <2>1, <3>1, <3>2 DEF DhtSized
  <2>2. CASE m # n
    BY <1>6, <2>2, CountInDht DEF DhtInv, H!LimitsHold, Holders
  <2> QED BY <2>1, <2>2
<1>9. \A m \in Node, q \in Publisher :
        /\ \/ data'[m][q].seq >= data[m][q].seq \/ data[m][q].seq <= stale[q]
           \/ secret'[m] # secret[m]
        /\ data'[m][q].seq \in {data[m][q].seq, 0}
  <2> SUFFICES ASSUME NEW m \in Node, NEW q \in Publisher
               PROVE  /\ data'[m][q].seq >= data[m][q].seq \/ secret'[m] # secret[m]
                      /\ data'[m][q].seq \in {data[m][q].seq, 0}
    OBVIOUS
  <2>1. data[m][q].seq \in Nat /\ secret \in [Node -> Nat]
    BY DEF DhtInv, DhtTypes, Value
  <2>2. CASE m = n
    BY <1>5, <1>6, <2>1, <2>2
  <2>3. CASE m # n
    BY <1>6, <2>1, <2>3
  <2> QED BY <2>2, <2>3
<1> QED BY <1>6, <1>7, <1>8, <1>9 DEF HeldOn

-----------------------------------------------------------------------------
\* What a step may do besides.

Finding == [pc : {"idle", "collect", "found"}, todo : SUBSET Node, best : [Publisher -> Nat]]
\* The numbers of the records only rise, and what is sent was published.
Numbered(p, s) ==
  /\ seq' \in [Publisher -> Nat] /\ \A q \in Publisher : seq[q] <= seq'[q] /\ seq'[q] <= MaxSeq[q]
  /\ p \in Publisher => s <= seq'[p]
  /\ late' \in SUBSET Sent /\ \A r \in late' : r.seq <= seq'[r.p]
Asked == store' \in [Publisher -> Announcing] /\ Replicas'
Searched ==
  /\ find' \in Finding
  /\ find.pc = "collect" => \/ secret'[Reader] # secret[Reader]
                            \/ \A q \in Publisher : \/ find'.best[q] >= find.best[q]
                                                    \/ find.best[q] <= stale[q]
Others == /\ ip' \in [Publisher -> Ip] /\ secret' \in [Node -> Nat]
          /\ token' \in [Publisher -> [Node -> Nat]] /\ stale' \in [Publisher -> Nat]

\* What the parts of the state keep, taken together, keeps the invariant and the newest record.
LEMMA DhtKeeps ==
  ASSUME DhtSized, DhtInv, NEW p, NEW s \in Nat, HeldOn(p, s), Numbered(p, s), Asked, Searched, Others
  PROVE  DhtInv' /\ H!KeepsNewest
<1>1. DhtTypes'
  BY DEF DhtTypes, HeldOn, Numbered, Asked, Searched, Others, Finding
<1>2. Published'
  <2>1. \A q \in Publisher, m \in Node : data'[m][q].seq <= seq'[q]
    <3> SUFFICES ASSUME NEW q \in Publisher, NEW m \in Node PROVE data'[m][q].seq <= seq'[q]
      OBVIOUS
    <3>1. /\ data[m][q].seq \in Nat /\ seq[q] \in Nat /\ data[m][q].seq <= seq[q]
      BY DEF DhtInv, DhtTypes, Published, Value
    <3>2. seq'[q] \in Nat /\ seq[q] <= seq'[q] /\ (p = q => s <= seq'[q])
      BY DEF Numbered
    <3>3. data'[m][q].seq \in {data[m][q].seq, 0} \/ (q = p /\ data'[m][q].seq = s)
      BY DEF HeldOn
    <3> QED BY <3>1, <3>2, <3>3
  <2> QED BY <2>1 DEF Published, Numbered
<1>3. H!KeepsNewest
  <2> SUFFICES ASSUME NEW q \in Publisher
               PROVE  /\ \A m \in Node : data'[m][q].seq < data[m][q].seq =>
                           data[m][q].seq <= stale[q] \/ secret'[m] # secret[m]
                      /\ find.pc = "collect" /\ find'.best[q] < find.best[q] =>
                           find.best[q] <= stale[q] \/ secret'[Reader] # secret[Reader]
    BY DEF H!KeepsNewest
  <2>1. ASSUME NEW m \in Node, data'[m][q].seq < data[m][q].seq
        PROVE  data[m][q].seq <= stale[q] \/ secret'[m] # secret[m]
    <3>1. data[m][q].seq \in Nat /\ data'[m][q].seq \in Nat
      BY <1>1 DEF DhtInv, DhtTypes, Value
    <3>2. \/ data'[m][q].seq >= data[m][q].seq \/ data[m][q].seq <= stale[q]
          \/ secret'[m] # secret[m]
      BY DEF HeldOn
    <3> QED BY <2>1, <3>1, <3>2
  <2>2. ASSUME find.pc = "collect", find'.best[q] < find.best[q]
        PROVE  find.best[q] <= stale[q] \/ secret'[Reader] # secret[Reader]
    <3>1. find.best[q] \in Nat /\ find'.best[q] \in Nat
      BY <1>1 DEF DhtInv, DhtTypes
    <3> QED BY <2>2, <3>1 DEF Searched
  <2> QED BY <2>1, <2>2
<1> QED BY <1>1, <1>2, <1>3 DEF DhtInv, HeldOn, Asked

\* What a step leaves alone.
LEMMA Untouched ==
  ASSUME DhtSized, DhtInv
  PROVE  /\ UNCHANGED store => Asked
         /\ UNCHANGED find => Searched
         /\ UNCHANGED <<seq, late>> =>
              \A p, s : (p \in Publisher => s <= seq[p]) => Numbered(p, s)
         /\ UNCHANGED <<ip, secret, stale>> /\ token' \in [Publisher -> [Node -> Nat]] => Others
         /\ token \in [Publisher -> [Node -> Nat]]
<1>1. UNCHANGED store => Asked
  BY DEF DhtInv, DhtTypes, Replicas, Replicated, Asked
<1>2. UNCHANGED find => Searched
  <2>1. \A q \in Publisher : find.best[q] \in Nat
    BY DEF DhtInv, DhtTypes
  <2> QED BY <2>1 DEF DhtInv, DhtTypes, Searched, Finding
<1>3. UNCHANGED <<seq, late>> => \A p, s : (p \in Publisher => s <= seq[p]) => Numbered(p, s)
  <2>1. \A q \in Publisher : seq[q] \in Nat
    BY DEF DhtInv, DhtTypes
  <2> QED BY <2>1 DEF DhtInv, DhtTypes, Published, Numbered
<1> QED BY <1>1, <1>2, <1>3 DEF DhtInv, DhtTypes, Others

\* One announcement goes on as e.
LEMMA AsksOn ==
  ASSUME DhtInv, NEW p \in Publisher, NEW e \in Announcing, Replicated(p, e), store' = [store EXCEPT ![p] = e]
  PROVE  Asked
<1>1. store \in [Publisher -> Announcing]
  BY DEF DhtInv, DhtTypes
<1>2. store' \in [Publisher -> Announcing] /\ store'[p] = e /\ \A q \in Publisher \ {p} : store'[q] = store[q]
  BY <1>1
<1>3. \A q \in Publisher : Replicated(q, store'[q])
  BY <1>2 DEF DhtInv, Replicas
<1> QED BY <1>2, <1>3 DEF Asked, Replicas, Replicated

-----------------------------------------------------------------------------
\* Each action.

\* The announcements and what a publisher sends are what the types say.
LEMMA Stored ==
  ASSUME DhtSized, DhtInv, NEW p \in Publisher
  PROVE  /\ store[p] \in Announcing /\ Replicated(p, store[p])
         /\ seq[p] \in Nat /\ ip[p] \in Ip /\ ip[p] \in H!Source /\ p \in Node
         /\ "local" \in H!Source /\ stale[p] \in Nat /\ MaxSeq[p] \in Nat
         /\ \A n \in Node : secret[n] \in Nat /\ token[p][n] \in Nat
  BY DEF DhtSized, DhtInv, DhtTypes, Replicas, H!Source

\* An announcement that starts.
LEMMA StartIs ==
  ASSUME NEW t \in SUBSET Node, NEW k \in {0, 1}
  PROVE  [H!Idle EXCEPT !.pc = "store", !.todo = t, !.stored = k] \in Announcing
<1>1. H!Idle \in Announcing
  BY DEF H!Idle, Announcing
<1>2. k \in Nat
  OBVIOUS
<1> QED BY <1>1, <1>2 DEF Announcing

\* A publisher's new record replaces its own older one only.
LEMMA PublishKeeps == ASSUME DhtSized, DhtInv, NEW p \in Publisher, H!Publish(p) PROVE DhtInv' /\ H!KeepsNewest
<1>1. store[p] \in Announcing /\ seq[p] \in Nat /\ p \in Node /\ "local" \in H!Source
  BY Stored
<1>2. /\ seq[p] < MaxSeq[p] /\ seq' = [seq EXCEPT ![p] = @ + 1]
      /\ H!Put(p, p, seq[p] + 1, "local") /\ UNCHANGED <<ip, secret, stale, late, find>>
  BY DEF H!Publish
<1>3. PICK found \in SUBSET (Node \ {p}) :
        /\ token' = [token EXCEPT ![p] = [n \in Node |-> IF n \in found THEN secret[n] ELSE @[n]]]
        /\ store' = [store EXCEPT ![p] = [H!Idle EXCEPT !.pc = "store", !.todo = found,
                       !.stored = IF H!Refuses(p, p, seq[p] + 1, "local") THEN 0 ELSE 1]]
  BY DEF H!Publish
<1>4. HeldOn(p, seq[p] + 1)
  <2>1. seq[p] + 1 \in Nat
    BY <1>1
  <2> QED BY <1>1, <1>2, <2>1, PutIs
<1>5. Numbered(p, seq[p] + 1)
  <2>1. seq \in [Publisher -> Nat] /\ late \in SUBSET Sent /\ MaxSeq \in [Publisher -> Nat]
    BY DEF DhtInv, DhtTypes, DhtSized
  <2>2. seq' \in [Publisher -> Nat] /\ seq'[p] = seq[p] + 1 /\ \A q \in Publisher \ {p} : seq'[q] = seq[q]
    BY <1>1, <1>2, <2>1
  <2>3. \A q \in Publisher : seq[q] <= MaxSeq[q]
    BY DEF DhtInv, Published
  <2>4. \A q \in Publisher : seq[q] <= seq'[q] /\ seq'[q] <= MaxSeq[q]
    BY <1>2, <2>1, <2>2, <2>3
  <2>5. \A r \in late : r.p \in Publisher /\ r.seq \in Nat /\ r.seq <= seq[r.p]
    BY <2>1 DEF DhtInv, Published, Sent
  <2>6. \A r \in late : r.seq <= seq'[r.p]
    BY <2>1, <2>2, <2>4, <2>5
  <2>7. seq[p] + 1 <= seq'[p]
    BY <1>1, <2>2
  <2> QED BY <1>2, <2>1, <2>2, <2>4, <2>6, <2>7 DEF Numbered
<1>6. Asked
  <2> DEFINE e == [H!Idle EXCEPT !.pc = "store", !.todo = found,
                     !.stored = IF H!Refuses(p, p, seq[p] + 1, "local") THEN 0 ELSE 1]
  <2>1. e \in Announcing
    BY <1>3, StartIs
  <2>2. Replicated(p, e)
    BY <1>3, FS_EmptySet DEF Replicated, H!Idle
  <2> HIDE DEF e
  <2>3. store' = [store EXCEPT ![p] = e]
    BY <1>3 DEF e
  <2> QED BY <2>1, <2>2, <2>3, AsksOn
<1>7. token' \in [Publisher -> [Node -> Nat]]
  <2>1. token \in [Publisher -> [Node -> Nat]] /\ secret \in [Node -> Nat]
    BY DEF DhtInv, DhtTypes
  <2>2. [n \in Node |-> IF n \in found THEN secret[n] ELSE token[p][n]] \in [Node -> Nat]
    BY <2>1
  <2> QED BY <1>3, <2>1, <2>2
<1>8. Searched /\ Others
  BY <1>2, <1>7, Untouched
<1>9. seq[p] + 1 \in Nat
  BY <1>1
<1> QED BY <1>4, <1>5, <1>6, <1>8, <1>9, DhtKeeps

\* So does one it announces again.
LEMMA AnnounceKeeps == ASSUME DhtSized, DhtInv, NEW p \in Publisher, H!Announce(p) PROVE DhtInv' /\ H!KeepsNewest
<1>1. store[p] \in Announcing /\ seq[p] \in Nat /\ p \in Node /\ "local" \in H!Source
  BY Stored
<1>2. H!Put(p, p, seq[p], "local") /\ UNCHANGED <<ip, secret, seq, stale, late, find, hFaults>>
  BY DEF H!Announce
<1>3. HeldOn(p, seq[p])
  BY <1>1, <1>2, PutIs
<1>4. Asked
  <2> DEFINE e == [H!Idle EXCEPT !.pc = "store", !.todo = Node \ {p},
                     !.stored = IF H!Refuses(p, p, seq[p], "local") THEN 0 ELSE 1]
  <2>1. e \in Announcing
    BY StartIs
  <2>2. Replicated(p, e)
    BY FS_EmptySet DEF Replicated, H!Idle
  <2>3. store' = [store EXCEPT ![p] = e]
    BY DEF H!Announce
  <2> HIDE DEF e
  <2> QED BY <2>1, <2>2, <2>3, AsksOn
<1>5. token' \in [Publisher -> [Node -> Nat]]
  BY DEF H!Announce, DhtInv, DhtTypes
<1>6. Searched /\ Others /\ Numbered(p, seq[p])
  BY <1>1, <1>2, <1>5, Untouched
<1> QED BY <1>1, <1>3, <1>4, <1>6, DhtKeeps

\* And one that another node stores.
LEMMA StoresKeeps ==
  ASSUME DhtSized, DhtInv, NEW p \in Publisher, NEW n \in Node, H!Stores(p, n)
  PROVE  DhtInv' /\ H!KeepsNewest
<1>1. /\ store[p] \in Announcing /\ Replicated(p, store[p]) /\ seq[p] \in Nat /\ ip[p] \in H!Source
  BY Stored
<1>2. /\ n \in store[p].todo /\ H!Put(n, p, seq[p], ip[p])
      /\ UNCHANGED <<ip, secret, token, seq, stale, late, find, hFaults>>
      /\ store' = [store EXCEPT ![p].todo = @ \ {n}, ![p].stored = @ + 1, ![p].acked = @ \cup {n}]
  BY DEF H!Stores
<1>3. HeldOn(p, seq[p])
  BY <1>1, <1>2, PutIs
<1>4. Asked
  <2> DEFINE e == [store[p] EXCEPT !.todo = @ \ {n}, !.stored = @ + 1, !.acked = @ \cup {n}]
  <2>1. e \in Announcing
    <3>1. store[p].stored + 1 \in Nat /\ store[p].acked \cup {n} \in SUBSET Node
      BY <1>1 DEF Announcing
    <3> QED BY <1>1, <3>1 DEF Announcing
  <2>2. Replicated(p, e)
    <3>1. n \notin store[p].acked /\ store[p].acked \subseteq Node
      BY <1>1, <1>2 DEF Replicated, Announcing
    <3>2. IsFiniteSet(store[p].acked)
      BY <3>1, FS_Subset DEF DhtSized
    <3>3. Cardinality(store[p].acked \cup {n}) = Cardinality(store[p].acked) + 1
      BY <3>1, <3>2, FS_AddElement
    <3>4. /\ e.acked = store[p].acked \cup {n} /\ e.stored = store[p].stored + 1
          /\ e.todo = store[p].todo \ {n} /\ e.retry = store[p].retry /\ store[p].stored \in Nat
      BY <1>1 DEF Announcing
    <3>5. Cardinality(store[p].acked) \in Nat /\ store[p].stored <= Cardinality(store[p].acked) + 1
      BY <1>1, <3>2, FS_CardinalityType DEF Replicated
    <3>6. e.stored <= Cardinality(e.acked) + 1
      BY <3>3, <3>4, <3>5
    <3>7. n # p /\ n \notin store[p].retry
      BY <1>1, <1>2 DEF Replicated
    <3> HIDE DEF e
    <3> QED BY <1>1, <1>2, <3>4, <3>6, <3>7 DEF Replicated
  <2>3. store' = [store EXCEPT ![p] = e]
    BY <1>2
  <2> HIDE DEF e
  <2> QED BY <2>1, <2>2, <2>3, AsksOn
<1>5. Searched /\ Others /\ Numbered(p, seq[p])
  BY <1>1, <1>2, Untouched
<1> QED BY <1>1, <1>3, <1>4, <1>5, DhtKeeps

\* One node has answered, or is not waited for any more.
LEMMA DoneKeeps ==
  ASSUME DhtSized, DhtInv, NEW p \in Publisher, NEW n \in Node, H!Done(p, n)
  PROVE  Asked
<1> DEFINE e == [store[p] EXCEPT !.todo = @ \ {n}]
<1>1. store[p] \in Announcing /\ Replicated(p, store[p])
  BY Stored
<1>2. e \in Announcing
  BY <1>1 DEF Announcing
<1>3. e.todo = store[p].todo \ {n} /\ e.retry = store[p].retry /\ e.acked = store[p].acked /\ e.stored = store[p].stored
  BY <1>1 DEF Announcing
<1>4. store' = [store EXCEPT ![p] = e]
  BY DEF H!Done
<1> HIDE DEF e
<1>5. Replicated(p, e)
  BY <1>1, <1>3 DEF Replicated
<1> QED BY <1>2, <1>4, <1>5, AsksOn

\* And one whose answer is a refusal, or is lost.
LEMMA AnsweredKeeps ==
  ASSUME DhtSized, DhtInv, NEW p \in Publisher, NEW n \in Node, H!RefusesIt(p, n) \/ H!AnswerLost(p, n)
  PROVE  DhtInv' /\ H!KeepsNewest
<1>1. /\ H!Put(n, p, seq[p], ip[p]) /\ H!Done(p, n)
      /\ UNCHANGED <<ip, secret, token, seq, stale, late, find>>
  BY DEF H!RefusesIt, H!AnswerLost
<1>2. seq[p] \in Nat /\ ip[p] \in H!Source
  BY Stored
<1>3. HeldOn(p, seq[p])
  BY <1>1, <1>2, PutIs
<1>4. Asked
  BY <1>1, DoneKeeps
<1>5. Searched /\ Others /\ Numbered(p, seq[p])
  BY <1>1, <1>2, Untouched
<1> QED BY <1>2, <1>3, <1>4, <1>5, DhtKeeps

\* A request that is lost changes no record, though it may come late.
LEMMA LostKeeps ==
  ASSUME DhtSized, DhtInv, NEW p \in Publisher, NEW n \in Node, H!RequestLost(p, n)
  PROVE  DhtInv' /\ H!KeepsNewest
<1>1. /\ H!Done(p, n) /\ late' = late \cup {H!Request(p, n)}
      /\ UNCHANGED <<ip, data, per, secret, token, seq, stale, find>>
  BY DEF H!RequestLost
<1>2. /\ seq[p] \in Nat /\ ip[p] \in Ip /\ token[p][n] \in Nat
  BY Stored
<1>3. HeldOn(p, seq[p])
  BY <1>1, <1>2, SameIs
<1>4. Numbered(p, seq[p])
  <2>1. H!Request(p, n) \in Sent /\ H!Request(p, n).p = p /\ H!Request(p, n).seq = seq[p]
    BY <1>2 DEF H!Request, Sent
  <2>2. \A q \in Publisher : seq[q] \in Nat
    BY Stored
  <2> QED BY <1>1, <1>2, <2>1, <2>2 DEF Numbered, DhtInv, DhtTypes, Published
<1>5. Asked
  BY <1>1, DoneKeeps
<1>6. Searched /\ Others
  BY <1>1, Untouched
<1> QED BY <1>2, <1>3, <1>4, <1>5, <1>6, DhtKeeps

\* Nor does one whose token is refused, which is tried again.
LEMMA BadTokenKeeps ==
  ASSUME DhtSized, DhtInv, NEW p \in Publisher, NEW n \in Node, H!BadToken(p, n)
  PROVE  DhtInv' /\ H!KeepsNewest
<1> DEFINE e == [store[p] EXCEPT !.todo = @ \ {n}, !.retry = @ \cup {n}]
<1>1. store[p] \in Announcing /\ Replicated(p, store[p]) /\ seq[p] \in Nat
  BY Stored
<1>2. /\ n \in store[p].todo /\ token' = [token EXCEPT ![p][n] = 0]
      /\ UNCHANGED <<ip, data, per, secret, seq, stale, late, find, hFaults>>
      /\ store' = [store EXCEPT ![p] = e]
  BY DEF H!BadToken
<1>3. e \in Announcing
  BY <1>1 DEF Announcing
<1>4. /\ e.todo = store[p].todo \ {n} /\ e.retry = store[p].retry \cup {n}
      /\ e.acked = store[p].acked /\ e.stored = store[p].stored
  BY <1>1 DEF Announcing
<1> HIDE DEF e
<1>5. Replicated(p, e)
  BY <1>1, <1>2, <1>4 DEF Replicated
<1>6. Asked
  BY <1>2, <1>3, <1>5, AsksOn
<1>7. token' \in [Publisher -> [Node -> Nat]]
  BY <1>2 DEF DhtInv, DhtTypes
<1>8. HeldOn(p, seq[p])
  BY <1>1, <1>2, SameIs
<1>9. Searched /\ Others /\ Numbered(p, seq[p])
  BY <1>1, <1>2, <1>7, Untouched
<1> QED BY <1>1, <1>6, <1>8, <1>9, DhtKeeps

\* Nor does beginning again, or ending an announcement.
LEMMA AgainKeeps ==
  ASSUME DhtSized, DhtInv, NEW p \in Publisher, H!Again(p) \/ H!Announced(p)
  PROVE  DhtInv' /\ H!KeepsNewest
<1>1. /\ store[p] \in Announcing /\ Replicated(p, store[p]) /\ seq[p] \in Nat
  BY Stored
<1>2. UNCHANGED <<ip, data, per, secret, seq, stale, late, find, hFaults>>
  BY DEF H!Again, H!Announced
<1>3. Asked
  <2>1. CASE H!Again(p)
    <3> DEFINE e == [store[p] EXCEPT !.attempt = 1, !.todo = store[p].retry, !.retry = {}]
    <3>1. e \in Announcing
      <4>1. store[p].retry \in SUBSET Node /\ {} \in SUBSET Node /\ 1 \in 0..1
        BY <1>1 DEF Announcing
      <4> QED BY <1>1, <4>1 DEF Announcing
    <3>2. /\ e.todo = store[p].retry /\ e.retry = {}
          /\ e.acked = store[p].acked /\ e.stored = store[p].stored
      BY <1>1 DEF Announcing
    <3>3. store' = [store EXCEPT ![p] = e]
      BY <2>1 DEF H!Again
    <3> HIDE DEF e
    <3>4. Replicated(p, e)
      BY <1>1, <3>2 DEF Replicated
    <3> QED BY <3>1, <3>3, <3>4, AsksOn
  <2>2. CASE H!Announced(p)
    <3>1. H!Idle \in Announcing
      BY DEF H!Idle, Announcing
    <3>2. Replicated(p, H!Idle)
      BY FS_EmptySet DEF Replicated, H!Idle
    <3>3. store' = [store EXCEPT ![p] = H!Idle]
      BY <2>2 DEF H!Announced
    <3> QED BY <3>1, <3>2, <3>3, AsksOn
  <2> QED BY <2>1, <2>2
<1>4. token' \in [Publisher -> [Node -> Nat]]
  <2>1. token \in [Publisher -> [Node -> Nat]] /\ secret \in [Node -> Nat]
    BY DEF DhtInv, DhtTypes
  <2>2. CASE H!Again(p)
    BY <2>1, <2>2 DEF H!Again
  <2>3. CASE H!Announced(p)
    BY <2>1, <2>3 DEF H!Announced
  <2> QED BY <2>2, <2>3
<1>5. HeldOn(p, seq[p])
  BY <1>1, <1>2, SameIs
<1>6. Searched /\ Others /\ Numbered(p, seq[p])
  BY <1>1, <1>2, <1>4, Untouched
<1> QED BY <1>1, <1>3, <1>5, <1>6, DhtKeeps

\* A request that arrives late puts back nothing older.
LEMMA LateKeeps == ASSUME DhtSized, DhtInv, NEW r \in late, H!Late(r) PROVE DhtInv' /\ H!KeepsNewest
<1>1. /\ r.p \in Publisher /\ r.n \in Node /\ r.seq \in Nat /\ r.src \in H!Source
      /\ r.seq <= seq[r.p]
  BY DEF DhtInv, DhtTypes, Published, Sent, H!Source
<1>2. late' = late \ {r} /\ UNCHANGED <<ip, secret, token, seq, stale, store, find, hFaults>>
  BY DEF H!Late
<1>3. HeldOn(r.p, r.seq)
  <2>1. CASE r.token = secret[r.n]
    <3>1. H!Put(r.n, r.p, r.seq, r.src)
      BY <2>1 DEF H!Late
    <3> QED BY <1>1, <3>1, PutIs
  <2>2. CASE r.token # secret[r.n]
    <3>1. UNCHANGED <<data, per>>
      BY <2>2 DEF H!Late
    <3> QED BY <1>1, <3>1, SameIs
  <2> QED BY <2>1, <2>2
<1>4. Numbered(r.p, r.seq)
  <2>1. \A q \in Publisher : seq[q] \in Nat
    BY Stored
  <2> QED BY <1>1, <1>2, <2>1 DEF Numbered, DhtInv, DhtTypes, Published
<1>5. Asked /\ Searched /\ Others
  BY <1>2, Untouched
<1> QED BY <1>1, <1>3, <1>4, <1>5, DhtKeeps

-----------------------------------------------------------------------------
\* The search.

\* What a search keeps is the newer of what it had and what it is told.
LEMMA BetterIs ==
  ASSUME NEW best \in [Publisher -> Nat], NEW d \in [Publisher -> Value]
  PROVE  /\ H!Better(best, d) \in [Publisher -> Nat]
         /\ \A p \in Publisher : H!Better(best, d)[p] >= best[p]
<1>1. \A p \in Publisher : d[p].seq \in Nat /\ best[p] \in Nat
  BY DEF Value
<1> QED BY <1>1 DEF H!Better

\* A search is nobody's announcement: no record comes by it.
LEMMA SearchKeeps ==
  ASSUME DhtSized, DhtInv, NEW n, H!Find \/ H!Found \/ (n \in Node /\ (H!Collect(n) \/ H!NoValues(n)))
  PROVE  DhtInv' /\ H!KeepsNewest
<1>1. find \in Finding /\ H!NoFind \in Finding /\ \A q \in Publisher : stale[q] \in Nat /\ find.best[q] \in Nat
  BY DEF DhtInv, DhtTypes, Finding, H!NoFind
<1>2. UNCHANGED <<ip, secret, token, seq, stale, store, late>>
  BY DEF H!Find, H!Collect, H!NoValues, H!Found
<1>3. HeldOn(n, 0)
  <2>1. CASE H!Find
    <3>1. Reader \in Node /\ H!Prune(Reader)
      BY <2>1 DEF H!Find
    <3> QED BY <3>1, PruneIs
  <2>2. CASE n \in Node /\ H!Collect(n)
    <3>1. H!Prune(n)
      BY <2>2 DEF H!Collect
    <3> QED BY <2>2, <3>1, PruneIs
  <2>3. CASE H!NoValues(n) \/ H!Found
    <3>1. UNCHANGED <<data, per>>
      BY <2>3 DEF H!NoValues, H!Found
    <3> QED BY <3>1, SameIs
  <2> QED BY <2>1, <2>2, <2>3
<1>4. Searched
  <2>1. CASE H!Find
    <3>1. /\ find.pc = "idle" /\ Reader \in Node
          /\ find' = [pc |-> "collect", todo |-> Node \ {Reader}, best |-> H!Better(H!NoFind.best, H!Pruned(Reader))]
      BY <2>1 DEF H!Find
    <3>2. H!Better(H!NoFind.best, H!Pruned(Reader)) \in [Publisher -> Nat]
      <4>1. H!NoFind.best \in [Publisher -> Nat] /\ H!Pruned(Reader) \in [Publisher -> Value]
        BY <3>1, PrunedIs DEF H!NoFind
      <4> QED BY <4>1, BetterIs
    <3> QED BY <3>1, <3>2 DEF Searched, Finding
  <2>2. CASE n \in Node /\ H!Collect(n)
    <3>1. find' = [find EXCEPT !.todo = @ \ {n}, !.best = H!Better(@, H!Pruned(n))]
      BY <2>2 DEF H!Collect
    <3>2. /\ H!Better(find.best, H!Pruned(n)) \in [Publisher -> Nat]
          /\ \A q \in Publisher : H!Better(find.best, H!Pruned(n))[q] >= find.best[q]
      <4>1. find.best \in [Publisher -> Nat] /\ H!Pruned(n) \in [Publisher -> Value]
        BY <1>1, <2>2, PrunedIs DEF Finding
      <4> QED BY <4>1, BetterIs
    <3>3. find' \in Finding /\ find'.best = H!Better(find.best, H!Pruned(n))
      BY <1>1, <3>1, <3>2 DEF Finding
    <3> QED BY <3>2, <3>3 DEF Searched
  <2>3. CASE H!NoValues(n)
    <3>1. find' = [find EXCEPT !.todo = @ \ {n}]
      BY <2>3 DEF H!NoValues
    <3>2. find' \in Finding /\ find'.best = find.best
      BY <1>1, <3>1 DEF Finding
    <3> QED BY <1>1, <3>2 DEF Searched
  <2>4. CASE H!Found
    <3> DEFINE b == [q \in Publisher |-> IF find.best[q] > stale[q] THEN find.best[q] ELSE 0]
    <3>1. find' = [find EXCEPT !.pc = "found", !.best = b]
      BY <2>4 DEF H!Found
    <3>2. b \in [Publisher -> Nat] /\ \A q \in Publisher : b[q] >= find.best[q] \/ find.best[q] <= stale[q]
      BY <1>1
    <3> HIDE DEF b
    <3>3. find' \in Finding /\ find'.best = b
      BY <1>1, <3>1, <3>2 DEF Finding
    <3> QED BY <3>2, <3>3 DEF Searched
  <2> QED BY <2>1, <2>2, <2>3, <2>4
<1>5. Numbered(n, 0)
  <2>1. n \in Publisher => 0 <= seq[n]
    BY Stored
  <2> QED BY <1>2, <2>1, Untouched
<1>6. Asked /\ Others
  BY <1>2, Untouched
<1> QED BY <1>3, <1>4, <1>5, <1>6, DhtKeeps

-----------------------------------------------------------------------------
\* Time, restarts, moves.

\* A record that goes stale and a publisher that moves change nothing that is stored.
LEMMA StaleKeeps == ASSUME DhtSized, DhtInv, NEW p \in Publisher, H!GoesStale(p) \/ H!Moves(p) PROVE DhtInv' /\ H!KeepsNewest
<1>1. /\ UNCHANGED <<data, per, secret, seq, store, late, find>> /\ seq[p] \in Nat
  BY Stored DEF H!GoesStale, H!Moves
<1>2. HeldOn(p, seq[p])
  BY <1>1, SameIs
<1>3. Asked /\ Searched /\ Numbered(p, seq[p])
  BY <1>1, Untouched
<1>4. Others
  <2>1. CASE H!GoesStale(p)
    BY <2>1 DEF H!GoesStale, Others, DhtInv, DhtTypes
  <2>2. CASE H!Moves(p)
    <3>1. stale' = stale /\ secret' = secret /\ token' = [token EXCEPT ![p] = [n \in Node |-> 0]]
      BY <2>2 DEF H!Moves
    <3>2. PICK a \in Ip : ip' = [ip EXCEPT ![p] = a]
      BY <2>2 DEF H!Moves
    <3>3. [n \in Node |-> 0] \in [Node -> Nat]
      OBVIOUS
    <3>4. token' \in [Publisher -> [Node -> Nat]]
      BY <3>1, <3>3 DEF DhtInv, DhtTypes
    <3> QED BY <3>1, <3>2, <3>4 DEF Others, DhtInv, DhtTypes
  <2> QED BY <2>1, <2>2
<1> QED BY <1>1, <1>2, <1>3, <1>4, DhtKeeps

\* A restart forgets a node's records, and that is no older record.
LEMMA RestartKeeps == ASSUME DhtSized, DhtInv, NEW n \in Node, H!Restart(n) PROVE DhtInv' /\ H!KeepsNewest
<1>1. /\ secret' = [secret EXCEPT ![n] = @ + 1]
      /\ data' = [data EXCEPT ![n] = [p \in Publisher |-> H!None]]
      /\ per' = [per EXCEPT ![n] = [s \in H!Source |-> 0]]
      /\ token' = [p \in Publisher |-> IF p = n THEN [m \in Node |-> 0] ELSE token[p]]
      /\ store' = [p \in Publisher |-> IF p = n THEN H!Idle ELSE store[p]]
      /\ find' = IF n = Reader THEN H!NoFind ELSE find
      /\ UNCHANGED <<ip, seq, stale, late>>
  BY DEF H!Restart
<1>2. HeldOn(n, 0)
  BY <1>1, ForgetsIs
<1>3. Asked
  <2>1. H!Idle \in Announcing /\ \A p : Replicated(p, H!Idle)
    BY FS_EmptySet DEF H!Idle, Announcing, Replicated
  <2>2. store \in [Publisher -> Announcing] /\ \A p \in Publisher : Replicated(p, store[p])
    BY Stored DEF DhtInv, DhtTypes
  <2>3. store' \in [Publisher -> Announcing]
    BY <1>1, <2>1, <2>2
  <2>4. \A p \in Publisher : Replicated(p, store'[p])
    BY <1>1, <2>1, <2>2
  <2> QED BY <2>3, <2>4 DEF Asked, Replicas, Replicated
<1>4. secret \in [Node -> Nat] /\ secret' \in [Node -> Nat] /\ secret'[n] # secret[n]
  BY <1>1 DEF DhtInv, DhtTypes
<1>5. Searched
  <2>1. H!NoFind \in Finding /\ find \in Finding /\ \A q \in Publisher : find.best[q] \in Nat
    BY DEF H!NoFind, Finding, DhtInv, DhtTypes
  <2> QED BY <1>1, <1>4, <2>1 DEF Searched
<1>6. Others
  <2>1. token \in [Publisher -> [Node -> Nat]] /\ [m \in Node |-> 0] \in [Node -> Nat]
    BY DEF DhtInv, DhtTypes
  <2>2. token' \in [Publisher -> [Node -> Nat]]
    BY <1>1, <2>1
  <2> QED BY <1>1, <1>4, <2>2 DEF Others, DhtInv, DhtTypes
<1>7. Numbered(n, 0)
  <2>1. n \in Publisher => 0 <= seq[n]
    BY Stored
  <2> QED BY <1>1, <2>1, Untouched
<1> QED BY <1>2, <1>3, <1>5, <1>6, <1>7, DhtKeeps

\* At the start nothing is stored and nothing is under way.
LEMMA DhtInitIs == ASSUME DhtSized, H!Init PROVE DhtInv
<1>1. /\ H!None \in Value /\ H!Idle \in Announcing /\ H!NoFind \in Finding /\ {} \in SUBSET Sent
      /\ H!None.seq = 0 /\ \A p : Replicated(p, H!Idle)
  BY FS_EmptySet DEF H!None, Value, H!Source, H!Idle, Announcing, H!NoFind, Finding, Replicated
<1>2. /\ ip = Home /\ late = {} /\ find = H!NoFind
      /\ data = [n \in Node |-> [p \in Publisher |-> H!None]] /\ per = [n \in Node |-> [s \in H!Source |-> 0]]
      /\ secret = [n \in Node |-> 1] /\ token = [p \in Publisher |-> [n \in Node |-> 0]]
      /\ seq = [p \in Publisher |-> 0] /\ stale = [p \in Publisher |-> 0]
      /\ store = [p \in Publisher |-> H!Idle]
  BY DEF H!Init
<1>3. DhtTypes
  <2>1. [p \in Publisher |-> H!None] \in [Publisher -> Value]
    BY <1>1
  <2>2. data \in [Node -> [Publisher -> Value]]
    BY <1>2, <2>1
  <2>3. per \in [Node -> [H!Source -> Int]]
    BY <1>2
  <2>4. token \in [Publisher -> [Node -> Nat]] /\ secret \in [Node -> Nat]
    BY <1>2
  <2>5. store \in [Publisher -> Announcing] /\ seq \in [Publisher -> Nat] /\ stale \in [Publisher -> Nat]
    BY <1>1, <1>2
  <2> QED BY <1>1, <1>2, <2>2, <2>3, <2>4, <2>5 DEF DhtTypes, DhtSized, Finding
<1>4. \A n \in Node, p \in Publisher : data[n][p] = H!None
  BY <1>2
<1>5. \A n \in Node : Holders(data[n]) = {} /\ \A x : From(data[n], x) = {}
  BY <1>1, <1>4 DEF From, Holders
<1>6. Cardinality({}) = 0 /\ MaxPerKey \in Nat /\ MaxPerSource \in Nat
  BY FS_EmptySet DEF DhtSized
<1>7. \A n \in Node : H!Counted(data[n]) = [s \in H!Source |-> 0]
  <2> SUFFICES ASSUME NEW n \in Node PROVE H!Counted(data[n]) = [s \in H!Source |-> 0]
    OBVIOUS
  <2>1. H!Counted(data[n]) = [s \in H!Source |-> Cardinality(From(data[n], s))]
    BY CountInDht DEF H!Counted, From
  <2> QED BY <1>5, <1>6, <2>1
<1>8. H!CountsExact
  BY <1>2, <1>7 DEF H!CountsExact
<1>9. H!LimitsHold
  <2> SUFFICES ASSUME NEW n \in Node
               PROVE  /\ Cardinality(Holders(data[n])) <= MaxPerKey
                      /\ \A s \in H!Source : H!Counted(data[n])[s] <= MaxPerSource
    BY CountInDht DEF H!LimitsHold, Holders
  <2>1. \A s \in H!Source : H!Counted(data[n])[s] = 0
    BY <1>7
  <2>2. Cardinality(Holders(data[n])) = 0
    BY <1>5, <1>6
  <2> QED BY <1>6, <2>1, <2>2
<1>10. Published /\ Replicas
  BY <1>1, <1>2, <1>4 DEF Published, Replicas, DhtSized
<1> QED BY <1>3, <1>8, <1>9, <1>10 DEF DhtInv

\* Every step keeps the invariant and replaces no record by an older one.
LEMMA DhtStep == ASSUME DhtSized, DhtInv, [H!Next]_(H!vars) PROVE DhtInv' /\ H!KeepsNewest
<1>1. ASSUME NEW p \in Publisher, H!Publish(p) PROVE DhtInv' /\ H!KeepsNewest
  BY <1>1, PublishKeeps
<1>2. ASSUME NEW p \in Publisher, H!Announce(p) PROVE DhtInv' /\ H!KeepsNewest
  BY <1>2, AnnounceKeeps
<1>3. ASSUME NEW p \in Publisher, NEW n \in Node, H!Stores(p, n) PROVE DhtInv' /\ H!KeepsNewest
  BY <1>3, StoresKeeps
<1>4. ASSUME NEW p \in Publisher, NEW n \in Node, H!RefusesIt(p, n) \/ H!AnswerLost(p, n) PROVE DhtInv' /\ H!KeepsNewest
  BY <1>4, AnsweredKeeps
<1>5. ASSUME NEW p \in Publisher, NEW n \in Node, H!BadToken(p, n) PROVE DhtInv' /\ H!KeepsNewest
  BY <1>5, BadTokenKeeps
<1>6. ASSUME NEW p \in Publisher, NEW n \in Node, H!RequestLost(p, n) PROVE DhtInv' /\ H!KeepsNewest
  BY <1>6, LostKeeps
<1>7. ASSUME NEW p \in Publisher, H!Again(p) \/ H!Announced(p) PROVE DhtInv' /\ H!KeepsNewest
  BY <1>7, AgainKeeps
<1>8. ASSUME NEW p \in Publisher, H!GoesStale(p) \/ H!Moves(p) PROVE DhtInv' /\ H!KeepsNewest
  BY <1>8, StaleKeeps
<1>9. ASSUME NEW r \in late, H!Late(r) PROVE DhtInv' /\ H!KeepsNewest
  BY <1>9, LateKeeps
<1>10. ASSUME NEW n, H!Find \/ H!Found \/ (n \in Node /\ (H!Collect(n) \/ H!NoValues(n))) PROVE DhtInv' /\ H!KeepsNewest
  BY <1>10, SearchKeeps
<1>11. ASSUME NEW n \in Node, H!Restart(n) PROVE DhtInv' /\ H!KeepsNewest
  BY <1>11, RestartKeeps
<1>12. ASSUME UNCHANGED H!vars PROVE DhtInv' /\ H!KeepsNewest
  <2>1. UNCHANGED <<ip, data, per, secret, token, seq, stale, store, late, find>>
    BY <1>12 DEF H!vars
  <2>2. HeldOn(Reader, 0)
    BY <2>1, SameIs
  <2>3. Reader \in Publisher => 0 <= seq[Reader]
    BY Stored
  <2>4. Asked /\ Searched /\ Numbered(Reader, 0) /\ Others
    BY <2>1, <2>3, Untouched
  <2> QED BY <2>2, <2>4, DhtKeeps
<1>13. CASE \E p \in Publisher : \/ H!Publish(p) \/ H!Announce(p) \/ H!Storing(p) \/ H!GoesStale(p) \/ H!Moves(p)
                                 \/ \E n \in Node : H!RequestLost(p, n) \/ H!AnswerLost(p, n)
  BY <1>1, <1>2, <1>3, <1>4, <1>5, <1>6, <1>7, <1>8, <1>13 DEF H!Storing
<1>14. CASE \E n \in Node : H!Collect(n) \/ H!NoValues(n) \/ H!Restart(n)
  BY <1>10, <1>11, <1>14
<1>15. CASE H!Find \/ H!Found
  BY <1>10, <1>15
<1> QED BY <1>9, <1>12, <1>13, <1>14, <1>15 DEF H!Next

-----------------------------------------------------------------------------
\* The invariant says what the run checks.
LEMMA DhtFollows == ASSUME DhtSized, DhtInv PROVE H!TypeOK /\ H!DhtSound
<1>1. \A n \in Node, p \in Publisher : data[n][p].seq \in 0..MaxSeq[p]
  <2> SUFFICES ASSUME NEW n \in Node, NEW p \in Publisher PROVE data[n][p].seq \in 0..MaxSeq[p]
    OBVIOUS
  <2>1. /\ data[n][p].seq \in Nat /\ seq[p] \in Nat /\ MaxSeq[p] \in Nat
        /\ data[n][p].seq <= seq[p] /\ seq[p] <= MaxSeq[p]
    BY DEF DhtInv, DhtTypes, Published, Value, DhtSized
  <2> QED BY <2>1
<1>2. \A p \in Publisher : store[p].stored \in 0..Cardinality(Node)
  <2> SUFFICES ASSUME NEW p \in Publisher PROVE store[p].stored \in 0..Cardinality(Node)
    OBVIOUS
  <2>1. /\ store[p].stored \in Nat /\ store[p].acked \subseteq Node \ {p} /\ p \in Node
        /\ store[p].stored <= Cardinality(store[p].acked) + 1
    BY Stored DEF Announcing, Replicated
  <2>2. IsFiniteSet(Node) /\ IsFiniteSet(Node \ {p}) /\ Cardinality(Node \ {p}) = Cardinality(Node) - 1
    BY <2>1, FS_RemoveElement DEF DhtSized
  <2>3. IsFiniteSet(store[p].acked) /\ Cardinality(store[p].acked) <= Cardinality(Node \ {p})
    BY <2>1, <2>2, FS_Subset
  <2>4. Cardinality(store[p].acked) \in Nat /\ Cardinality(Node) \in Nat
    BY <2>2, <2>3, FS_CardinalityType
  <2> QED BY <2>1, <2>2, <2>3, <2>4
<1>3. H!CountTrue
  BY Stored, CountInDht DEF H!CountTrue, Replicated
<1> QED BY <1>1, <1>2, <1>3, CountInDht DEF H!TypeOK, H!DhtSound, DhtInv

\* No node of the DHT ever holds more records of the key, or of one source, than its limits; its
\* counters are those of what it holds, whatever was pruned, replaced or lost with the node; and no
\* announcement counts a replica twice.
THEOREM DhtLimits == ASSUME DhtSized PROVE H!Spec => [](H!TypeOK /\ H!DhtSound)
<1>1. H!Init => DhtInv
  BY DhtInitIs
<1>2. DhtInv /\ [H!Next]_(H!vars) => DhtInv'
  BY DhtStep
<1>3. DhtInv => H!TypeOK /\ H!DhtSound
  BY DhtFollows
<1> QED BY <1>1, <1>2, <1>3, PTL DEF H!Spec

\* A record that a node holds, or a search has met, is replaced by no older one, whatever arrives
\* late and in whatever order: it goes by growing stale, or with the node.
THEOREM DhtNeverOlder == ASSUME DhtSized PROVE H!Spec => H!NeverOlder
<1>1. H!Init => DhtInv
  BY DhtInitIs
<1>2. DhtInv /\ [H!Next]_(H!vars) => DhtInv'
  BY DhtStep
<1>3. DhtInv /\ [H!Next]_(H!vars) => [H!KeepsNewest]_(H!vars)
  BY DhtStep
<1> QED BY <1>1, <1>2, <1>3, PTL DEF H!Spec, H!NeverOlder

-----------------------------------------------------------------------------
(* The gateway's directory and dashboard (Directory).                      *)

CONSTANTS MaxPerNetwork, MaxRuns, MaxDone
VARIABLES phase, run, dClock, old, done, listed, records, shown, reports, dLate, dFaults

D == INSTANCE Directory WITH clock <- dClock, late <- dLate, faults <- dFaults

\* Directory counts sets as everybody does.
LEMMA CountInDirectory == \A S : D!Cardinality(S) = Cardinality(S)
  BY DEF D!Cardinality, Cardinality

DirectorySized == /\ IsFiniteSet(Peer) /\ MaxPerNetwork \in Nat /\ MaxRuns \in Nat

\* A peer that does not stand still is in one of its runs.
PeersOK ==
  /\ phase \in [Peer -> {"stopped", "loading", "up"}] /\ run \in [Peer -> 0 .. MaxRuns]
  /\ dClock \in [Peer -> Nat] /\ old \in [Peer -> Nat]
  /\ done \in [Peer -> [D!Run -> Nat]] /\ listed \in [Peer -> {"unknown", "yes", "no"}]
  /\ \A p \in Peer : phase[p] # "stopped" => run[p] \in D!Run
\* What is sent says no more of a run than it has completed.
Says(m) == /\ m.kind \in {"record", "report"} /\ m.p \in Peer /\ m.run \in D!Run /\ m.ts \in Nat
           /\ m.phase \in {"loading", "up", "leaving"}
           /\ m.done \in Nat /\ m.done <= done[m.p][m.run]
PhaseShown == {"stopped", "loading", "up", "leaving"}
GatewayOK ==
  /\ records \in [Peer -> Nat] /\ shown \in [Peer -> [ts : Nat, phase : PhaseShown]]
  /\ reports \in [Peer -> [D!Run -> [seq : Nat, done : Nat]]]
DirectoryInv == PeersOK /\ GatewayOK /\ (\A m \in dLate : Says(m)) /\ D!CountedOnce /\ D!LimitsHold

-----------------------------------------------------------------------------
\* What the gateway may do with a message, and with time.

\* Who is listed, by the times of what is held.
Listed(f) == {p \in Peer : f[p] # 0}
At(x) == [p \in Peer |-> x[p].ts]

\* The limit counts the peers listed, in the records and on the page.
LEMMA LimitsAre ==
  ASSUME GatewayOK
  PROVE  D!LimitsHold <=> /\ Cardinality(Listed(records)) <= MaxPerNetwork
                          /\ Cardinality(Listed(At(shown))) <= MaxPerNetwork
<1>1. Listed(At(shown)) = {p \in Peer : shown[p].ts # 0}
  BY DEF Listed, At
<1>2. Listed(records) = {p \in Peer : records[p] # 0}
  BY DEF Listed
<1> QED BY <1>1, <1>2, CountInDirectory DEF D!LimitsHold, D!Kept, D!Shown

\* Fewer are listed when some are dropped.
LEMMA Dropping ==
  ASSUME DirectorySized, NEW f, NEW g, \A p \in Peer : g[p] = f[p] \/ g[p] = 0
  PROVE  Cardinality(Listed(g)) <= Cardinality(Listed(f))
<1>1. Listed(g) \in SUBSET Listed(f) /\ Listed(f) \in SUBSET Peer
  BY DEF Listed
<1>2. IsFiniteSet(Listed(f))
  BY <1>1, FS_Subset DEF DirectorySized
<1> QED BY <1>1, <1>2, FS_Subset

\* One more is listed where there is room, or none.
LEMMA Adding ==
  ASSUME DirectorySized, NEW f, NEW g, NEW q \in Peer, \A p \in Peer \ {q} : g[p] = f[p],
         Cardinality(Listed(f)) <= MaxPerNetwork,
         f[q] = 0 => Cardinality(Listed(f)) < MaxPerNetwork
  PROVE  Cardinality(Listed(g)) <= MaxPerNetwork
<1>1. Listed(g) \in SUBSET (Listed(f) \cup {q}) /\ Listed(f) \in SUBSET Peer
  BY DEF Listed
<1>2. IsFiniteSet(Listed(f)) /\ Cardinality(Listed(f)) \in Nat
  BY <1>1, FS_Subset, FS_CardinalityType DEF DirectorySized
<1>3. /\ IsFiniteSet(Listed(f) \cup {q})
      /\ Cardinality(Listed(f) \cup {q}) = IF q \in Listed(f) THEN Cardinality(Listed(f))
                                           ELSE Cardinality(Listed(f)) + 1
  BY <1>2, FS_AddElement
<1>4. q \notin Listed(f) => f[q] = 0
  BY DEF Listed
<1>5. Cardinality(Listed(g)) <= Cardinality(Listed(f) \cup {q}) /\ Cardinality(Listed(g)) \in Nat
  BY <1>1, <1>3, FS_Subset, FS_CardinalityType
<1> QED BY <1>2, <1>3, <1>4, <1>5 DEF DirectorySized

\* The dashboard's word of a peer.
LEMMA RememberIs ==
  ASSUME DirectorySized, GatewayOK, D!LimitsHold, NEW m, Says(m), D!Remember(m)
  PROVE  /\ shown' \in [Peer -> [ts : Nat, phase : PhaseShown]]
         /\ \A p \in Peer : shown'[p].ts >= shown[p].ts
         /\ Cardinality(Listed(At(shown'))) <= MaxPerNetwork
<1>1. m.p \in Peer /\ m.ts \in Nat /\ m.phase \in PhaseShown
  BY DEF Says, PhaseShown
<1>2. \A p \in Peer : shown[p].ts \in Nat
  BY DEF GatewayOK
<1>3. Cardinality(Listed(At(shown))) <= MaxPerNetwork
  BY LimitsAre
<1>4. CASE UNCHANGED shown
  BY <1>2, <1>3, <1>4 DEF GatewayOK
<1>5. CASE ~(UNCHANGED shown)
  <2> DEFINE v == [ts |-> m.ts, phase |-> m.phase]
  <2>1. /\ shown' = [shown EXCEPT ![m.p] = v] /\ ~(m.ts < shown[m.p].ts) /\ ~D!DashboardFull(m)
    BY <1>5 DEF D!Remember
  <2>2. v \in [ts : Nat, phase : PhaseShown] /\ v.ts = m.ts
    BY <1>1
  <2> HIDE DEF v
  <2>3. /\ shown' \in [Peer -> [ts : Nat, phase : PhaseShown]]
        /\ shown'[m.p] = v /\ \A p \in Peer \ {m.p} : shown'[p] = shown[p]
    BY <1>1, <2>1, <2>2 DEF GatewayOK
  <2>4. \A p \in Peer : shown'[p].ts >= shown[p].ts
    BY <1>1, <1>2, <2>1, <2>2, <2>3
  <2>5. \A p \in Peer \ {m.p} : At(shown')[p] = At(shown)[p]
    BY <2>3 DEF At
  <2>6. At(shown)[m.p] = 0 => Cardinality(Listed(At(shown))) < MaxPerNetwork
    <3>1. Listed(At(shown)) = {p \in Peer : shown[p].ts # 0} /\ At(shown)[m.p] = shown[m.p].ts
      BY <1>1 DEF Listed, At
    <3>2. At(shown)[m.p] = 0 => ~(Cardinality(Listed(At(shown))) >= MaxPerNetwork)
      BY <2>1, <3>1, CountInDirectory DEF D!DashboardFull, D!Shown
    <3>3. Cardinality(Listed(At(shown))) \in Nat
      <4>1. Listed(At(shown)) \in SUBSET Peer
        BY DEF Listed
      <4> QED BY <4>1, FS_Subset, FS_CardinalityType DEF DirectorySized
    <3> QED BY <3>2, <3>3 DEF DirectorySized
  <2>7. Cardinality(Listed(At(shown'))) <= MaxPerNetwork
    BY <1>1, <1>3, <2>5, <2>6, Adding
  <2> QED BY <2>3, <2>4, <2>7
<1> QED BY <1>4, <1>5

\* The gateway's tables after a step, with what the peers have completed.
Stands == /\ GatewayOK' /\ D!CountedOnce' /\ D!LimitsHold'
Ahead == \A p \in Peer : records'[p] >= records[p] /\ shown'[p].ts >= shown[p].ts

\* A message that arrives.
LEMMA TakenIs ==
  ASSUME DirectorySized, GatewayOK, D!CountedOnce, D!LimitsHold, NEW m, Says(m), D!Taken(m), UNCHANGED done
  PROVE  Stands /\ Ahead
<1>1. /\ m.p \in Peer /\ m.ts \in Nat /\ m.run \in D!Run /\ m.done \in Nat /\ m.done <= done[m.p][m.run]
  BY DEF Says
<1>2. \A p \in Peer : records[p] \in Nat /\ shown[p].ts \in Nat
  BY DEF GatewayOK
<1>3. CASE UNCHANGED D!gateway
  <2>1. UNCHANGED <<records, shown, reports>>
    BY <1>3 DEF D!gateway
  <2>2. Listed(records)' = Listed(records) /\ Listed(At(shown))' = Listed(At(shown))
    BY <2>1 DEF Listed, At
  <2>3. GatewayOK' /\ D!CountedOnce'
    BY <2>1 DEF GatewayOK, D!CountedOnce
  <2>4. D!LimitsHold'
    BY <2>1 DEF D!LimitsHold, D!Kept, D!Shown
  <2> QED BY <1>2, <2>1, <2>3, <2>4 DEF Stands, Ahead
<1>4. CASE ~(UNCHANGED D!gateway) /\ m.kind = "record"
  <2>1. /\ ~D!Refused(m) /\ ~(records[m.p] > m.ts)
        /\ records' = [records EXCEPT ![m.p] = m.ts] /\ D!Remember(m) /\ reports' = reports
    BY <1>4 DEF D!Taken, D!Announced
  <2>2. /\ shown' \in [Peer -> [ts : Nat, phase : PhaseShown]]
        /\ \A p \in Peer : shown'[p].ts >= shown[p].ts
        /\ Cardinality(Listed(At(shown'))) <= MaxPerNetwork
    BY <2>1, RememberIs
  <2>3. /\ records' \in [Peer -> Nat] /\ records'[m.p] = m.ts
        /\ \A p \in Peer \ {m.p} : records'[p] = records[p]
    BY <1>1, <2>1 DEF GatewayOK
  <2>4. Ahead
    BY <1>1, <1>2, <2>1, <2>2, <2>3 DEF Ahead
  <2>5. Cardinality(Listed(records)) <= MaxPerNetwork
    BY LimitsAre
  <2>6. records[m.p] = 0 => Cardinality(Listed(records)) < MaxPerNetwork
    <3>1. records[m.p] = 0 => ~(Cardinality(Listed(records)) >= MaxPerNetwork)
      BY <2>1, CountInDirectory DEF D!Refused, D!Kept, Listed
    <3>2. Cardinality(Listed(records)) \in Nat
      <4>1. Listed(records) \in SUBSET Peer
        BY DEF Listed
      <4> QED BY <4>1, FS_Subset, FS_CardinalityType DEF DirectorySized
    <3> QED BY <3>1, <3>2 DEF DirectorySized
  <2>7. Cardinality(Listed(records')) <= MaxPerNetwork
    BY <1>1, <2>3, <2>5, <2>6, Adding
  <2>8. GatewayOK' /\ D!CountedOnce'
    BY <2>1, <2>2, <2>3 DEF GatewayOK, D!CountedOnce
  <2>9. D!LimitsHold'
    <3>1. Listed(records)' = Listed(records') /\ Listed(At(shown))' = Listed(At(shown'))
      BY DEF Listed, At
    <3>2. D!Kept' = Cardinality(Listed(records')) /\ D!Shown' = Cardinality(Listed(At(shown')))
      <4>1. Listed(At(shown')) = {p \in Peer : shown'[p].ts # 0}
        BY DEF Listed, At
      <4> QED BY <4>1, CountInDirectory DEF D!Kept, D!Shown, Listed
    <3> QED BY <2>2, <2>7, <3>2 DEF D!LimitsHold
  <2> QED BY <2>4, <2>8, <2>9 DEF Stands
<1>5. CASE ~(UNCHANGED D!gateway) /\ m.kind # "record"
  <2> DEFINE v == [seq |-> m.ts, done |-> m.done]
  <2>1. /\ reports' = [reports EXCEPT ![m.p][m.run] = v] /\ D!Remember(m) /\ records' = records
    BY <1>5 DEF D!Taken, D!Reported
  <2>2. /\ shown' \in [Peer -> [ts : Nat, phase : PhaseShown]]
        /\ \A p \in Peer : shown'[p].ts >= shown[p].ts
        /\ Cardinality(Listed(At(shown'))) <= MaxPerNetwork
    BY <2>1, RememberIs
  <2>3. v \in [seq : Nat, done : Nat] /\ v.done = m.done
    BY <1>1
  <2> HIDE DEF v
  <2>4. /\ reports' \in [Peer -> [D!Run -> [seq : Nat, done : Nat]]]
        /\ \A p \in Peer, r \in D!Run :
             reports'[p][r] = IF p = m.p /\ r = m.run THEN v ELSE reports[p][r]
    BY <1>1, <2>1, <2>3 DEF GatewayOK
  <2>5. GatewayOK'
    BY <2>1, <2>2, <2>4 DEF GatewayOK
  <2>6. D!CountedOnce'
    <3> SUFFICES ASSUME NEW p \in Peer, NEW r \in D!Run PROVE reports'[p][r].done <= done[p][r]
      BY DEF D!CountedOnce
    <3>1. CASE p = m.p /\ r = m.run
      BY <1>1, <2>3, <2>4, <3>1
    <3>2. CASE ~(p = m.p /\ r = m.run)
      BY <2>4, <3>2 DEF D!CountedOnce
    <3> QED BY <3>1, <3>2
  <2>7. D!LimitsHold'
    <3>1. D!Kept' = D!Kept /\ D!Shown' = Cardinality(Listed(At(shown')))
      <4>1. Listed(At(shown')) = {p \in Peer : shown'[p].ts # 0}
        BY DEF Listed, At
      <4> QED BY <2>1, <4>1, CountInDirectory DEF D!Kept, D!Shown
    <3> QED BY <2>2, <3>1 DEF D!LimitsHold
  <2>8. Ahead
    BY <1>2, <2>1, <2>2 DEF Ahead
  <2> QED BY <2>5, <2>6, <2>7, <2>8 DEF Stands
<1> QED BY <1>3, <1>4, <1>5

-----------------------------------------------------------------------------
\* The steps.

\* A run of a peer only completes more.
Grows == \A p \in Peer, r \in D!Run : done'[p][r] >= done[p][r]

\* What a message says of a peer stays so as the peer goes on.
LEMMA SaysOn ==
  ASSUME PeersOK, PeersOK', Grows, NEW m, Says(m)
  PROVE  Says(m)'
<1>1. m.p \in Peer /\ m.run \in D!Run /\ m.done \in Nat /\ m.done <= done[m.p][m.run]
  BY DEF Says
<1>2. done[m.p][m.run] \in Nat /\ done'[m.p][m.run] \in Nat /\ done'[m.p][m.run] >= done[m.p][m.run]
  BY <1>1 DEF PeersOK, Grows
<1> QED BY <1>1, <1>2 DEF Says

\* Steps in which the gateway has no part.
LEMMA PeersOnly ==
  ASSUME DirectoryInv, PeersOK', Grows, UNCHANGED D!gateway,
         \A m \in dLate' : m \in dLate \/ Says(m)
  PROVE  DirectoryInv' /\ D!KeepsNewer
<1>1. UNCHANGED <<records, shown, reports>>
  BY DEF D!gateway
<1>2. \A p \in Peer : records[p] \in Nat /\ shown[p].ts \in Nat
  BY DEF DirectoryInv, GatewayOK
<1>3. D!KeepsNewer
  BY <1>1, <1>2 DEF D!KeepsNewer
<1>4. GatewayOK' /\ D!LimitsHold'
  BY <1>1 DEF DirectoryInv, GatewayOK, D!LimitsHold, D!Kept, D!Shown
<1>5. D!CountedOnce'
  <2> SUFFICES ASSUME NEW p \in Peer, NEW r \in D!Run PROVE reports'[p][r].done <= done'[p][r]
    BY DEF D!CountedOnce
  <2>1. reports[p][r].done <= done[p][r] /\ reports[p][r].done \in Nat
    BY DEF DirectoryInv, GatewayOK, D!CountedOnce
  <2>2. done[p][r] \in Nat /\ done'[p][r] \in Nat /\ done'[p][r] >= done[p][r]
    BY DEF DirectoryInv, PeersOK, Grows
  <2> QED BY <1>1, <2>1, <2>2
<1>6. \A m \in dLate' : Says(m)'
  <2> SUFFICES ASSUME NEW m \in dLate' PROVE Says(m)'
    OBVIOUS
  <2>1. Says(m)
    BY DEF DirectoryInv
  <2> QED BY <2>1, SaysOn DEF DirectoryInv
<1> QED BY <1>3, <1>4, <1>5, <1>6 DEF DirectoryInv

\* A message that is sent, and arrives, or is lost, or will.
LEMMA Sending ==
  ASSUME DirectorySized, DirectoryInv, PeersOK', UNCHANGED done, NEW m, Says(m), D!Sent(m) \/ D!NotSent(m)
  PROVE  DirectoryInv' /\ D!KeepsNewer
<1>1. Grows
  BY DEF DirectoryInv, PeersOK, Grows
<1>2. CASE D!Sent(m)
  <2>1. dLate' = dLate /\ D!Taken(m)
    BY <1>2 DEF D!Sent
  <2>2. Stands /\ Ahead
    BY <2>1, TakenIs DEF DirectoryInv
  <2>3. \A x \in dLate' : Says(x)'
    <3> SUFFICES ASSUME NEW x \in dLate' PROVE Says(x)'
      OBVIOUS
    <3> QED BY <1>1, <2>1, SaysOn DEF DirectoryInv
  <2> QED BY <2>2, <2>3 DEF DirectoryInv, Stands, Ahead, D!KeepsNewer
<1>3. CASE D!NotSent(m)
  <2>1. UNCHANGED D!gateway /\ \A x \in dLate' : x \in dLate \/ Says(x)
    BY <1>3 DEF D!NotSent
  <2> QED BY <1>1, <2>1, PeersOnly
<1> QED BY <1>2, <1>3

\* A message says of its peer what is so.
LEMMA MessageIs ==
  ASSUME PeersOK, NEW p \in Peer, phase[p] # "stopped", NEW kind \in {"record", "report"},
         NEW at \in {"loading", "up", "leaving"}
  PROVE  Says(D!Message(p, kind, at))
<1> DEFINE n == IF kind = "report" THEN done[p][run[p]] ELSE 0
           m == [kind |-> kind, p |-> p, ts |-> dClock[p] + 1, phase |-> at, run |-> run[p], done |-> n]
<1>1. run[p] \in D!Run /\ dClock[p] \in Nat /\ done[p][run[p]] \in Nat
  BY DEF PeersOK
<1>2. n \in Nat /\ n <= done[p][run[p]]
  BY <1>1
<1>3. D!Message(p, kind, at) = m
  BY DEF D!Message
<1> HIDE DEF n
<1>4. /\ m.kind = kind /\ m.p = p /\ m.ts = dClock[p] + 1 /\ m.phase = at /\ m.run = run[p] /\ m.done = n
  OBVIOUS
<1> HIDE DEF m
<1> QED BY <1>1, <1>2, <1>3, <1>4 DEF Says

\* At the start nobody is listed.
LEMMA DirectoryInitIs == ASSUME DirectorySized, D!Init PROVE DirectoryInv
<1>1. PeersOK
  BY DEF D!Init, PeersOK, DirectorySized
<1>2. /\ records = [p \in Peer |-> 0] /\ shown = [p \in Peer |-> D!NoPeer]
      /\ reports = [p \in Peer |-> [r \in D!Run |-> D!NoReport]] /\ dLate = {}
  BY DEF D!Init
<1>3. D!NoPeer.ts = 0 /\ D!NoPeer \in [ts : Nat, phase : PhaseShown]
      /\ D!NoReport.done = 0 /\ D!NoReport \in [seq : Nat, done : Nat]
  BY DEF D!NoPeer, D!NoReport, PhaseShown
<1>4. GatewayOK
  BY <1>2, <1>3 DEF GatewayOK
<1>5. D!CountedOnce
  BY <1>1, <1>2, <1>3 DEF D!CountedOnce, PeersOK
<1>6. D!LimitsHold
  <2>1. Listed(records) = {} /\ Listed(At(shown)) = {}
    BY <1>2, <1>3 DEF Listed, At
  <2> QED BY <1>4, <2>1, LimitsAre, FS_EmptySet DEF DirectorySized
<1> QED BY <1>1, <1>2, <1>4, <1>5, <1>6 DEF DirectoryInv

\* Time and restarts only take away.
LEMMA Forgets ==
  ASSUME DirectorySized, DirectoryInv, GatewayOK',
         UNCHANGED <<phase, run, dClock, old, done, listed, dLate>>,
         \A p \in Peer : /\ records'[p] = records[p] \/ records'[p] = 0
                         /\ shown'[p] = shown[p] \/ shown'[p].ts = 0
                         /\ \A r \in D!Run : reports'[p][r] = reports[p][r] \/ reports'[p][r].done = 0
  PROVE  DirectoryInv' /\ D!KeepsNewer
<1>1. PeersOK' /\ \A m \in dLate' : Says(m)'
  BY DEF DirectoryInv, PeersOK, Says
<1>2. \A p \in Peer : records[p] \in Nat /\ shown[p].ts \in Nat
  BY DEF DirectoryInv, GatewayOK
<1>3. D!KeepsNewer
  BY <1>2 DEF D!KeepsNewer
<1>4. D!CountedOnce'
  <2> SUFFICES ASSUME NEW p \in Peer, NEW r \in D!Run PROVE reports'[p][r].done <= done[p][r]
    BY DEF D!CountedOnce
  <2>1. reports[p][r].done <= done[p][r] /\ done[p][r] \in Nat
    BY DEF DirectoryInv, PeersOK, D!CountedOnce
  <2> QED BY <2>1
<1>5. D!LimitsHold'
  <2>1. Cardinality(Listed(records')) <= Cardinality(Listed(records))
    BY Dropping
  <2>2. Cardinality(Listed(At(shown'))) <= Cardinality(Listed(At(shown)))
    <3>1. \A p \in Peer : At(shown')[p] = At(shown)[p] \/ At(shown')[p] = 0
      BY DEF At
    <3> QED BY <3>1, Dropping
  <2>3. /\ Cardinality(Listed(records)) <= MaxPerNetwork
        /\ Cardinality(Listed(At(shown))) <= MaxPerNetwork
    BY LimitsAre DEF DirectoryInv
  <2>4. /\ Cardinality(Listed(records)) \in Nat /\ Cardinality(Listed(At(shown))) \in Nat
        /\ Cardinality(Listed(records')) \in Nat /\ Cardinality(Listed(At(shown'))) \in Nat
    <3>1. \A f : Listed(f) \in SUBSET Peer
      BY DEF Listed
    <3>2. \A f : IsFiniteSet(Listed(f))
      BY <3>1, FS_Subset DEF DirectorySized
    <3> QED BY <3>2, FS_CardinalityType
  <2>5. D!Kept' = Cardinality(Listed(records')) /\ D!Shown' = Cardinality(Listed(At(shown')))
    <3>1. Listed(At(shown')) = {p \in Peer : shown'[p].ts # 0}
      BY DEF Listed, At
    <3> QED BY <3>1, CountInDirectory DEF D!Kept, D!Shown, Listed
  <2> QED BY <2>1, <2>2, <2>3, <2>4, <2>5 DEF D!LimitsHold, DirectorySized
<1> QED BY <1>1, <1>3, <1>4, <1>5 DEF DirectoryInv

\* A restart, a record that expires and a message that arrives keep the invariant and the newer record.
LEMMA GatewaySteps ==
  ASSUME DirectorySized, DirectoryInv,
         D!Restart \/ (\E p \in Peer : D!Expire(p)) \/ (\E m \in dLate : D!Arrives(m))
  PROVE  DirectoryInv' /\ D!KeepsNewer
<1>1. D!NoPeer.ts = 0 /\ D!NoPeer \in [ts : Nat, phase : PhaseShown]
      /\ D!NoReport.done = 0 /\ D!NoReport \in [seq : Nat, done : Nat]
  BY DEF D!NoPeer, D!NoReport, PhaseShown
<1>2. CASE D!Restart
  <2>1. /\ records' = [p \in Peer |-> 0] /\ shown' = [p \in Peer |-> D!NoPeer]
        /\ reports' = [p \in Peer |-> [r \in D!Run |-> D!NoReport]]
        /\ UNCHANGED <<phase, run, dClock, old, done, listed, dLate>>
    BY <1>2 DEF D!Restart
  <2>2. GatewayOK'
    BY <1>1, <2>1 DEF GatewayOK
  <2> QED BY <1>1, <2>1, <2>2, Forgets
<1>3. ASSUME NEW p \in Peer, D!Expire(p) PROVE DirectoryInv' /\ D!KeepsNewer
  <2> DEFINE kept == [r \in D!Run |-> IF reports[p][r].seq <= old[p] THEN D!NoReport ELSE reports[p][r]]
             word == IF shown[p].ts <= old[p] THEN D!NoPeer ELSE shown[p]
             rec == IF records[p] <= old[p] THEN 0 ELSE records[p]
  <2>1. /\ records' = [records EXCEPT ![p] = rec] /\ shown' = [shown EXCEPT ![p] = word]
        /\ reports' = [reports EXCEPT ![p] = kept]
        /\ UNCHANGED <<phase, run, dClock, old, done, listed, dLate>>
    BY <1>3 DEF D!Expire
  <2>2. GatewayOK
    BY DEF DirectoryInv
  <2>3. rec \in Nat /\ word \in [ts : Nat, phase : PhaseShown] /\ kept \in [D!Run -> [seq : Nat, done : Nat]]
    BY <1>1, <2>2 DEF GatewayOK
  <2>4. /\ rec = records[p] \/ rec = 0
        /\ word = shown[p] \/ word.ts = 0
        /\ \A r \in D!Run : kept[r] = reports[p][r] \/ kept[r].done = 0
    BY <1>1
  <2> HIDE DEF kept, word, rec
  <2>5. GatewayOK'
    BY <2>1, <2>2, <2>3 DEF GatewayOK
  <2>6. \A x \in Peer : /\ records'[x] = IF x = p THEN rec ELSE records[x]
                        /\ shown'[x] = IF x = p THEN word ELSE shown[x]
                        /\ reports'[x] = IF x = p THEN kept ELSE reports[x]
    BY <2>1, <2>2 DEF GatewayOK
  <2>7. \A x \in Peer : /\ records'[x] = records[x] \/ records'[x] = 0
                        /\ shown'[x] = shown[x] \/ shown'[x].ts = 0
                        /\ \A r \in D!Run : reports'[x][r] = reports[x][r] \/ reports'[x][r].done = 0
    BY <2>4, <2>6
  <2> QED BY <2>1, <2>5, <2>7, Forgets
<1>4. ASSUME NEW m \in dLate, D!Arrives(m) PROVE DirectoryInv' /\ D!KeepsNewer
  <2>1. /\ dLate' = dLate \ {m} /\ D!Taken(m)
        /\ UNCHANGED <<phase, run, dClock, old, done, listed>>
    BY <1>4 DEF D!Arrives
  <2>2. Says(m)
    BY DEF DirectoryInv
  <2>3. Stands /\ Ahead
    BY <2>1, <2>2, TakenIs DEF DirectoryInv
  <2>4. PeersOK' /\ \A x \in dLate' : Says(x)'
    BY <2>1 DEF DirectoryInv, PeersOK, Says
  <2> QED BY <2>3, <2>4 DEF DirectoryInv, Stands, Ahead, D!KeepsNewer
<1> QED BY <1>2, <1>3, <1>4

\* So does what happens to one peer alone.
LEMMA PeerSteps ==
  ASSUME DirectorySized, DirectoryInv, NEW p \in Peer,
         D!Boot(p) \/ D!Serve(p) \/ D!Complete(p) \/ D!Crash(p) \/ D!Ages(p)
  PROVE  DirectoryInv' /\ D!KeepsNewer
<1>1. PeersOK
  BY DEF DirectoryInv
<1>2. UNCHANGED D!gateway /\ dLate' = dLate
  BY DEF D!Boot, D!Serve, D!Complete, D!Crash, D!Ages
<1>3. PeersOK' /\ Grows
  <2>1. CASE D!Boot(p)
    <3>1. /\ run[p] < MaxRuns /\ phase' = [phase EXCEPT ![p] = "loading"]
          /\ run' = [run EXCEPT ![p] = run[p] + 1] /\ listed' = [listed EXCEPT ![p] = "unknown"]
          /\ UNCHANGED <<dClock, old, done>>
      BY <2>1 DEF D!Boot
    <3>2. run[p] + 1 \in D!Run /\ run[p] + 1 \in 0 .. MaxRuns
      BY <1>1, <3>1 DEF PeersOK, D!Run, DirectorySized
    <3> QED BY <1>1, <3>1, <3>2 DEF PeersOK, Grows
  <2>2. CASE D!Serve(p)
    <3>1. /\ phase[p] = "loading" /\ phase' = [phase EXCEPT ![p] = "up"]
          /\ UNCHANGED <<run, dClock, old, done, listed>>
      BY <2>2 DEF D!Serve
    <3> QED BY <1>1, <3>1 DEF PeersOK, Grows
  <2>3. CASE D!Complete(p)
    <3>1. /\ phase[p] = "up" /\ done' = [done EXCEPT ![p][run[p]] = done[p][run[p]] + 1]
          /\ UNCHANGED <<phase, run, dClock, old, listed>>
      BY <2>3 DEF D!Complete
    <3>2. run[p] \in D!Run /\ done[p][run[p]] \in Nat
      BY <1>1, <3>1 DEF PeersOK
    <3>3. /\ done' \in [Peer -> [D!Run -> Nat]]
          /\ \A q \in Peer, r \in D!Run :
               done'[q][r] = IF q = p /\ r = run[p] THEN done[q][r] + 1 ELSE done[q][r]
      BY <1>1, <3>1, <3>2 DEF PeersOK
    <3>4. \A q \in Peer, r \in D!Run : done[q][r] \in Nat
      BY <1>1 DEF PeersOK
    <3> QED BY <1>1, <3>1, <3>3, <3>4 DEF PeersOK, Grows
  <2>4. CASE D!Crash(p)
    <3>1. phase' = [phase EXCEPT ![p] = "stopped"] /\ UNCHANGED <<run, dClock, old, done, listed>>
      BY <2>4 DEF D!Crash
    <3> QED BY <1>1, <3>1 DEF PeersOK, Grows
  <2>5. CASE D!Ages(p)
    <3>1. old' = [old EXCEPT ![p] = dClock[p]] /\ UNCHANGED <<phase, run, dClock, done, listed>>
      BY <2>5 DEF D!Ages
    <3> QED BY <1>1, <3>1 DEF PeersOK, Grows
  <2> QED BY <2>1, <2>2, <2>3, <2>4, <2>5
<1> QED BY <1>2, <1>3, PeersOnly

\* And so does a message sent, which may arrive at once, late or never.
LEMMA Messages ==
  ASSUME DirectorySized, DirectoryInv, NEW p \in Peer, D!Announce(p) \/ D!Report(p) \/ D!Stop(p)
  PROVE  DirectoryInv' /\ D!KeepsNewer
<1>1. PeersOK /\ dClock[p] \in Nat
  BY DEF DirectoryInv, PeersOK
<1>2. CASE D!Announce(p)
  <2> DEFINE m == D!Message(p, "record", "up")
  <2>1. phase[p] = "up"
    BY <1>2 DEF D!Announce, D!Due
  <2>2. Says(m)
    BY <1>1, <2>1, MessageIs
  <2> HIDE DEF m
  <2>3. /\ (D!Sent(m) \/ D!NotSent(m)) /\ UNCHANGED <<phase, run, old, done>>
        /\ dClock' = [dClock EXCEPT ![p] = dClock[p] + 1] \/ dClock' = dClock
        /\ listed' \in {[listed EXCEPT ![p] = "yes"], [listed EXCEPT ![p] = "no"]}
    BY <1>2 DEF D!Announce, D!Tick, m
  <2>4. PeersOK' /\ UNCHANGED done
    BY <1>1, <1>2, <2>3 DEF PeersOK, D!Announce
  <2> QED BY <2>2, <2>3, <2>4, Sending
<1>3. CASE D!Report(p)
  <2> DEFINE m == D!Message(p, "report", phase[p])
  <2>1. phase[p] \in {"loading", "up"}
    BY <1>3 DEF D!Report
  <2>2. Says(m)
    BY <1>1, <2>1, MessageIs
  <2> HIDE DEF m
  <2>3. /\ D!Sent(m) \/ D!NotSent(m)
        /\ dClock' = [dClock EXCEPT ![p] = dClock[p] + 1] /\ UNCHANGED <<phase, run, old, done, listed>>
    BY <1>3 DEF D!Report, D!Tick, m
  <2>4. PeersOK'
    BY <1>1, <2>3 DEF PeersOK
  <2> QED BY <2>2, <2>3, <2>4, Sending
<1>4. CASE D!Stop(p)
  <2> DEFINE m == D!Message(p, "report", "leaving")
  <2>1. phase[p] \in {"loading", "up"}
    BY <1>4 DEF D!Stop
  <2>2. Says(m)
    BY <1>1, <2>1, MessageIs
  <2> HIDE DEF m
  <2>3. /\ D!Sent(m) \/ D!NotSent(m)
        /\ dClock' = [dClock EXCEPT ![p] = dClock[p] + 1] /\ phase' = [phase EXCEPT ![p] = "stopped"]
        /\ UNCHANGED <<run, old, done, listed>>
    BY <1>4 DEF D!Stop, D!Tick, m
  <2>4. PeersOK'
    BY <1>1, <2>3 DEF PeersOK
  <2> QED BY <2>2, <2>3, <2>4, Sending
<1> QED BY <1>2, <1>3, <1>4

\* Every step keeps the invariant, and no record gives way to an older one.
LEMMA DirectoryStep ==
  ASSUME DirectorySized, DirectoryInv, [D!Next]_(D!vars)
  PROVE  DirectoryInv' /\ [D!KeepsNewer]_(D!vars)
<1>1. CASE UNCHANGED D!vars
  <2>1. UNCHANGED <<phase, run, dClock, old, done, listed, dLate>> /\ UNCHANGED D!gateway
    BY <1>1 DEF D!vars, D!gateway
  <2>2. PeersOK' /\ Grows
    BY <2>1 DEF DirectoryInv, PeersOK, Grows
  <2> QED BY <2>1, <2>2, PeersOnly
<1>2. CASE D!Next
  BY <1>2, PeerSteps, Messages, GatewaySteps DEF D!Next
<1> QED BY <1>1, <1>2

\* The dashboard counts no request twice, and neither table exceeds its limit, whatever expires, is
\* lost, arrives late, or is sent again after a restart of the gateway (directory.py, dashboard.py).
THEOREM DirectoryCounts == ASSUME DirectorySized PROVE D!Spec => [](D!TypeOK /\ D!DirectorySound)
<1>1. D!Init => DirectoryInv
  BY DirectoryInitIs
<1>2. DirectoryInv /\ [D!Next]_(D!vars) => DirectoryInv'
  BY DirectoryStep
<1>3. DirectoryInv => D!TypeOK /\ D!DirectorySound
  BY DEF DirectoryInv, PeersOK, GatewayOK, D!TypeOK, D!DirectorySound
<1> QED BY <1>1, <1>2, <1>3, PTL DEF D!Spec

\* Neither the directory nor the dashboard goes back to an older word of a peer.
THEOREM DirectoryNeverBack == ASSUME DirectorySized PROVE D!Spec => D!NeverBack
<1>1. D!Init => DirectoryInv
  BY DirectoryInitIs
<1>2. DirectoryInv /\ [D!Next]_(D!vars) => DirectoryInv'
  BY DirectoryStep
<1>3. DirectoryInv /\ [D!Next]_(D!vars) => [D!KeepsNewer]_(D!vars)
  BY DirectoryStep
<1> QED BY <1>1, <1>2, <1>3, PTL DEF D!Spec, D!NeverBack

-----------------------------------------------------------------------------
(* A bucket of the routing table (DhtTable).                               *)

CONSTANTS K, MaxTasks, MaxAddr
VARIABLES bucket, cache, tasks, ping, addr, tFaults

T == INSTANCE DhtTable WITH faults <- tFaults

TableSized == K \in Nat \ {0} /\ MaxTasks \in Nat /\ MaxAddr \in Nat \ {0}

Contacts == [peer : Peer, addr : 1 .. MaxAddr, fails : 0 .. 1]
Tasks == [kind : {"evict", "verify"}, peer : Peer, addr : 1 .. MaxAddr, held : BOOLEAN]

-----------------------------------------------------------------------------
\* Sequences of contacts.

\* Removing a peer from a bucket leaves the others, each once.
LEMMA WithoutIs ==
  ASSUME NEW s \in Seq(Contacts), T!Distinct(s), NEW p
  PROVE  /\ T!Without(s, p) \in Seq(Contacts) /\ T!Distinct(T!Without(s, p))
         /\ T!Peers(T!Without(s, p)) = T!Peers(s) \ {p}
         /\ Len(T!Without(s, p)) = IF p \in T!Peers(s) THEN Len(s) - 1 ELSE Len(s)
<1>1. CASE p \notin T!Peers(s)
  BY <1>1 DEF T!Without
<1>2. CASE p \in T!Peers(s)
  <2> DEFINE i == CHOOSE j \in DOMAIN s : s[j].peer = p
             at(j) == IF j < i THEN j ELSE j + 1
             t == [j \in 1 .. Len(s) - 1 |-> s[at(j)]]
  <2>1. i \in DOMAIN s /\ s[i].peer = p
    BY <1>2 DEF T!Peers
  <2>2. T!Without(s, p) = t
    BY <1>2 DEF T!Without
  <2> HIDE DEF i
  <2>3. Len(s) \in Nat /\ Len(s) - 1 \in Nat /\ DOMAIN s = 1 .. Len(s) /\ i \in 1 .. Len(s)
        /\ \A j \in 1 .. Len(s) : s[j] \in Contacts
    BY <2>1
  <2>4. \A j \in 1 .. Len(s) - 1 : at(j) \in 1 .. Len(s) /\ at(j) # i
    BY <2>3
  <2>5. \A j, k \in 1 .. Len(s) - 1 : at(j) = at(k) => j = k
    BY <2>3
  <2>6. \A j \in 1 .. Len(s) : j # i => \E k \in 1 .. Len(s) - 1 : at(k) = j
    <3> SUFFICES ASSUME NEW j \in 1 .. Len(s), j # i PROVE \E k \in 1 .. Len(s) - 1 : at(k) = j
      OBVIOUS
    <3>1. CASE j < i
      <4>1. j \in 1 .. Len(s) - 1 /\ at(j) = j
        BY <2>3, <3>1
      <4> QED BY <4>1
    <3>2. CASE ~(j < i)
      <4>1. j - 1 \in 1 .. Len(s) - 1 /\ at(j - 1) = j
        BY <2>3, <3>2
      <4> QED BY <4>1
    <3> QED BY <3>1, <3>2
  <2> HIDE DEF at
  <2>7. t \in Seq(Contacts) /\ Len(t) = Len(s) - 1 /\ DOMAIN t = 1 .. Len(s) - 1
        /\ \A j \in 1 .. Len(s) - 1 : t[j] = s[at(j)]
    BY <2>3, <2>4
  <2> HIDE DEF t
  <2>8. \A j, k \in DOMAIN s : s[j].peer = s[k].peer => j = k
    BY DEF T!Distinct
  <2>9. T!Distinct(t)
    BY <2>3, <2>4, <2>5, <2>7, <2>8 DEF T!Distinct
  <2>10. T!Peers(t) = T!Peers(s) \ {p}
    <3>1. \A x \in T!Peers(t) : x \in T!Peers(s) \ {p}
      BY <2>1, <2>3, <2>4, <2>7, <2>8 DEF T!Peers
    <3>2. \A x \in T!Peers(s) \ {p} : x \in T!Peers(t)
      <4> SUFFICES ASSUME NEW j \in DOMAIN s, s[j].peer # p PROVE s[j].peer \in T!Peers(t)
        BY DEF T!Peers
      <4>1. j \in 1 .. Len(s) /\ j # i
        BY <2>1, <2>3
      <4>2. PICK k \in 1 .. Len(s) - 1 : at(k) = j
        BY <2>6, <4>1
      <4>3. k \in DOMAIN t /\ t[k] = s[j]
        BY <2>7, <4>2
      <4> QED BY <4>3 DEF T!Peers
    <3> QED BY <3>1, <3>2
  <2> QED BY <1>2, <2>2, <2>7, <2>9, <2>10
<1> QED BY <1>1, <1>2

\* Adding a peer that is not there adds that one, once.
LEMMA AppendIs ==
  ASSUME NEW s \in Seq(Contacts), T!Distinct(s), NEW c \in Contacts, c.peer \notin T!Peers(s)
  PROVE  /\ Append(s, c) \in Seq(Contacts) /\ T!Distinct(Append(s, c))
         /\ T!Peers(Append(s, c)) = T!Peers(s) \cup {c.peer}
         /\ Len(Append(s, c)) = Len(s) + 1
<1> DEFINE t == Append(s, c)
<1>1. /\ t \in Seq(Contacts) /\ Len(t) = Len(s) + 1 /\ Len(s) \in Nat
      /\ DOMAIN s = 1 .. Len(s) /\ DOMAIN t = 1 .. Len(s) + 1
      /\ t[Len(s) + 1] = c /\ \A j \in 1 .. Len(s) : t[j] = s[j]
  OBVIOUS
<1> HIDE DEF t
<1>2. \A j \in DOMAIN t : j \in DOMAIN s \/ j = Len(s) + 1
  BY <1>1
<1>3. T!Distinct(t)
  BY <1>1, <1>2 DEF T!Distinct, T!Peers
<1>4. T!Peers(t) = T!Peers(s) \cup {c.peer}
  BY <1>1, <1>2 DEF T!Peers
<1> QED BY <1>1, <1>3, <1>4 DEF t

\* A part of a bucket has its peers once.
LEMMA PartIs ==
  ASSUME NEW s \in Seq(Contacts), T!Distinct(s), NEW m \in 1 .. Len(s) + 1, NEW n \in Nat, n <= Len(s), m <= n + 1
  PROVE  /\ SubSeq(s, m, n) \in Seq(Contacts) /\ T!Distinct(SubSeq(s, m, n))
         /\ Len(SubSeq(s, m, n)) = n + 1 - m
         /\ T!Peers(SubSeq(s, m, n)) = {s[j].peer : j \in m .. n}
<1> DEFINE t == SubSeq(s, m, n)
<1>1. /\ Len(s) \in Nat /\ m \in Nat /\ DOMAIN s = 1 .. Len(s)
      /\ t \in Seq(Contacts) /\ Len(t) = n + 1 - m
      /\ \A j \in 1 .. n + 1 - m : t[j] = s[j + m - 1]
  <2>1. Len(s) \in Nat /\ m \in Nat /\ DOMAIN s = 1 .. Len(s) /\ n \in m - 1 .. Len(s)
    OBVIOUS
  <2>2. /\ t \in Seq(Contacts) /\ Len(t) = IF m <= n THEN n - m + 1 ELSE 0
        /\ \A j \in 1 .. n - m + 1 : t[j] = s[m + j - 1]
    BY <2>1, SubSeqProperties
  <2> HIDE DEF t
  <2> QED BY <2>1, <2>2
<1> HIDE DEF t
<1>2. \A j \in 1 .. n + 1 - m : j + m - 1 \in 1 .. Len(s) /\ s[j + m - 1] \in Contacts
  BY <1>1
<1>3. n + 1 - m \in Nat
  BY <1>1
<1>4. t \in Seq(Contacts) /\ Len(t) = n + 1 - m /\ DOMAIN t = 1 .. n + 1 - m
  BY <1>1, <1>3
<1>5. T!Distinct(t)
  <2> SUFFICES ASSUME NEW i \in DOMAIN t, NEW j \in DOMAIN t, t[i].peer = t[j].peer PROVE i = j
    BY DEF T!Distinct
  <2>1. i \in 1 .. n + 1 - m /\ j \in 1 .. n + 1 - m /\ t[i] = s[i + m - 1] /\ t[j] = s[j + m - 1]
    BY <1>1, <1>4
  <2>2. i + m - 1 \in DOMAIN s /\ j + m - 1 \in DOMAIN s
    BY <1>1, <1>2, <2>1
  <2>3. i + m - 1 = j + m - 1
    BY <2>1, <2>2 DEF T!Distinct
  <2> QED BY <1>1, <2>1, <2>3
<1>6. T!Peers(t) = {s[j].peer : j \in m .. n}
  <2>1. \A j \in m .. n : j - m + 1 \in 1 .. n + 1 - m /\ (j - m + 1) + m - 1 = j
    BY <1>1
  <2>2. \A j \in 1 .. n + 1 - m : j + m - 1 \in m .. n
    BY <1>1
  <2>3. \A j \in m .. n : s[j].peer \in {t[k].peer : k \in 1 .. n + 1 - m}
    <3> SUFFICES ASSUME NEW j \in m .. n PROVE \E k \in 1 .. n + 1 - m : s[j].peer = t[k].peer
      OBVIOUS
    <3>1. j - m + 1 \in 1 .. n + 1 - m /\ t[j - m + 1] = s[j]
      BY <1>1, <2>1
    <3> QED BY <3>1
  <2>4. \A k \in 1 .. n + 1 - m : t[k].peer \in {s[j].peer : j \in m .. n}
    BY <1>1, <2>2
  <2> QED BY <1>4, <2>3, <2>4 DEF T!Peers
<1> QED BY <1>4, <1>5, <1>6 DEF t

\* The last of a bucket are some of its peers, each once.
LEMMA LastNIs ==
  ASSUME NEW s \in Seq(Contacts), T!Distinct(s), NEW n \in Nat
  PROVE  /\ T!LastN(s, n) \in Seq(Contacts) /\ T!Distinct(T!LastN(s, n)) /\ Len(T!LastN(s, n)) <= n
         /\ T!Peers(T!LastN(s, n)) \subseteq T!Peers(s)
<1>1. CASE Len(s) <= n
  BY <1>1 DEF T!LastN
<1>2. CASE ~(Len(s) <= n)
  <2>1. Len(s) - n + 1 \in 1 .. Len(s) + 1 /\ Len(s) \in Nat /\ Len(s) + 1 - (Len(s) - n + 1) = n
        /\ Len(s) - n + 1 .. Len(s) \subseteq DOMAIN s
    BY <1>2
  <2>2. T!LastN(s, n) = SubSeq(s, Len(s) - n + 1, Len(s))
    BY <1>2 DEF T!LastN
  <2>3. {s[j].peer : j \in Len(s) - n + 1 .. Len(s)} \subseteq T!Peers(s)
    BY <2>1 DEF T!Peers
  <2> DEFINE m == Len(s) - n + 1
  <2>4. m \in 1 .. Len(s) + 1 /\ Len(s) \in Nat /\ Len(s) <= Len(s) /\ m <= Len(s) + 1 /\ Len(s) + 1 - m = n
    BY <2>1
  <2> HIDE DEF m
  <2>5. /\ SubSeq(s, m, Len(s)) \in Seq(Contacts) /\ T!Distinct(SubSeq(s, m, Len(s)))
        /\ Len(SubSeq(s, m, Len(s))) = Len(s) + 1 - m
        /\ T!Peers(SubSeq(s, m, Len(s))) = {s[j].peer : j \in m .. Len(s)}
    BY <2>4, PartIs
  <2> QED BY <2>2, <2>3, <2>4, <2>5 DEF m
<1> QED BY <1>1, <1>2

-----------------------------------------------------------------------------
\* The inductive invariant.

Bucket(b, c, t) ==
  /\ b \in Seq(Contacts) /\ c \in Seq(Contacts) /\ t \in Seq(Tasks) /\ Len(t) <= MaxTasks
  /\ Len(b) <= K /\ Len(c) <= K /\ T!Distinct(b) /\ T!Distinct(c)
  /\ T!Peers(b) \cap T!Peers(c) = {}
  /\ c # <<>> => Len(b) = K
RoutingInv == /\ Bucket(bucket, cache, tasks) /\ addr \in [Peer -> 0 .. MaxAddr]
              /\ ping # T!NoTask => ping \in Tasks

\* A queue of tasks stays within its limit.
LEMMA QueuedIs ==
  ASSUME TableSized, tasks \in Seq(Tasks), NEW task \in Tasks
  PROVE  T!Queued(task) \in Seq(Tasks) /\ Len(T!Queued(task)) <= MaxTasks
<1> DEFINE t == Append(tasks, task)
<1>1. t \in Seq(Tasks) /\ Len(t) \in Nat /\ MaxTasks \in Nat
  BY DEF TableSized
<1>2. T!Queued(task) = IF Len(t) <= MaxTasks THEN t ELSE SubSeq(t, Len(t) - MaxTasks + 1, Len(t))
  BY DEF T!Queued, T!LastN
<1> HIDE DEF t
<1>3. CASE Len(t) <= MaxTasks
  BY <1>1, <1>2, <1>3
<1>4. CASE ~(Len(t) <= MaxTasks)
  <2> DEFINE m == Len(t) - MaxTasks + 1
  <2>1. m \in 1 .. Len(t) + 1 /\ m \in Int /\ Len(t) \in Int /\ Len(t) - m + 1 = MaxTasks
        /\ \A i \in m .. Len(t) : t[i] \in Tasks
    BY <1>1, <1>4
  <2>2. T!Queued(task) = SubSeq(t, m, Len(t))
    BY <1>2, <1>4
  <2> HIDE DEF m
  <2>3. /\ SubSeq(t, m, Len(t)) \in Seq(Tasks)
        /\ Len(SubSeq(t, m, Len(t))) = IF m <= Len(t) THEN Len(t) - m + 1 ELSE 0
    BY <2>1, SubSeqProperties
  <2> QED BY <1>1, <2>1, <2>2, <2>3
<1> QED BY <1>3, <1>4

\* What add and remove leave.
LEMMA AddIs ==
  ASSUME TableSized, Bucket(bucket, cache, tasks), NEW p \in Peer, NEW a \in 1 .. MaxAddr, T!Add(p, a)
  PROVE  Bucket(bucket', cache', tasks')
<1> DEFINE c == T!Contact(p, a)
<1>1. c \in Contacts /\ c.peer = p
  BY DEF T!Contact, Contacts
<1> HIDE DEF c
<1>2. /\ bucket \in Seq(Contacts) /\ cache \in Seq(Contacts) /\ tasks \in Seq(Tasks) /\ Len(tasks) <= MaxTasks
      /\ Len(bucket) <= K /\ Len(cache) <= K /\ T!Distinct(bucket) /\ T!Distinct(cache)
      /\ T!Peers(bucket) \cap T!Peers(cache) = {} /\ (cache # <<>> => Len(bucket) = K)
      /\ K \in Nat \ {0} /\ Len(bucket) \in Nat
  BY DEF Bucket, TableSized
<1>3. CASE p \in T!Peers(bucket)
  <2> DEFINE b == T!Without(bucket, p)
  <2>1. /\ bucket' = Append(b, c) /\ cache' = cache
        /\ tasks' = [i \in DOMAIN tasks |-> T!Follows(tasks[i], p, a)]
    BY <1>3 DEF T!Add, c
  <2>2. b \in Seq(Contacts) /\ T!Distinct(b) /\ T!Peers(b) = T!Peers(bucket) \ {p} /\ Len(b) = Len(bucket) - 1
    BY <1>2, <1>3, WithoutIs
  <2> HIDE DEF b
  <2>3. /\ Append(b, c) \in Seq(Contacts) /\ T!Distinct(Append(b, c))
        /\ T!Peers(Append(b, c)) = T!Peers(b) \cup {p} /\ Len(Append(b, c)) = Len(b) + 1
    BY <1>1, <2>2, AppendIs
  <2>4. tasks' \in Seq(Tasks) /\ Len(tasks') = Len(tasks)
    <3>1. \A x \in Tasks : T!Follows(x, p, a) \in Tasks
      BY DEF T!Follows, Tasks
    <3>2. Len(tasks) \in Nat /\ DOMAIN tasks = 1 .. Len(tasks) /\ \A i \in 1 .. Len(tasks) : tasks[i] \in Tasks
      BY <1>2
    <3> DEFINE f(i) == T!Follows(tasks[i], p, a)
    <3>3. \A i \in 1 .. Len(tasks) : f(i) \in Tasks
      BY <3>1, <3>2
    <3>4. tasks' = [i \in 1 .. Len(tasks) |-> f(i)]
      BY <2>1, <3>2
    <3> HIDE DEF f
    <3> QED BY <3>2, <3>3, <3>4
  <2>5. T!Peers(bucket') = T!Peers(bucket) /\ Len(bucket') = Len(bucket)
    BY <1>2, <1>3, <2>1, <2>2, <2>3
  <2> QED BY <1>2, <2>1, <2>3, <2>4, <2>5 DEF Bucket
<1>4. CASE p \notin T!Peers(bucket) /\ ~T!Full
  <2>1. bucket' = Append(bucket, c) /\ cache' = cache /\ tasks' = tasks /\ Len(bucket) # K
    BY <1>4 DEF T!Add, T!Full, c
  <2>2. /\ bucket' \in Seq(Contacts) /\ T!Distinct(bucket') /\ Len(bucket') = Len(bucket) + 1
    BY <1>1, <1>2, <1>4, <2>1, AppendIs
  <2>3. cache = <<>> /\ T!Peers(cache') = {}
    BY <1>2, <2>1 DEF T!Peers
  <2> QED BY <1>2, <2>1, <2>2, <2>3 DEF Bucket
<1>5. CASE p \notin T!Peers(bucket) /\ T!Full
  <2> DEFINE d == T!Without(cache, p)
             e == Append(d, c)
             task == [kind |-> "evict", peer |-> bucket[1].peer, addr |-> bucket[1].addr, held |-> TRUE]
  <2>1. bucket' = bucket /\ cache' = T!LastN(e, K) /\ tasks' = T!Queued(task) /\ Len(bucket) = K
    BY <1>5 DEF T!Add, T!Full, c
  <2>2. d \in Seq(Contacts) /\ T!Distinct(d) /\ T!Peers(d) = T!Peers(cache) \ {p}
    BY <1>2, WithoutIs
  <2> HIDE DEF d
  <2>3. e \in Seq(Contacts) /\ T!Distinct(e) /\ T!Peers(e) = T!Peers(d) \cup {p}
    BY <1>1, <2>2, AppendIs
  <2> HIDE DEF e
  <2>4. /\ cache' \in Seq(Contacts) /\ T!Distinct(cache') /\ Len(cache') <= K
        /\ T!Peers(cache') \subseteq T!Peers(e)
    BY <1>2, <2>1, <2>3, LastNIs
  <2>5. tasks' \in Seq(Tasks) /\ Len(tasks') <= MaxTasks
    <3>1. bucket[1] \in Contacts
      BY <1>2, <2>1
    <3>2. task \in Tasks
      BY <3>1 DEF Contacts, Tasks
    <3> HIDE DEF task
    <3> QED BY <1>2, <2>1, <3>2, QueuedIs
  <2> QED BY <1>2, <1>5, <2>1, <2>2, <2>3, <2>4, <2>5 DEF Bucket
<1> QED BY <1>3, <1>4, <1>5

\* Removing a peer, with one of the reserve in its place, keeps a sound bucket.
LEMMA RemoveIs ==
  ASSUME TableSized, Bucket(bucket, cache, tasks), NEW p, T!Remove(p)
  PROVE  Bucket(bucket', cache', tasks')
<1>1. /\ bucket \in Seq(Contacts) /\ cache \in Seq(Contacts) /\ tasks \in Seq(Tasks) /\ Len(tasks) <= MaxTasks
      /\ Len(bucket) <= K /\ Len(cache) <= K /\ T!Distinct(bucket) /\ T!Distinct(cache)
      /\ T!Peers(bucket) \cap T!Peers(cache) = {} /\ (cache # <<>> => Len(bucket) = K)
      /\ K \in Nat \ {0} /\ Len(bucket) \in Nat /\ Len(cache) \in Nat
  BY DEF Bucket, TableSized
<1>2. tasks' \in Seq(Tasks) /\ Len(tasks') = Len(tasks)
  <2>1. \A x \in Tasks : T!Dropped(x, p) \in Tasks
    BY DEF T!Dropped, Tasks
  <2>2. Len(tasks) \in Nat /\ DOMAIN tasks = 1 .. Len(tasks) /\ \A i \in 1 .. Len(tasks) : tasks[i] \in Tasks
    BY <1>1
  <2> DEFINE f(i) == T!Dropped(tasks[i], p)
  <2>3. \A i \in 1 .. Len(tasks) : f(i) \in Tasks
    BY <2>1, <2>2
  <2>4. tasks' = [i \in 1 .. Len(tasks) |-> f(i)]
    BY <2>2 DEF T!Remove
  <2> HIDE DEF f
  <2> QED BY <2>2, <2>3, <2>4
<1> DEFINE b == T!Without(bucket, p)
<1>3. /\ b \in Seq(Contacts) /\ T!Distinct(b) /\ T!Peers(b) = T!Peers(bucket) \ {p}
      /\ Len(b) = IF p \in T!Peers(bucket) THEN Len(bucket) - 1 ELSE Len(bucket)
  BY <1>1, WithoutIs
<1>4. CASE p \in T!Peers(bucket) /\ cache = <<>>
  <2>1. bucket' = b /\ cache' = <<>>
    BY <1>4 DEF T!Remove
  <2> HIDE DEF b
  <2>2. T!Peers(cache') = {}
    BY <2>1 DEF T!Peers
  <2> QED BY <1>1, <1>2, <1>3, <1>4, <2>1, <2>2 DEF Bucket
<1>5. CASE p \in T!Peers(bucket) /\ cache # <<>>
  <2> DEFINE n == Len(cache)
             c == cache[n]
             d == SubSeq(cache, 1, n - 1)
  <2>1. bucket' = Append(b, c) /\ cache' = d
    BY <1>5 DEF T!Remove
  <2> HIDE DEF b
  <2>2. n \in Nat \ {0} /\ n \in 1 .. n /\ DOMAIN cache = 1 .. n /\ c \in Contacts /\ c.peer \in T!Peers(cache)
    BY <1>1, <1>5 DEF T!Peers
  <2>3. 1 \in 1 .. n + 1 /\ n - 1 \in Nat /\ n - 1 <= n /\ 1 <= (n - 1) + 1 /\ (n - 1) + 1 - 1 = n - 1
    BY <2>2
  <2>4. /\ d \in Seq(Contacts) /\ T!Distinct(d) /\ Len(d) = n - 1
        /\ T!Peers(d) = {cache[j].peer : j \in 1 .. n - 1}
    BY <1>1, <2>3, PartIs
  <2>5. T!Peers(d) \subseteq T!Peers(cache) /\ c.peer \notin T!Peers(d)
    <3> HIDE DEF n, d
    <3>1. \A j \in 1 .. n - 1 : j \in DOMAIN cache /\ j # n /\ n \in DOMAIN cache
      BY <2>2
    <3>2. \A j \in 1 .. n - 1 : cache[j].peer # c.peer
      BY <1>1, <2>2, <3>1 DEF T!Distinct
    <3> HIDE DEF c
    <3> QED BY <2>4, <3>1, <3>2 DEF T!Peers
  <2> HIDE DEF c, d
  <2>6. c.peer \notin T!Peers(b)
    BY <1>1, <1>3, <2>2
  <2>7. /\ Append(b, c) \in Seq(Contacts) /\ T!Distinct(Append(b, c))
        /\ T!Peers(Append(b, c)) = T!Peers(b) \cup {c.peer} /\ Len(Append(b, c)) = Len(b) + 1
    BY <1>3, <2>2, <2>6, AppendIs
  <2>8. T!Peers(bucket') \cap T!Peers(cache') = {}
    BY <1>1, <1>3, <2>1, <2>5, <2>7
  <2>9. Len(bucket') = Len(bucket) /\ Len(cache') <= K
    BY <1>1, <1>3, <1>5, <2>1, <2>2, <2>4, <2>7
  <2> QED BY <1>1, <1>2, <1>5, <2>1, <2>4, <2>7, <2>8, <2>9 DEF Bucket
<1>6. CASE p \notin T!Peers(bucket)
  <2> DEFINE d == T!Without(cache, p)
  <2>1. bucket' = bucket /\ cache' = d
    BY <1>6 DEF T!Remove
  <2>2. /\ d \in Seq(Contacts) /\ T!Distinct(d) /\ T!Peers(d) = T!Peers(cache) \ {p}
        /\ Len(d) = IF p \in T!Peers(cache) THEN Len(cache) - 1 ELSE Len(cache)
    BY <1>1, WithoutIs
  <2> HIDE DEF d
  <2>3. d # <<>> => cache # <<>>
    <3>1. cache = <<>> => T!Peers(cache) = {} /\ Len(cache) = 0
      BY DEF T!Peers
    <3> QED BY <2>2, <3>1
  <2> QED BY <1>1, <1>2, <2>1, <2>2, <2>3 DEF Bucket
<1> QED BY <1>4, <1>5, <1>6

\* One more failure of a contact, or what comes of the second.
LEMMA FailIs ==
  ASSUME TableSized, Bucket(bucket, cache, tasks), NEW i \in DOMAIN bucket,
         IF bucket[i].fails + 1 >= 2 THEN T!Remove(bucket[i].peer) ELSE T!FailCounts(i)
  PROVE  Bucket(bucket', cache', tasks')
<1>1. CASE bucket[i].fails + 1 >= 2
  BY <1>1, RemoveIs
<1>2. CASE ~(bucket[i].fails + 1 >= 2)
  <2>1. /\ bucket' = [bucket EXCEPT ![i].fails = @ + 1] /\ cache' = cache /\ tasks' = tasks
        /\ bucket \in Seq(Contacts) /\ DOMAIN bucket = 1 .. Len(bucket) /\ Len(bucket) \in Nat
    BY <1>2 DEF T!FailCounts, Bucket
  <2>2. \A j \in DOMAIN bucket : bucket[j] \in Contacts
    BY <2>1
  <2>3. bucket[i].fails + 1 \in 0 .. 1
    BY <1>2, <2>2 DEF Contacts
  <2>4. \A j \in DOMAIN bucket : bucket'[j] \in Contacts /\ bucket'[j].peer = bucket[j].peer
    BY <2>1, <2>2, <2>3 DEF Contacts
  <2>5. bucket' \in Seq(Contacts) /\ Len(bucket') = Len(bucket) /\ DOMAIN bucket' = DOMAIN bucket
    BY <2>1, <2>4
  <2>6. T!Distinct(bucket')
    BY <2>4, <2>5 DEF Bucket, T!Distinct
  <2>7. T!Peers(bucket') = T!Peers(bucket)
    BY <2>4, <2>5 DEF T!Peers
  <2> QED BY <2>1, <2>5, <2>6, <2>7 DEF Bucket
<1> QED BY <1>1, <1>2

\* The table is empty at the start.
LEMMA RoutingInit == ASSUME TableSized, T!Init PROVE RoutingInv
<1>1. T!Peers(<<>>) = {} /\ T!Distinct(<<>>)
  BY DEF T!Peers, T!Distinct
<1> QED BY <1>1 DEF TableSized, T!Init, RoutingInv, Bucket

\* Every step keeps a sound bucket, reserve and queue.
LEMMA RoutingStep == ASSUME TableSized, RoutingInv, [T!Next]_(T!vars) PROVE RoutingInv'
<1>1. /\ Bucket(bucket, cache, tasks) /\ addr \in [Peer -> 0 .. MaxAddr]
      /\ ping # T!NoTask => ping \in Tasks
  BY DEF RoutingInv
<1>2. MaxAddr \in Nat \ {0} /\ \A a \in 0 .. MaxAddr : a # 0 => a \in 1 .. MaxAddr
  BY DEF TableSized
<1>3. ASSUME NEW p \in Peer, T!Answers(p) PROVE RoutingInv'
  <2>1. addr[p] \in 1 .. MaxAddr /\ T!Add(p, addr[p]) /\ ping' = ping /\ addr' = addr
    BY <1>1, <1>2, <1>3 DEF T!Answers
  <2>2. Bucket(bucket', cache', tasks')
    BY <1>1, <2>1, AddIs
  <2> QED BY <1>1, <2>1, <2>2 DEF RoutingInv
<1>4. ASSUME NEW p \in Peer, T!Stranger(p) PROVE RoutingInv'
  <2> DEFINE task == [kind |-> "verify", peer |-> p, addr |-> addr[p], held |-> FALSE]
  <2>1. /\ addr[p] \in 1 .. MaxAddr /\ tasks' = T!Queued(task)
        /\ bucket' = bucket /\ cache' = cache /\ ping' = ping /\ addr' = addr
    BY <1>1, <1>2, <1>4 DEF T!Stranger
  <2>2. task \in Tasks /\ tasks \in Seq(Tasks)
    BY <1>1, <2>1 DEF Tasks, Bucket
  <2> HIDE DEF task
  <2>3. tasks' \in Seq(Tasks) /\ Len(tasks') <= MaxTasks
    BY <2>1, <2>2, QueuedIs
  <2> QED BY <1>1, <2>1, <2>3 DEF RoutingInv, Bucket
<1>5. ASSUME NEW i \in 1 .. K, T!LookupFails(i) PROVE RoutingInv'
  <2>1. Bucket(bucket', cache', tasks')
    BY <1>1, <1>5, FailIs DEF T!LookupFails
  <2> QED BY <1>1, <1>5, <2>1 DEF T!LookupFails, RoutingInv
<1>6. ASSUME NEW i \in 1 .. K, T!LookupLost(i) PROVE RoutingInv'
  <2>1. Bucket(bucket', cache', tasks')
    BY <1>1, <1>6, FailIs DEF T!LookupLost
  <2> QED BY <1>1, <1>6, <2>1 DEF T!LookupLost, RoutingInv
<1>7. CASE T!TakeTask
  <2>1. /\ tasks # <<>> /\ ping' = Head(tasks) /\ tasks' = Tail(tasks)
        /\ bucket' = bucket /\ cache' = cache /\ addr' = addr
        /\ tasks \in Seq(Tasks) /\ Len(tasks) <= MaxTasks /\ MaxTasks \in Nat
    BY <1>1, <1>7 DEF T!TakeTask, Bucket, TableSized
  <2>2. Head(tasks) \in Tasks /\ Tail(tasks) \in Seq(Tasks) /\ Len(Tail(tasks)) <= MaxTasks
    BY <2>1
  <2> QED BY <1>1, <2>1, <2>2 DEF RoutingInv, Bucket
<1>8. CASE T!Pong
  <2>1. ping \in Tasks /\ T!Add(ping.peer, ping.addr) /\ ping' = T!NoTask /\ addr' = addr
    BY <1>1, <1>8 DEF T!Pong
  <2>2. ping.peer \in Peer /\ ping.addr \in 1 .. MaxAddr
    BY <2>1 DEF Tasks
  <2>3. Bucket(bucket', cache', tasks')
    BY <1>1, <2>1, <2>2, AddIs
  <2> QED BY <1>1, <2>1, <2>3 DEF RoutingInv
<1>9. CASE T!NoPong
  <2>1. ping' = T!NoTask /\ addr' = addr
    BY <1>9 DEF T!NoPong
  <2>2. Bucket(bucket', cache', tasks')
    <3>1. CASE ping.kind = "evict"
      BY <1>1, <1>9, <3>1, RemoveIs DEF T!NoPong
    <3>2. CASE ping.kind # "evict"
      BY <1>1, <1>9, <3>2 DEF T!NoPong
    <3> QED BY <3>1, <3>2
  <2> QED BY <1>1, <2>1, <2>2 DEF RoutingInv
<1>10. ASSUME NEW p \in Peer, T!Dies(p) \/ T!Returns(p) PROVE RoutingInv'
  <2>1. bucket' = bucket /\ cache' = cache /\ tasks' = tasks /\ ping' = ping
    BY <1>10 DEF T!Dies, T!Returns
  <2>2. addr' \in [Peer -> 0 .. MaxAddr]
    BY <1>1, <1>2, <1>10 DEF T!Dies, T!Returns
  <2> QED BY <1>1, <2>1, <2>2 DEF RoutingInv
<1>11. CASE UNCHANGED T!vars
  BY <1>1, <1>11 DEF T!vars, RoutingInv
<1> QED BY <1>3, <1>4, <1>5, <1>6, <1>7, <1>8, <1>9, <1>10, <1>11 DEF T!Next, T!Maintain

\* And that is what the run checks.
LEMMA RoutingIsSound == ASSUME TableSized, RoutingInv PROVE T!TypeOK /\ T!TableSound
<1>1. Bucket(bucket, cache, tasks) /\ addr \in [Peer -> 0 .. MaxAddr]
  BY DEF RoutingInv
<1> QED BY <1>1 DEF Bucket, Contacts, T!TypeOK, T!TableSound, T!CheckInvariants, T!ReserveIsUsed, T!Full

\* RoutingTable.check_invariants after every handler of a DHT node, however its own lookups, the
\* pongs and the deaths and returns of the others come between: the bucket and its reserve stay
\* within K, name nobody twice, and the reserve waits only while the bucket is full.
THEOREM RoutingTableSound ==
  ASSUME TableSized
  PROVE  T!Spec => [](T!TypeOK /\ T!TableSound)
<1>1. T!Init => RoutingInv
  BY RoutingInit
<1>2. RoutingInv /\ [T!Next]_(T!vars) => RoutingInv'
  BY RoutingStep
<1>3. RoutingInv => T!TypeOK /\ T!TableSound
  BY RoutingIsSound
<1> QED BY <1>1, <1>2, <1>3, PTL DEF T!Spec
=============================================================================
