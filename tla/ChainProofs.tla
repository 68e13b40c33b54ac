------------------------------ MODULE ChainProofs ------------------------------
(***************************************************************************)
(* Proofs about Chain: the two peers and their client are sound at every   *)
(* moment (ChainSound), and the chain keeps the promise of Decoding, for   *)
(* every set of peers, pieces and bounds.                                  *)
(***************************************************************************)
EXTENDS Chain, RequestProofs, FiniteSetTheorems

-----------------------------------------------------------------------------
\* The inductive invariant.

\* What a position of a peer's cache holds.
Position(p) == IF p \in ToSet(Known[1]) THEN Token ELSE Seq(Token)
SavedAt(p) == [key : RequestOf(Position(p)), out : Seq(Seq(Token))]
AnySession == SessionOf(Token) \cup SessionOf(Seq(Token))
AnySaved == [key : RequestOf(Token) \cup RequestOf(Seq(Token)), out : Seq(Seq(Token))]
Routes == {h \in [1..2 -> Peer] : h[1] \in ToSet(Known[1]) /\ h[2] \in ToSet(Known[2])}

\* The sessions, running or saved, of every peer and wire id.
Held ==
  /\ sess \in [Peer -> [Wire -> AnySession]]
  /\ chained \in [Peer -> [Wire -> SUBSET AnySaved]]
  /\ \A p \in Peer, w \in Wire :
       /\ sess[p][w] \in SessionOf(Position(p)) /\ chained[p][w] \subseteq SavedAt(p)
       /\ ~sess[p][w].open => chained[p][w] = {}
       /\ p \notin up => ~sess[p][w].open
       /\ w > wire => sess[p][w] = NoSession /\ chained[p][w] = {}

Stepping == pc = "call" /\ why = "step"
Again == pc = "replay" \/ (pc = "call" /\ why # "step")

\* Where the client is, and what that says of its variables.
Places ==
  /\ up \subseteq Peer /\ dead \subseteq Peer /\ checked \subseteq Peer /\ missed \subseteq Peer
  /\ hops \in Routes /\ fresh \in Routes /\ piece \in Piece
  /\ text \in Seq(Token) /\ seen \in Seq(Token)
  /\ hist \in Seq(Piece) /\ Tiles(hist, text) /\ replayed \in 0..Len(hist)
  /\ pc \in {"idle", "call", "leave", "replay", "end", "over"}
  /\ why \in {"step", "replay", "again"}
  /\ outcome \in {"running", "done", "failed"}
  /\ outcome = "running" <=> pc \notin {"end", "over"}
  /\ cut \in Nat \cup {NoCut} /\ (pc = "idle" => cut \in {NoCut, Len(text)})
  /\ sends \in 0..MaxSends /\ blame \in 1..2 /\ left \subseteq 1..2
  /\ pc = "over" => left = {}
  /\ pc \in {"call", "leave", "replay"} => piece.start = Len(text) /\ piece.toks \in Pieces
  /\ pc = "idle" \/ Stepping => (text = <<>> => wire = 1)
  /\ Again => wire # 1

\* The text that the peers in use were fed, and the cut that is still to come.
FedTo == EndOf(hist, replayed)
Base == IF pc = "replay" \/ (pc = "call" /\ why = "replay") THEN SubSeq(text, 1, FedTo) ELSE text
Coming == IF pc = "call" THEN body.req.cut ELSE IF pc = "replay" THEN NoCut ELSE cut

\* The call's request: the piece after Base, with the cut that was due.
Calling == pc = "call" =>
  /\ body = Body(wire, hops, Len(Base), body.req.toks, body.req.cut)
  /\ body.req.toks \in Seq(Token) /\ body.req.toks # <<>>
  /\ body.req.cut \in {NoCut, Len(Base)}
  /\ why # "replay" => body.req.toks = piece.toks
  /\ why = "replay" => replayed < Len(hist) /\ body.req.toks = hist[replayed + 1].toks

\* What stage k was fed, and what it is asked for in this call.
Full == Base \o body.req.toks
Fed(k) == IF k = 1 THEN Base ELSE Hidden(Base, 0)
Req(k) == IF k = 1 THEN body.req ELSE [body.req EXCEPT !.toks = Hidden(Full, Len(Base))]
S(k) == sess[hops[k]][wire]
C(k) == chained[hops[k]][wire]
RanStage(k) == Ran(S(k), Fed(k), Req(k))

\* The peers in use: before the step, or after it with their reply saved.
InStep(k) == /\ SettledSession(S(k))
             /\ Holds(S(k), Fed(k), Coming) \/ (pc = "call" /\ RanStage(k))
Saves(k) == \A l \in C(k) : \/ l.key.start < Len(Base)
                            \/ /\ pc = "call" /\ l.key = Req(k) /\ l.out = Hidden(Full, 0)
                               /\ RanStage(2) /\ RanStage(k)
Active == pc \in {"idle", "call", "replay"}
Data == Active => \A k \in 1..2 : InStep(k) /\ Saves(k)

\* The handlers, the one that is waited for and those that were abandoned.
Jobs ==
  /\ job \subseteq Job /\ late \subseteq Job
  /\ \A j, k \in job : j = k
  /\ \A j \in job : pc = "call" /\ j.body = body
  /\ \A j \in job \cup late :
       /\ j.body.wire <= wire /\ j.body.hops \in Routes /\ j.body.hops[1] \in up
       /\ j.body.req.op = "forward"
  /\ \A j \in late :
       /\ j.at = "onward" /\ ToSet(j.body.hops) \subseteq missed
       /\ j.body.wire = wire /\ Active => pc = "call" /\ j.body = body

\* A handler that is on its way has what its peers have, and one that is done
\* has its answer.  Abandoned or not, it holds the lock while it is onward.
Working == pc = "call" =>
  /\ \A j \in job \cup late : j.body.wire = wire =>
       /\ j.at \in {"waiting", "onward"} => S(1).open
       /\ j.at = "onward" => j.hidden = Req(2).toks /\ RanStage(1)
  /\ \A j \in job :
       /\ IF j.at = "done" THEN j.status \in {200, 404, 409, 502} ELSE j.status = 0
       /\ j.at = "done" /\ j.status = 200 =>
            j.out = Hidden(Full, 0) /\ C(1) # {} /\ RanStage(1) /\ RanStage(2)
       /\ j.at = "onward" \/ (j.at = "done" /\ j.status # 404) =>
            \A m \in late : m.body.wire # wire

\* Sessions that are open at peers that have missed nothing.
Orphans == \A p \in Peer \ missed, w \in Wire : sess[p][w].open =>
  /\ w = wire
  /\ \E k \in 1..2 : p = hops[k] /\ (pc \in {"leave", "end", "over"} => k \in left)

\* Every restart was charged to a fault: a session that was lost, or a call
\* that ran out of attempts.
Missing(k) == ~S(k).open /\ (Base # <<>> \/ C(1) # {})
Tired(k) == pc = "call" /\ \/ job = {} /\ sends > 0 /\ blame = k
                           \/ k = 2 /\ \E j \in job : j.at = "done" /\ j.status = 502
Charged ==
  /\ faults \in 0..MaxFaults /\ wire \in Nat \ {0} /\ wire <= faults + 1
  /\ up # Peer => faults > 0
  /\ pc = "leave" => wire <= faults
  /\ \A k \in 1..2 : (Active /\ Missing(k)) \/ (Stepping /\ Tired(k)) => wire <= faults
  /\ \A j \in job : j.at = "done" => /\ j.status = 404 => Missing(1)
                                     /\ j.status = 409 => Missing(2)
  /\ wire = 1 /\ pc \in {"idle", "call"} => dead = {}

IInv == /\ Held /\ Places /\ Calling /\ Data /\ Jobs /\ Working /\ Orphans /\ Charged

\* With a replica of every stage: while there was one fault at most, what
\* failed is out of the route, or will be.
Replicas == \A k \in 1..2 : Len(Known[k]) > 1
One == faults <= 1 =>
  /\ \A x, y \in Peer \ up : x = y
  /\ outcome # "failed"
  /\ Active => \A k \in 1..2 : Missing(k) \/ Tired(k) =>
                 wire <= faults /\ Peer \ up \subseteq {hops[k]}
  /\ Active /\ wire = 2 => ToSet(hops) \subseteq up
  /\ pc = "leave" => ToSet(fresh) \subseteq up
  /\ (\E j \in job : j.at = "done" /\ j.status = 409) => up = Peer
-----------------------------------------------------------------------------
\* What the steps of the proof keep needing.

\* A function of two arguments changed in one place.
LEMMA Changed ==
  ASSUME NEW A, NEW B, NEW V, NEW f \in [A -> [B -> V]], NEW a \in A, NEW b \in B, NEW v,
         NEW g, g = [f EXCEPT ![a][b] = v]
  PROVE  /\ v \in V => g \in [A -> [B -> V]]
         /\ g[a][b] = v
         /\ \A x \in A, y \in B : x # a \/ y # b => g[x][y] = f[x][y]
  OBVIOUS

\* The peers of a route are of their stages, and are two.
LEMMA RouteRoles ==
  ASSUME NEW h \in Routes
  PROVE  /\ h[1] \in Peer /\ h[2] \in Peer /\ h[1] # h[2]
         /\ Position(h[1]) = Token /\ Position(h[2]) = Seq(Token)
         /\ h \in Seq(Peer) /\ ToSet(h) = {h[1], h[2]}
<1>1. /\ h \in [1..2 -> Peer] /\ h[1] \in ToSet(Known[1]) /\ h[2] \in ToSet(Known[2])
      /\ h[2] \notin ToSet(Known[1])
  BY ChainAssumption DEF Routes
<1>2. h \in Seq(Peer) /\ Len(h) = 2
  <2> DEFINE n == 2
             s == [i \in 1..n |-> h[i]]
  <2>1. n \in Nat /\ s = h /\ \A i \in 1..n : h[i] \in Peer
    BY <1>1
  <2> HIDE DEF n
  <2>2. s \in Seq(Peer) /\ Len(s) = n
    BY <2>1
  <2> HIDE DEF s
  <2> QED BY <2>1, <2>2 DEF n
<1>3. ToSet(h) = {h[1], h[2]}
  BY <1>1 DEF ToSet
<1> QED BY <1>1, <1>2, <1>3 DEF Position

\* Every piece is at least one token.
LEMMA PieceTypes == \A toks \in Pieces : toks \in Seq(Token) /\ toks # <<>>
<1> SUFFICES ASSUME NEW toks \in Pieces PROVE toks \in Seq(Token) /\ toks # <<>>
  OBVIOUS
<1>1. PICK n \in 1..MaxPiece : toks \in [1..n -> Token]
  BY DEF Pieces
<1> QED BY <1>1, ChainAssumption

\* The hidden states of a cache from a position on: the prefixes past it.
LEMMA HiddenIs ==
  ASSUME NEW T, NEW t \in Seq(T), NEW n \in 0..Len(t)
  PROVE  /\ Hidden(t, n) \in Seq(Seq(T)) /\ Len(Hidden(t, n)) = Len(t) - n
         /\ \A i \in 1..Len(t) - n : Hidden(t, n)[i] = SubSeq(t, 1, n + i)
<1>1. Len(t) \in Nat /\ Len(t) - n \in Nat
  OBVIOUS
<1>2. \A i \in 1..Len(t) - n : SubSeq(t, 1, n + i) \in Seq(T)
  BY <1>1, Taken
<1> QED BY <1>1, <1>2 DEF Hidden

\* The hidden states of a text and those of the piece after it are those of both.
LEMMA HiddenJoin ==
  ASSUME NEW T, NEW t \in Seq(T), NEW q \in Seq(T)
  PROVE  Hidden(t, 0) \o Hidden(t \o q, Len(t)) = Hidden(t \o q, 0)
<1> DEFINE full == t \o q
           a == Hidden(t, 0)
           b == Hidden(full, Len(t))
           c == Hidden(full, 0)
<1>1. /\ full \in Seq(T) /\ Len(full) = Len(t) + Len(q) /\ Len(t) \in Nat /\ Len(q) \in Nat
      /\ \A i \in 1..Len(t) : full[i] = t[i]
  BY Joined
<1>2. 0 \in 0..Len(t) /\ 0 \in 0..Len(full) /\ Len(t) \in 0..Len(full)
  BY <1>1
<1>3. /\ a \in Seq(Seq(T)) /\ Len(a) = Len(t)
      /\ \A i \in 1..Len(t) : a[i] = SubSeq(t, 1, i)
  BY <1>1, <1>2, HiddenIs
<1> HIDE DEF full
<1>4. /\ b \in Seq(Seq(T)) /\ Len(b) = Len(q)
      /\ \A i \in 1..Len(q) : b[i] = SubSeq(full, 1, Len(t) + i)
  <2>1. /\ b \in Seq(Seq(T)) /\ Len(b) = Len(full) - Len(t)
        /\ \A i \in 1..Len(full) - Len(t) : b[i] = SubSeq(full, 1, Len(t) + i)
    BY <1>1, <1>2, HiddenIs
  <2> QED BY <1>1, <2>1
<1>5. /\ c \in Seq(Seq(T)) /\ Len(c) = Len(t) + Len(q)
      /\ \A i \in 1..Len(t) + Len(q) : c[i] = SubSeq(full, 1, i)
  <2>1. /\ c \in Seq(Seq(T)) /\ Len(c) = Len(full) - 0
        /\ \A i \in 1..Len(full) - 0 : c[i] = SubSeq(full, 1, 0 + i)
    BY <1>1, <1>2, HiddenIs
  <2> QED BY <1>1, <2>1
<1>6. \A i \in 1..Len(t) : SubSeq(full, 1, i) = SubSeq(t, 1, i)
  <2> SUFFICES ASSUME NEW i \in 1..Len(t) PROVE SubSeq(full, 1, i) = SubSeq(t, 1, i)
    OBVIOUS
  <2>1. i \in 0..Len(t) /\ i \in 0..Len(full)
    BY <1>1
  <2>2. /\ SubSeq(full, 1, i) \in Seq(T) /\ Len(SubSeq(full, 1, i)) = i
        /\ \A k \in 1..i : SubSeq(full, 1, i)[k] = full[k]
    BY <1>1, <2>1, Taken
  <2>3. /\ SubSeq(t, 1, i) \in Seq(T) /\ Len(SubSeq(t, 1, i)) = i
        /\ \A k \in 1..i : SubSeq(t, 1, i)[k] = t[k]
    BY <2>1, Taken
  <2>4. \A k \in 1..i : SubSeq(full, 1, i)[k] = SubSeq(t, 1, i)[k]
    BY <1>1, <2>1, <2>2, <2>3
  <2> QED BY <2>2, <2>3, <2>4, SeqEqual
<1> HIDE DEF a, b, c
<1>7. /\ a \o b \in Seq(Seq(T)) /\ Len(a \o b) = Len(t) + Len(q)
      /\ \A i \in 1..Len(t) : (a \o b)[i] = a[i]
      /\ \A i \in 1..Len(q) : (a \o b)[Len(t) + i] = b[i]
  <2> DEFINE X == Seq(T)
  <2>0. a \in Seq(X) /\ b \in Seq(X)
    BY <1>3, <1>4
  <2> HIDE DEF X
  <2>1. /\ a \o b \in Seq(X) /\ Len(a \o b) = Len(a) + Len(b)
        /\ \A i \in 1..Len(a) : (a \o b)[i] = a[i]
        /\ \A i \in 1..Len(b) : (a \o b)[Len(a) + i] = b[i]
    BY <2>0, Joined
  <2> QED BY <1>3, <1>4, <2>1 DEF X
<1>8. \A i \in 1..Len(t) + Len(q) : (a \o b)[i] = c[i]
  <2> SUFFICES ASSUME NEW i \in 1..Len(t) + Len(q) PROVE (a \o b)[i] = c[i]
    OBVIOUS
  <2>1. CASE i <= Len(t)
    <3>1. i \in 1..Len(t) /\ i \in 1..Len(t) + Len(q)
      BY <1>1, <2>1
    <3>2. (a \o b)[i] = a[i] /\ a[i] = SubSeq(t, 1, i) /\ c[i] = SubSeq(full, 1, i)
      BY <1>3, <1>5, <1>7, <3>1
    <3> QED BY <1>6, <3>1, <3>2
  <2>2. CASE i > Len(t)
    <3> DEFINE k == i - Len(t)
    <3>1. k \in 1..Len(q) /\ Len(t) + k = i
      BY <1>1, <2>2
    <3> HIDE DEF k
    <3>2. (a \o b)[Len(t) + k] = b[k] /\ b[k] = SubSeq(full, 1, Len(t) + k)
      BY <1>4, <1>7, <3>1
    <3> QED BY <1>5, <3>1, <3>2
  <2>3. i <= Len(t) \/ i > Len(t)
    BY <1>1
  <2> QED BY <2>1, <2>2, <2>3, Zenon
<1>9. a \o b = c
  BY <1>5, <1>7, <1>8, SeqEqual
<1> QED BY <1>9 DEF a, b, c, full

\* The hidden states of a front of a text are a front of its hidden states.
LEMMA HiddenFront ==
  ASSUME NEW T, NEW t \in Seq(T), NEW n \in 0..Len(t)
  PROVE  \A i \in 1..n : Hidden(SubSeq(t, 1, n), 0)[i] = Hidden(t, 0)[i]
<1> DEFINE u == SubSeq(t, 1, n)
<1>1. /\ u \in Seq(T) /\ Len(u) = n /\ \A i \in 1..n : u[i] = t[i]
      /\ n \in Nat /\ Len(t) \in Nat
  BY Taken
<1> HIDE DEF u
<1>2. /\ 0 \in 0..Len(t) /\ 0 \in 0..Len(u)
  BY <1>1
<1>3. \A i \in 1..Len(t) - 0 : Hidden(t, 0)[i] = SubSeq(t, 1, 0 + i)
  BY <1>2, HiddenIs
<1>4. \A i \in 1..Len(u) - 0 : Hidden(u, 0)[i] = SubSeq(u, 1, 0 + i)
  BY <1>1, <1>2, HiddenIs
<1>5. ASSUME NEW i \in 1..n PROVE SubSeq(u, 1, i) = SubSeq(t, 1, i)
  <2>1. i \in 0..Len(t) /\ i \in 0..Len(u)
    BY <1>1
  <2>2. /\ SubSeq(u, 1, i) \in Seq(T) /\ Len(SubSeq(u, 1, i)) = i
        /\ \A k \in 1..i : SubSeq(u, 1, i)[k] = u[k]
    BY <1>1, <2>1, Taken
  <2>3. /\ SubSeq(t, 1, i) \in Seq(T) /\ Len(SubSeq(t, 1, i)) = i
        /\ \A k \in 1..i : SubSeq(t, 1, i)[k] = t[k]
    BY <2>1, Taken
  <2>4. \A k \in 1..i : SubSeq(u, 1, i)[k] = SubSeq(t, 1, i)[k]
    BY <1>1, <2>1, <2>2, <2>3
  <2> QED BY <2>2, <2>3, <2>4, SeqEqual
<1>6. \A i \in 1..n : Hidden(u, 0)[i] = Hidden(t, 0)[i]
  <2> SUFFICES ASSUME NEW i \in 1..n PROVE Hidden(u, 0)[i] = Hidden(t, 0)[i]
    OBVIOUS
  <2>1. i \in 1..Len(t) - 0 /\ i \in 1..Len(u) - 0 /\ 0 + i = i
    BY <1>1
  <2> QED BY <1>3, <1>4, <1>5, <2>1
<1> QED BY <1>6 DEF u

\* The last hidden state of a text is of all of it.
LEMMA HiddenLast ==
  ASSUME NEW T, NEW t \in Seq(T), t # <<>>
  PROVE  Last(Hidden(t, 0)) = t /\ Hidden(t, 0) # <<>>
<1>1. Len(t) \in Nat \ {0} /\ 0 \in 0..Len(t)
  OBVIOUS
<1>2. /\ Hidden(t, 0) \in Seq(Seq(T)) /\ Len(Hidden(t, 0)) = Len(t) - 0
      /\ \A i \in 1..Len(t) - 0 : Hidden(t, 0)[i] = SubSeq(t, 1, 0 + i)
  BY <1>1, HiddenIs
<1>3. Len(t) \in 1..Len(t) - 0 /\ Len(Hidden(t, 0)) = Len(t) /\ 0 + Len(t) = Len(t)
  BY <1>1, <1>2
<1>4. Hidden(t, 0)[Len(t)] = SubSeq(t, 1, Len(t)) /\ SubSeq(t, 1, Len(t)) = t
  BY <1>2, <1>3
<1>5. Hidden(t, 0) # <<>>
  BY <1>1, <1>2, <1>3
<1> QED BY <1>3, <1>4, <1>5 DEF Last

-----------------------------------------------------------------------------
\* What the invariant says of the client's call.

\* The route and the wire id in use.
LEMMA Route ==
  ASSUME Places, Charged
  PROVE  /\ wire \in Wire /\ wire \in Nat \ {0} /\ wire <= MaxFaults + 1
         /\ faults \in Nat /\ MaxFaults \in Nat
         /\ hops[1] \in Peer /\ hops[2] \in Peer /\ hops[1] # hops[2]
         /\ Position(hops[1]) = Token /\ Position(hops[2]) = Seq(Token)
         /\ hops \in Seq(Peer) /\ ToSet(hops) = {hops[1], hops[2]}
<1>1. wire \in Nat \ {0} /\ wire <= MaxFaults + 1 /\ faults \in Nat /\ MaxFaults \in Nat
  BY ChainAssumption DEF Charged
<1>2. wire \in Wire
  BY <1>1 DEF Wire
<1>3. hops \in Routes
  BY DEF Places
<1> QED BY <1>1, <1>2, <1>3, RouteRoles

\* What the peers in use were fed is a front of the text.
LEMMA BaseIs ==
  ASSUME Places
  PROVE  /\ FedTo \in 0..Len(text) /\ Len(text) \in Nat
         /\ Base \in Seq(Token) /\ Len(Base) \in Nat
         /\ pc \notin {"call", "replay"} \/ (pc = "call" /\ why # "replay") => Base = text
         /\ pc = "replay" \/ (pc = "call" /\ why = "replay") =>
              Base = SubSeq(text, 1, FedTo) /\ Len(Base) = FedTo
<1>1. text \in Seq(Token) /\ hist \in Seq(Piece) /\ Tiles(hist, text) /\ replayed \in 0..Len(hist)
  BY DEF Places
<1>2. FedTo \in 0..Len(text)
  <2>1. CASE replayed = 0
    BY <1>1, <2>1 DEF FedTo, EndOf
  <2>2. CASE replayed # 0
    <3>1. replayed \in 1..Len(hist)
      BY <1>1, <2>2
    <3>2. hist[replayed].start + Len(hist[replayed].toks) \in 1..Len(text)
      BY <1>1, <3>1, TileBounds
    <3> QED BY <1>1, <2>2, <3>2 DEF FedTo, EndOf
  <2> QED BY <2>1, <2>2
<1>3. SubSeq(text, 1, FedTo) \in Seq(Token) /\ Len(SubSeq(text, 1, FedTo)) = FedTo
  BY <1>1, <1>2, Taken
<1> QED BY <1>1, <1>2, <1>3 DEF Base

\* The request of a call, at either stage.
LEMMA CallIs ==
  ASSUME Places, Charged, Calling, pc = "call"
  PROVE  /\ body.wire = wire /\ body.hops = hops
         /\ body \in [wire : Wire, hops : Seq(Peer), req : Request]
         /\ body.req.op = "forward" /\ body.req.start = Len(Base)
         /\ body.req.cut \in {NoCut, Len(Base)}
         /\ body.req.toks \in Seq(Token) /\ body.req.toks # <<>>
         /\ Full \in Seq(Token) /\ Len(Full) = Len(Base) + Len(body.req.toks)
         /\ Len(Base) \in Nat /\ Len(Base) < Len(Full)
<1>1. wire \in Wire /\ hops \in Seq(Peer)
  BY Route
<1>2. Base \in Seq(Token) /\ Len(Base) \in Nat
  BY BaseIs
<1>3. /\ body = Body(wire, hops, Len(Base), body.req.toks, body.req.cut)
      /\ body.req.toks \in Seq(Token) /\ body.req.toks # <<>>
      /\ body.req.cut \in {NoCut, Len(Base)}
  BY DEF Calling
<1> HIDE DEF Base
<1>4. /\ body.wire = wire /\ body.hops = hops
      /\ body.req = ForwardRequest(Len(Base), body.req.toks, body.req.cut)
  BY <1>3 DEF Body
<1>5. /\ body.req.op = "forward" /\ body.req.start = Len(Base) /\ body.req \in Request
  BY <1>2, <1>3, <1>4 DEF ForwardRequest, Request
<1>6. body \in [wire : Wire, hops : Seq(Peer), req : Request]
  BY <1>1, <1>3, <1>4, <1>5 DEF Body
<1>7. Full \in Seq(Token) /\ Len(Full) = Len(Base) + Len(body.req.toks)
  BY <1>2, <1>3, Joined DEF Full
<1>8. Len(body.req.toks) \in Nat \ {0}
  BY <1>3
<1> QED BY <1>2, <1>3, <1>4, <1>5, <1>6, <1>7, <1>8

\* The session s, fed t, is asked by r for what comes after t, or was already.
Due(T, s, t, r) ==
  /\ s \in SessionOf(T) /\ SettledSession(s)
  /\ t \in Seq(T) /\ r.toks \in Seq(T) /\ r.toks # <<>> /\ r.cut \in {NoCut, Len(t)}
  /\ r = ForwardRequest(Len(t), r.toks, r.cut)
  /\ Holds(s, t, r.cut) \/ Ran(s, t, r)

\* A peer that has the session answers as if it had held it all along.
LEMMA Served ==
  ASSUME NEW T, NEW s, NEW t, NEW r, Due(T, s, t, r), s.open
  PROVE  Grown(T, Handle(s, r), t, r)
<1>1. /\ s \in SessionOf(T) /\ SettledSession(s)
      /\ t \in Seq(T) /\ r.toks \in Seq(T) /\ r.toks # <<>> /\ r.cut \in {NoCut, Len(t)}
      /\ r = ForwardRequest(Len(t), r.toks, r.cut)
  BY DEF Due
<1>2. CASE Holds(s, t, r.cut)
  <2>1. Asked(T, s, t, r)
    BY <1>1, <1>2 DEF Asked
  <2> QED BY <2>1, ForwardHeld
<1>3. CASE Ran(s, t, r)
  <2>1. r.op = "forward"
    BY <1>1 DEF ForwardRequest
  <2>2. AskedAgain(T, s, t, r)
    BY <1>1, <1>3, <2>1 DEF AskedAgain
  <2> QED BY <2>2, ForwardAgain
<1> QED BY <1>2, <1>3 DEF Due

\* What is asked of each stage in a call.
LEMMA StageIs ==
  ASSUME Held, Places, Charged, Calling, Data, pc = "call"
  PROVE  /\ Fed(1) = Base /\ Req(1) = body.req
         /\ Req(2) = [body.req EXCEPT !.toks = Hidden(Full, Len(Base))]
         /\ Req(2).toks = Hidden(Full, Len(Base)) /\ Req(2).start = Len(Base)
         /\ Req(2).op = "forward" /\ Req(2) \in RequestOf(Seq(Token))
         /\ Base \o body.req.toks = Full /\ Fed(2) \o Req(2).toks = Hidden(Full, 0)
         /\ (Base = <<>> <=> Len(Base) = 0) /\ Len(Fed(2)) = Len(Base)
         /\ Due(Token, S(1), Base, body.req)
         /\ Due(Seq(Token), S(2), Fed(2), Req(2))
<1>1. /\ wire \in Wire /\ hops[1] \in Peer /\ hops[2] \in Peer
      /\ Position(hops[1]) = Token /\ Position(hops[2]) = Seq(Token)
  BY Route
<1>2. Base \in Seq(Token) /\ Len(Base) \in Nat
  BY BaseIs
<1> DEFINE toks == body.req.toks
           cut0 == body.req.cut
<1>3. /\ toks \in Seq(Token) /\ toks # <<>> /\ cut0 \in {NoCut, Len(Base)}
      /\ body = Body(wire, hops, Len(Base), toks, cut0)
  BY DEF Calling
<1>4. body.req = ForwardRequest(Len(Base), toks, cut0)
  BY <1>3 DEF Body
<1>5. /\ Full \in Seq(Token) /\ Len(Full) = Len(Base) + Len(toks) /\ Full = Base \o toks
  BY CallIs DEF Full
<1>6. S(1) \in SessionOf(Token) /\ S(2) \in SessionOf(Seq(Token))
  BY <1>1 DEF Held, S
<1>7. \A k \in 1..2 : SettledSession(S(k)) /\ (Holds(S(k), Fed(k), cut0) \/ RanStage(k))
  BY DEF Data, InStep, Active, Coming
<1> HIDE DEF Base, Full
<1>8. /\ Hidden(Base, 0) \in Seq(Seq(Token)) /\ Len(Hidden(Base, 0)) = Len(Base)
  <2>1. 0 \in 0..Len(Base)
    BY <1>2
  <2>2. Hidden(Base, 0) \in Seq(Seq(Token)) /\ Len(Hidden(Base, 0)) = Len(Base) - 0
    BY <1>2, <2>1, HiddenIs
  <2> QED BY <1>2, <2>2
<1>9. /\ Hidden(Full, Len(Base)) \in Seq(Seq(Token)) /\ Hidden(Full, Len(Base)) # <<>>
  <2>1. Len(Base) \in 0..Len(Full) /\ Len(Full) - Len(Base) = Len(toks) /\ Len(toks) \in Nat \ {0}
    BY <1>2, <1>3, <1>5
  <2>2. /\ Hidden(Full, Len(Base)) \in Seq(Seq(Token))
        /\ Len(Hidden(Full, Len(Base))) = Len(Full) - Len(Base)
    BY <1>5, <2>1, HiddenIs
  <2> QED BY <2>1, <2>2
<1>10. Hidden(Base, 0) \o Hidden(Full, Len(Base)) = Hidden(Full, 0)
  BY <1>2, <1>3, <1>5, HiddenJoin
<1>11. /\ Fed(1) = Base /\ Fed(2) = Hidden(Base, 0) /\ Req(1) = body.req
       /\ Req(2) = [body.req EXCEPT !.toks = Hidden(Full, Len(Base))]
  BY DEF Fed, Req
<1>12. /\ Req(2) = ForwardRequest(Len(Base), Hidden(Full, Len(Base)), cut0)
       /\ Req(2).toks = Hidden(Full, Len(Base)) /\ Req(2).cut = cut0
       /\ Req(2).op = "forward" /\ Req(2).start = Len(Base)
       /\ Req(1) = ForwardRequest(Len(Base), Req(1).toks, Req(1).cut)
       /\ Req(1).toks = toks /\ Req(1).cut = cut0
  BY <1>4, <1>11 DEF ForwardRequest
<1>13. Req(2) \in RequestOf(Seq(Token))
  BY <1>2, <1>3, <1>9, <1>12 DEF RequestOf, ForwardRequest
<1> HIDE DEF toks, cut0
<1>14. Due(Token, S(1), Base, Req(1))
  BY <1>2, <1>3, <1>6, <1>7, <1>11, <1>12 DEF Due, RanStage
<1>15. Due(Seq(Token), S(2), Fed(2), Req(2))
  BY <1>3, <1>6, <1>7, <1>8, <1>9, <1>11, <1>12 DEF Due, RanStage
<1>16. Base = <<>> <=> Len(Base) = 0
  BY <1>2, Empty
<1> QED BY <1>5, <1>8, <1>10, <1>11, <1>12, <1>13, <1>14, <1>15, <1>16 DEF toks

-----------------------------------------------------------------------------
\* What chain.run does at the second peer.

\* It leaves a session, a saved reply only for a session that is open, and an answer.
LEMMA SecondTypes ==
  ASSUME Held, NEW q \in Peer, Position(q) = Seq(Token), NEW w \in Wire,
         NEW r \in RequestOf(Seq(Token)), r.op = "forward"
  PROVE  LET second == AtSecond(q, w, r) IN
         /\ second.session \in SessionOf(Seq(Token)) /\ second.chained \subseteq SavedAt(q)
         /\ second.status \in {200, 404, 500} /\ second.out \in Seq(Seq(Token))
         /\ ~second.session.open => second.chained = {}
<1> DEFINE T == Seq(Token)
           s == IF r.start = 0 THEN OpenSession(sess[q][w]).session ELSE sess[q][w]
           again == {l \in chained[q][w] : s.open /\ l.key = r}
           run == Handle(s, r)
           kept == (CHOOSE l \in again : TRUE).out
           second == AtSecond(q, w, r)
<1>1. /\ sess[q][w] \in SessionOf(T) /\ chained[q][w] \subseteq SavedAt(q)
      /\ ~sess[q][w].open => chained[q][w] = {}
      /\ SavedAt(q) = [key : RequestOf(T), out : Seq(T)]
  BY DEF Held, SavedAt
<1>2. s \in SessionOf(T) /\ (sess[q][w].open => s.open)
  BY <1>1 DEF OpenSession, Reply, SessionOf
<1>3. second = IF again # {}
               THEN [session |-> s, chained |-> chained[q][w], status |-> 200, out |-> kept]
               ELSE [session |-> run.session,
                     chained |-> IF run.answer.status = 200 THEN {[key |-> r, out |-> run.answer.out]}
                                 ELSE chained[q][w],
                     status |-> run.answer.status, out |-> run.answer.out]
  BY DEF AtSecond
<1>4. /\ run.session \in SessionOf(T) /\ run.answer \in [status : {200, 404, 500}, out : Seq(T)]
      /\ s.open \/ run.answer.status = 200 => run.session.open
  <2> HIDE DEF s, T
  <2> QED BY <1>2, HandleTypeOf DEF T
<1>5. again # {} => kept \in Seq(T) /\ s.open
  <2>1. \A l \in again : l \in SavedAt(q) /\ s.open
    BY <1>1
  <2> HIDE DEF again, s
  <2> QED BY <1>1, <2>1
<1> HIDE DEF s, again, run, kept, second, T
<1>6. CASE again # {}
  BY <1>1, <1>2, <1>3, <1>5, <1>6 DEF second, T
<1>7. CASE again = {}
  <2>1. /\ second.session = run.session /\ second.status = run.answer.status
        /\ second.out = run.answer.out
        /\ second.chained = IF run.answer.status = 200 THEN {[key |-> r, out |-> run.answer.out]}
                            ELSE chained[q][w]
    BY <1>3, <1>7
  <2>2. [key |-> r, out |-> run.answer.out] \in SavedAt(q)
    BY <1>1, <1>4 DEF T
  <2>3. second.chained \subseteq SavedAt(q)
    BY <1>1, <2>1, <2>2
  <2>4. ~second.session.open => second.chained = {}
    BY <1>1, <1>2, <1>4, <2>1
  <2> QED BY <1>4, <2>1, <2>3, <2>4 DEF second, T
<1> QED BY <1>6, <1>7

\* In the call of now it answers what one block would over all that was fed, or
\* has lost the session.
LEMMA SecondServes ==
  ASSUME Held, Places, Charged, Calling, Data, pc = "call"
  PROVE  LET second == AtSecond(hops[2], wire, Req(2)) IN
         \/ /\ second.status = 404 /\ second.session = S(2) /\ second.chained = C(2)
            /\ ~S(2).open /\ Base # <<>>
         \/ /\ second.status = 200 /\ second.out = Hidden(Full, 0)
            /\ SettledSession(second.session) /\ second.session.open
            /\ Ran(second.session, Fed(2), Req(2))
            /\ second.chained = C(2) \/ second.chained = {[key |-> Req(2), out |-> Hidden(Full, 0)]}
<1> DEFINE T == Seq(Token)
           r == Req(2)
           q == hops[2]
           s == IF r.start = 0 THEN OpenSession(sess[q][wire]).session ELSE sess[q][wire]
           again == {l \in chained[q][wire] : s.open /\ l.key = r}
           run == Handle(s, r)
           kept == (CHOOSE l \in again : TRUE).out
           second == AtSecond(q, wire, r)
           empty == [open |-> TRUE, kv |-> <<>>, last |-> {}]
<1>1. /\ Due(T, S(2), Fed(2), r) /\ Fed(2) \o r.toks = Hidden(Full, 0) /\ r.start = Len(Base)
      /\ r.op = "forward" /\ (Base = <<>> <=> Len(Base) = 0) /\ Len(Fed(2)) = Len(Base)
  BY StageIs
<1>2. /\ wire \in Wire /\ q \in Peer
  BY Route
<1>3. /\ S(2) = sess[q][wire] /\ C(2) = chained[q][wire] /\ (~S(2).open => C(2) = {})
      /\ S(2).open \in BOOLEAN
  BY <1>1, <1>2 DEF Held, S, C, Due, SessionOf
<1>4. \A l \in C(2) : l.key.start < Len(Base) \/ (l.out = Hidden(Full, 0) /\ RanStage(2))
  BY DEF Data, Saves, Active
<1>5. second = IF again # {}
               THEN [session |-> s, chained |-> C(2), status |-> 200, out |-> kept]
               ELSE [session |-> run.session,
                     chained |-> IF run.answer.status = 200 THEN {[key |-> r, out |-> run.answer.out]}
                                 ELSE C(2),
                     status |-> run.answer.status, out |-> run.answer.out]
  BY <1>3 DEF AtSecond
<1>6. s = IF r.start = 0 /\ ~S(2).open THEN empty ELSE S(2)
  BY <1>3 DEF OpenSession, Reply
<1>7. empty.open /\ empty \in SessionOf(T) /\ SettledSession(empty)
  BY DEF SessionOf, SettledSession
<1>8. ~S(2).open /\ r.start = 0 => Due(T, empty, Fed(2), r)
  <2> SUFFICES ASSUME ~S(2).open, r.start = 0 PROVE Due(T, empty, Fed(2), r)
    OBVIOUS
  <2>1. Fed(2) = <<>>
    <3>1. Fed(2) \in Seq(T)
      BY <1>1 DEF Due
    <3>2. Len(Fed(2)) = 0
      BY <1>1
    <3> QED BY <3>1, <3>2, Empty
  <2>2. Holds(empty, Fed(2), r.cut)
    BY <2>1 DEF Holds
  <2> HIDE DEF empty, r, T
  <2> QED BY <1>1, <1>7, <2>2 DEF Due
<1> HIDE DEF r, q, s, again, run, kept, second, T, empty
<1>9. CASE again # {}
  <2>1. /\ s.open /\ C(2) # {} /\ kept = Hidden(Full, 0) /\ RanStage(2)
    <3>1. (CHOOSE l \in again : TRUE) \in again
      BY <1>9
    <3>2. \A l \in again : l \in C(2) /\ s.open /\ l.key = r
      BY <1>3 DEF again
    <3>3. Len(Base) \in Nat
      BY BaseIs
    <3>4. \A l \in again : ~(l.key.start < Len(Base))
      BY <1>1, <3>2, <3>3
    <3> QED BY <1>4, <3>1, <3>2, <3>4 DEF kept
  <2>2. s = S(2)
    BY <1>3, <1>6, <2>1
  <2>3. SettledSession(S(2)) /\ Ran(S(2), Fed(2), Req(2))
    BY <1>1, <2>1 DEF Due, RanStage
  <2> QED BY <1>5, <1>9, <2>1, <2>2, <2>3 DEF second, q, r
<1>10. CASE again = {} /\ s.open
  <2>1. Due(T, s, Fed(2), r)
    BY <1>1, <1>6, <1>8, <1>3
  <2>2. Grown(T, run, Fed(2), r)
    BY <1>10, <2>1, Served DEF run
  <2>3. /\ run.answer.status = 200 /\ run.answer.out = Hidden(Full, 0)
        /\ SettledSession(run.session) /\ run.session.open /\ Ran(run.session, Fed(2), r)
    BY <1>1, <2>2 DEF Grown
  <2> QED BY <1>5, <1>10, <2>3 DEF second, q, r
<1>11. CASE ~s.open
  <2>1. s = S(2) /\ ~S(2).open /\ r.start # 0
    BY <1>6, <1>7, <1>11
  <2>2. run.session = s /\ run.answer.status = 404
    BY <1>1, <1>11 DEF run, Handle, ForwardSession, Reply
  <2>3. again = {}
    BY <1>11 DEF again
  <2> QED BY <1>1, <1>5, <2>1, <2>2, <2>3 DEF second, q, r
<1> QED BY <1>9, <1>10, <1>11

-----------------------------------------------------------------------------
\* Steps that leave the client where it is.

Still == UNCHANGED <<client, pc, why, body, left, textVars>>

\* What the peers were fed and are asked is the same.
LEMMA SameCall ==
  ASSUME Still
  PROVE  /\ Base' = Base /\ Full' = Full /\ Coming' = Coming /\ FedTo' = FedTo
         /\ \A k \in 1..2 : Fed(k)' = Fed(k) /\ Req(k)' = Req(k)
         /\ (Active' <=> Active) /\ (Stepping' <=> Stepping) /\ (Again' <=> Again)
<1>1. UNCHANGED <<hops, wire, hist, cut, pc, why, body, replayed, text>>
  BY DEF Still, client, textVars
<1>2. /\ Base' = Base /\ Coming' = Coming /\ FedTo' = FedTo
      /\ (Active' <=> Active) /\ (Stepping' <=> Stepping) /\ (Again' <=> Again)
  BY <1>1 DEF Base, FedTo, EndOf, Coming, Active, Stepping, Again
<1>3. Full' = Full
  BY <1>1, <1>2 DEF Full
<1>4. ASSUME NEW k \in 1..2 PROVE Fed(k)' = Fed(k) /\ Req(k)' = Req(k)
  BY <1>1, <1>2, <1>3 DEF Fed, Req
<1> QED BY <1>2, <1>3, <1>4

\* So is all that is said of the client.
LEMMA SamePlaces ==
  ASSUME Places, Calling, Still, up' \subseteq Peer, dead' \subseteq Peer, missed' \subseteq Peer,
         sends' \in 0..MaxSends, blame' \in 1..2
  PROVE  Places' /\ Calling'
<1>1. /\ UNCHANGED <<hops, wire, hist, cut, pc, why, body, replayed, text, checked, piece, fresh,
                     left, seen, outcome>>
  BY DEF Still, client, textVars
<1>2. /\ Base' = Base /\ (Stepping' <=> Stepping) /\ (Again' <=> Again)
  BY SameCall
<1>3. Places'
  BY <1>1, <1>2 DEF Places
<1>4. Calling'
  <2> HIDE DEF Base
  <2>1. body' = body /\ wire' = wire /\ hops' = hops /\ pc' = pc /\ why' = why /\ hist' = hist
        /\ replayed' = replayed /\ piece' = piece /\ Base' = Base
    BY <1>1, <1>2
  <2> QED BY <2>1 DEF Calling, Body
<1> QED BY <1>3, <1>4

\* A peer in up gets the session v and the saved replies c for the wire id w.
Put(p, w, v, c) ==
  /\ p \in up /\ p \in Peer /\ w \in Wire /\ w <= wire
  /\ v \in SessionOf(Position(p)) /\ c \subseteq SavedAt(p) /\ (~v.open => c = {})
  /\ sess' = [sess EXCEPT ![p][w] = v] /\ chained' = [chained EXCEPT ![p][w] = c]
  /\ up' = up /\ wire' = wire
Stored(p, w, v, c) ==
  /\ Held' /\ sess'[p][w] = v /\ chained'[p][w] = c
  /\ \A x \in Peer, y \in Wire : x # p \/ y # w =>
       sess'[x][y] = sess[x][y] /\ chained'[x][y] = chained[x][y]

\* What is stored is well formed and disturbs nothing else.
LEMMA PutStores ==
  ASSUME Held, Charged, NEW p, NEW w, NEW v, NEW c, Put(p, w, v, c)
  PROVE  Stored(p, w, v, c)
<1>1. /\ p \in up /\ p \in Peer /\ w \in Wire /\ w <= wire
      /\ v \in SessionOf(Position(p)) /\ c \subseteq SavedAt(p) /\ (~v.open => c = {})
      /\ sess' = [sess EXCEPT ![p][w] = v] /\ chained' = [chained EXCEPT ![p][w] = c]
      /\ up' = up /\ wire' = wire
  BY DEF Put
<1>2. sess \in [Peer -> [Wire -> AnySession]] /\ chained \in [Peer -> [Wire -> SUBSET AnySaved]]
  BY DEF Held
<1>3. v \in AnySession /\ c \in SUBSET AnySaved
  BY <1>1 DEF AnySession, AnySaved, SavedAt, Position
<1>4. /\ sess' \in [Peer -> [Wire -> AnySession]] /\ sess'[p][w] = v
      /\ \A x \in Peer, y \in Wire : x # p \/ y # w => sess'[x][y] = sess[x][y]
  BY <1>1, <1>2, <1>3
<1>5. /\ chained' \in [Peer -> [Wire -> SUBSET AnySaved]] /\ chained'[p][w] = c
      /\ \A x \in Peer, y \in Wire : x # p \/ y # w => chained'[x][y] = chained[x][y]
  BY <1>1, <1>2, <1>3
<1>6. ~(w > wire)
  BY <1>1 DEF Charged, Wire
<1>7. ASSUME NEW x \in Peer, NEW y \in Wire
      PROVE  /\ sess'[x][y] \in SessionOf(Position(x)) /\ chained'[x][y] \subseteq SavedAt(x)
             /\ ~sess'[x][y].open => chained'[x][y] = {}
             /\ x \notin up => ~sess'[x][y].open
             /\ y > wire => sess'[x][y] = NoSession /\ chained'[x][y] = {}
  <2>1. CASE x = p /\ y = w
    BY <1>1, <1>4, <1>5, <1>6, <2>1
  <2>2. CASE x # p \/ y # w
    BY <1>4, <1>5, <2>2 DEF Held
  <2> QED BY <2>1, <2>2
<1>8. Held'
  BY <1>1, <1>4, <1>5, <1>7 DEF Held, Position, SavedAt
<1> QED BY <1>4, <1>5, <1>8 DEF Stored

\* The handler that is waited for goes on, as k.
Goes(j, k) == /\ j \in job /\ k \in Job /\ k.body = j.body /\ Becomes(j, k)
              /\ UNCHANGED <<up, missed>>

\* It stays the one that is waited for.
LEMMA JobGoes ==
  ASSUME Jobs, Still, NEW j, NEW k, Goes(j, k)
  PROVE  Jobs' /\ job' = {k} /\ late' = late
<1>1. /\ j \in job /\ k \in Job /\ k.body = j.body /\ Becomes(j, k)
      /\ UNCHANGED <<up, missed, wire, pc, body>>
  BY DEF Goes, Still, client
<1>2. job' = {k} /\ late' = late
  BY <1>1 DEF Becomes
<1>3. Active' <=> Active
  BY SameCall
<1>4. /\ pc = "call" /\ j.body = body /\ j.body.wire <= wire /\ j.body.hops \in Routes
      /\ j.body.hops[1] \in up /\ j.body.req.op = "forward"
  BY <1>1 DEF Jobs
<1> QED BY <1>1, <1>2, <1>3, <1>4 DEF Jobs

\* Whatever is charged stays paid for.
LEMMA StillCharged ==
  ASSUME Places, Charged, Still, faults' \in 0..MaxFaults, faults' >= faults,
         up' # Peer => up # Peer \/ faults' > faults,
         \A k \in 1..2 : Active /\ Missing(k)' => Missing(k) \/ faults' > faults,
         \A k \in 1..2 : Stepping /\ Tired(k)' => wire <= faults',
         \A j \in job' : j.at = "done" => /\ j.status = 404 => Missing(1)'
                                          /\ j.status = 409 => Missing(2)',
         dead' \subseteq dead
  PROVE  Charged'
<1>1. /\ UNCHANGED <<wire, pc, why>> /\ (Active' <=> Active) /\ (Stepping' <=> Stepping)
  BY SameCall DEF Still, client
<1>2. /\ faults \in Nat /\ faults' \in Nat /\ wire \in Nat \ {0} /\ wire <= faults + 1
      /\ MaxFaults \in Nat
  BY ChainAssumption DEF Charged
<1>3. /\ faults' > faults => wire <= faults' /\ faults' > 0
      /\ wire <= faults => wire <= faults'
      /\ faults > 0 => faults' > 0
      /\ wire <= faults' + 1
  <2> DEFINE a == faults
             b == faults'
             n == wire
  <2>1. a \in Nat /\ b \in Nat /\ n \in Nat /\ a <= b /\ n <= a + 1
    BY <1>2
  <2> HIDE DEF a, b, n
  <2>2. /\ b > a => n <= b /\ b > 0
        /\ n <= a => n <= b
        /\ a > 0 => b > 0
        /\ n <= b + 1
    BY <2>1
  <2> QED BY <2>2 DEF a, b, n
<1>7. /\ up # Peer => faults > 0
      /\ pc = "leave" => wire <= faults
      /\ \A k \in 1..2 : Active /\ Missing(k) => wire <= faults
      /\ wire = 1 /\ pc \in {"idle", "call"} => dead = {}
  BY DEF Charged
<1>4. \A k \in 1..2 : Active /\ Missing(k)' => wire <= faults'
  BY <1>3, <1>7
<1>5. up' # Peer => faults' > 0
  BY <1>3, <1>7
<1>6. wire <= faults' + 1 /\ (pc = "leave" => wire <= faults')
  BY <1>3, <1>7
<1> HIDE DEF Active, Stepping, Missing, Tired
<1> QED BY <1>1, <1>2, <1>4, <1>5, <1>6, <1>7 DEF Charged

\* What a handler becomes.
Statuses == {0, 200, 404, 409, 500, 502}
Waits(j) == [j EXCEPT !.at = "waiting"]
Sends(j, h) == [j EXCEPT !.at = "onward", !.hidden = h]
IsWaiting(j, k) == k \in Job /\ k.at = "waiting" /\ k.body = j.body /\ k.status = j.status
IsOnward(j, h, k) ==
  k \in Job /\ k.at = "onward" /\ k.body = j.body /\ k.status = j.status /\ k.hidden = h
IsDone(j, status, out, k) ==
  k \in Job /\ k.at = "done" /\ k.body = j.body /\ k.status = status /\ k.out = out

\* It stays the handler of its request.
LEMMA Outcomes ==
  ASSUME NEW j \in Job
  PROVE  /\ IsWaiting(j, Waits(j))
         /\ \A h : h \in Seq(Seq(Token)) => IsOnward(j, h, Sends(j, h))
         /\ \A status, out : status \in Statuses /\ out \in Seq(Seq(Token)) =>
              IsDone(j, status, out, Done(j, status, out))
<1>1. /\ j = [body |-> j.body, at |-> j.at, hidden |-> j.hidden, status |-> j.status, out |-> j.out]
      /\ j.body \in [wire : Wire, hops : Seq(Peer), req : Request]
      /\ j.at \in {"new", "waiting", "onward", "done"} /\ j.hidden \in Seq(Seq(Token))
      /\ j.status \in Statuses /\ j.out \in Seq(Seq(Token))
  BY DEF Job, Statuses
<1>2. IsWaiting(j, Waits(j))
  BY <1>1 DEF Job, IsWaiting, Waits, Statuses
<1>3. ASSUME NEW h, h \in Seq(Seq(Token)) PROVE IsOnward(j, h, Sends(j, h))
  BY <1>1, <1>3 DEF Job, IsOnward, Sends, Statuses
<1>4. ASSUME NEW status, NEW out, status \in Statuses /\ out \in Seq(Seq(Token))
      PROVE  IsDone(j, status, out, Done(j, status, out))
  <2> DEFINE k == [body |-> j.body, at |-> "done", hidden |-> j.hidden, status |-> status, out |-> out]
  <2> DEFINE a == [j EXCEPT !.at = "done"]
             b == [a EXCEPT !.status = status]
  <2>0. a = [body |-> j.body, at |-> "done", hidden |-> j.hidden, status |-> j.status, out |-> j.out]
    BY <1>1
  <2> HIDE DEF a
  <2>4. b = [body |-> j.body, at |-> "done", hidden |-> j.hidden, status |-> status, out |-> j.out]
    BY <2>0
  <2> HIDE DEF b
  <2>5. [b EXCEPT !.out = out] = k
    BY <2>4
  <2>1. Done(j, status, out) = k
    BY <2>5 DEF Done, a, b
  <2>2. k \in Job /\ k.at = "done" /\ k.body = j.body /\ k.status = status /\ k.out = out
    BY <1>1, <1>4 DEF Job, Statuses
  <2> QED BY <2>1, <2>2 DEF IsDone
<1> QED BY <1>2, <1>3, <1>4

\* No peer in use is missed or blamed that was not before, or is not down.
Calm == Active =>
  /\ \A k \in 1..2 : /\ Missing(k)' => Missing(k)
                     /\ Tired(k)' => Tired(k) \/ hops[k] \notin up
  /\ (\E j \in job' : j.at = "done" /\ j.status = 409) =>
       \/ \E j \in job : j.at = "done" /\ j.status = 409
       \/ Missing(2) /\ ToSet(hops) \subseteq up

\* A first piece opens the session; any other needs it open.
LEMMA ArriveStep ==
  ASSUME IInv, NEW j \in job \cup late, Arrive(j)
  PROVE  IInv' /\ Calm
<1> DEFINE p == j.body.hops[1]
           w == j.body.wire
           v == OpenSession(sess[p][w]).session
           c == chained[p][w]
           waits == [j EXCEPT !.at = "waiting"]
           lost == Done(j, 404, <<>>)
<1>1. /\ Held /\ Places /\ Calling /\ Data /\ Jobs /\ Working /\ Orphans /\ Charged
  BY DEF IInv
<1>2. /\ j.at = "new" /\ Still
      /\ UNCHANGED <<chained, up, dead, hops, wire, pc, why, body, sends, blame, faults, missed>>
  BY DEF Arrive, Still, client, callVars
<1>3. /\ j \in job /\ j \in Job /\ pc = "call" /\ j.body = body
      /\ \A x \in job : x = j
  BY <1>1, <1>2 DEF Jobs
<1>4. /\ body.wire = wire /\ body.hops = hops /\ body.req.start = Len(Base)
      /\ body.req.op = "forward"
  BY <1>1, <1>3, CallIs
<1>5. /\ wire \in Wire /\ wire \in Nat /\ hops[1] \in Peer /\ hops[2] \in Peer /\ hops[1] # hops[2]
      /\ Position(hops[1]) = Token /\ p = hops[1] /\ w = wire /\ p \in up
  BY <1>1, <1>3, <1>4, Route DEF Jobs
<1>6. /\ sess[p][w] = S(1) /\ S(1) \in SessionOf(Token) /\ SettledSession(S(1))
      /\ c = C(1) /\ c \subseteq SavedAt(p) /\ (~S(1).open => c = {})
  BY <1>1, <1>3, <1>5 DEF Held, S, C, Data, Active, InStep
<1>7. /\ v \in SessionOf(Token) /\ SettledSession(v) /\ v.open
      /\ v = IF S(1).open THEN S(1) ELSE [open |-> TRUE, kv |-> <<>>, last |-> {}]
  BY <1>6 DEF OpenSession, Reply, SessionOf, SettledSession
<1>8. /\ Base' = Base /\ Full' = Full /\ Coming' = Coming
      /\ \A k \in 1..2 : Fed(k)' = Fed(k) /\ Req(k)' = Req(k)
      /\ hops' = hops /\ wire' = wire /\ pc' = pc /\ body' = body /\ why' = why
  BY <1>2, SameCall
<1>9. Places' /\ Calling'
  BY <1>1, <1>2, SamePlaces DEF Places
<1>10. Base = <<>> <=> Len(Base) = 0
  BY <1>1, BaseIs, Empty
<1>11. j.status = 0
  BY <1>1, <1>2, <1>3 DEF Working
<1>12. /\ waits \in Job /\ waits.at = "waiting" /\ waits.body = j.body /\ waits.status = 0
       /\ lost \in Job /\ lost.at = "done" /\ lost.body = j.body /\ lost.status = 404
  <2>1. <<>> \in Seq(Seq(Token))
    OBVIOUS
  <2> HIDE DEF lost, waits
  <2>2. IsWaiting(j, Waits(j))
    BY <1>3, Outcomes
  <2>3. IsDone(j, 404, <<>>, Done(j, 404, <<>>))
    <3>1. 404 \in Statuses
      BY DEF Statuses
    <3> QED BY <1>3, <2>1, <3>1, Outcomes
  <2> QED BY <1>11, <2>2, <2>3 DEF IsWaiting, IsDone, lost, waits, Waits
<1>13. CASE S(1).open \/ j.body.req.start = 0
  <2>1. sess' = [sess EXCEPT ![p][w] = v] /\ Becomes(j, waits)
    BY <1>6, <1>13 DEF Arrive
  <2>2. Put(p, w, v, c)
    <3>1. chained' = [chained EXCEPT ![p][w] = c]
      BY <1>1, <1>2 DEF Held
    <3>2. /\ p \in up /\ p \in Peer /\ w \in Wire /\ w <= wire
          /\ v \in SessionOf(Position(p)) /\ c \subseteq SavedAt(p) /\ (~v.open => c = {})
          /\ up' = up /\ wire' = wire
      <4> HIDE DEF p, w, v, c
      <4> QED BY <1>2, <1>5, <1>6, <1>7, <1>8
    <3> QED BY <2>1, <3>1, <3>2 DEF Put
  <2> HIDE DEF v, c, waits
  <2>3. Stored(p, w, v, c)
    BY <1>1, <2>2, PutStores
  <2>4. /\ Held' /\ S(1)' = v /\ S(2)' = S(2) /\ C(1)' = C(1) /\ C(2)' = C(2)
        /\ \A x \in Peer, y \in Wire : x # p \/ y # w => sess'[x][y] = sess[x][y]
    BY <1>5, <1>6, <1>8, <2>3 DEF Stored, S, C
  <2>5. Jobs' /\ job' = {waits} /\ late' = late
    <3>1. Goes(j, waits)
      BY <1>2, <1>3, <1>12, <2>1 DEF Goes
    <3> QED BY <1>1, <1>2, <3>1, JobGoes
  <2>6. S(1).open \/ Base = <<>>
    BY <1>3, <1>4, <1>10, <1>13
  <2>7. Data'
    <3>1. InStep(1)'
      <4>1. Holds(v, Fed(1), Coming) \/ (pc = "call" /\ Ran(v, Fed(1), Req(1)))
        <5>1. CASE S(1).open
          BY <1>1, <1>3, <1>7, <5>1 DEF Data, Active, InStep, RanStage
        <5>2. CASE Base = <<>>
          BY <5>2 DEF Fed, Holds
        <5> QED BY <2>6, <5>1, <5>2
      <4>2. /\ S(1)' = v /\ Fed(1)' = Fed(1) /\ Req(1)' = Req(1) /\ Coming' = Coming /\ pc' = pc
            /\ SettledSession(v)
        BY <1>7, <1>8, <2>4
      <4> QED BY <4>1, <4>2 DEF InStep, RanStage
    <3>2. InStep(2)'
      BY <1>1, <1>3, <1>8, <2>4 DEF Data, Active, InStep, RanStage
    <3>3. Saves(1)'
      <4>1. CASE S(1).open
        <5>1. S(1)' = S(1)
          BY <1>7, <2>4, <4>1
        <5> QED BY <1>1, <1>3, <1>8, <2>4, <5>1 DEF Data, Active, Saves, RanStage
      <4>2. CASE ~S(1).open
        <5>1. C(1)' = {}
          BY <1>6, <2>4, <4>2
        <5> QED BY <5>1 DEF Saves
      <4> QED BY <4>1, <4>2
    <3>4. Saves(2)'
      BY <1>1, <1>3, <1>8, <2>4 DEF Data, Active, Saves, RanStage
    <3> QED BY <3>1, <3>2, <3>3, <3>4 DEF Data
  <2>8. Working'
    <3>1. \A m \in late : m.body.wire = wire /\ m.at = "onward" =>
            m.hidden = Req(2).toks /\ RanStage(1) /\ S(1).open
      BY <1>1, <1>3 DEF Working
    <3>2. (\E m \in late : m.body.wire = wire) => S(1).open /\ S(1)' = S(1)
      <4>1. \A m \in late : m.at = "onward"
        BY <1>1 DEF Jobs
      <4> QED BY <1>7, <2>4, <3>1, <4>1
    <3>3. S(1)'.open
      BY <1>7, <2>4
    <3> QED BY <1>8, <1>12, <2>4, <2>5, <3>1, <3>2, <3>3 DEF Working, RanStage
  <2>9. Orphans'
    <3>1. left' = left
      BY <1>2 DEF Still
    <3> QED BY <1>1, <1>2, <1>3, <1>5, <1>8, <2>4, <3>1 DEF Orphans
  <2>10. Charged'
    <3>1. \A k \in 1..2 : (Missing(k)' => Missing(k)) /\ ~Tired(k)'
      BY <1>7, <1>8, <1>12, <2>4, <2>5 DEF Missing, Tired
    <3>2. faults' = faults /\ up' = up /\ dead' = dead /\ faults \in 0..MaxFaults
      BY <1>1, <1>2 DEF Charged
    <3> QED BY <1>1, <1>2, <1>12, <2>5, <3>1, <3>2, StillCharged
  <2>11. Calm
    <3>1. \A k \in 1..2 : (Missing(k)' => Missing(k)) /\ ~Tired(k)'
      BY <1>7, <1>8, <1>12, <2>4, <2>5 DEF Missing, Tired
    <3>2. \A x \in job' : x.at # "done"
      BY <1>12, <2>5
    <3> QED BY <3>1, <3>2 DEF Calm
  <2> QED BY <1>9, <2>4, <2>5, <2>7, <2>8, <2>9, <2>10, <2>11 DEF IInv
<1>14. CASE ~S(1).open /\ j.body.req.start # 0
  <2>1. sess' = sess /\ Becomes(j, lost)
    BY <1>6, <1>14 DEF Arrive
  <2> HIDE DEF v, c, lost, waits
  <2>2. /\ \A k \in 1..2 : S(k)' = S(k) /\ C(k)' = C(k)
    BY <1>2, <1>8, <2>1 DEF S, C
  <2>3. Held'
    BY <1>1, <1>2, <1>8, <2>1 DEF Held, Position, SavedAt
  <2>4. Jobs' /\ job' = {lost} /\ late' = late
    <3>1. Goes(j, lost)
      BY <1>2, <1>3, <1>12, <2>1 DEF Goes
    <3> QED BY <1>1, <1>2, <3>1, JobGoes
  <2>5. Data'
    BY <1>1, <1>3, <1>8, <2>2 DEF Data, Active, InStep, Saves, RanStage
  <2>6. Working'
    BY <1>1, <1>3, <1>8, <1>12, <2>2, <2>4 DEF Working, RanStage
  <2>7. Orphans'
    <3>1. left' = left
      BY <1>2 DEF Still
    <3> QED BY <1>1, <1>2, <1>8, <2>1, <3>1 DEF Orphans
  <2>8. Charged'
    <3>1. \A k \in 1..2 : (Missing(k)' <=> Missing(k)) /\ ~Tired(k)'
      BY <1>8, <1>12, <2>2, <2>4 DEF Missing, Tired
    <3>2. Missing(1)
      BY <1>3, <1>4, <1>10, <1>14 DEF Missing
    <3>3. faults' = faults /\ up' = up /\ dead' = dead /\ faults \in 0..MaxFaults
      BY <1>1, <1>2 DEF Charged
    <3> QED BY <1>1, <1>2, <1>12, <2>4, <3>1, <3>2, <3>3, StillCharged
  <2>9. Calm
    <3>1. \A k \in 1..2 : (Missing(k)' => Missing(k)) /\ ~Tired(k)'
      BY <1>8, <1>12, <2>2, <2>4 DEF Missing, Tired
    <3>2. \A x \in job' : x.status # 409
      BY <1>12, <2>4
    <3> QED BY <3>1, <3>2 DEF Calm
  <2> QED BY <1>9, <2>3, <2>4, <2>5, <2>6, <2>7, <2>8, <2>9 DEF IInv
<1> QED BY <1>13, <1>14

\* The handler that is waited for is of the client's call.
LEMMA Waited ==
  ASSUME Held, Places, Charged, Calling, Data, Jobs, NEW j \in job
  PROVE  /\ j \in Job /\ pc = "call" /\ j.body = body /\ \A x \in job : x = j
         /\ j.body.hops[1] = hops[1] /\ j.body.hops[2] = hops[2] /\ j.body.wire = wire
         /\ hops[1] \in up /\ hops[1] \in Peer /\ hops[2] \in Peer /\ hops[1] # hops[2]
         /\ Position(hops[1]) = Token /\ Position(hops[2]) = Seq(Token)
         /\ wire \in Wire /\ wire \in Nat
         /\ sess[hops[1]][wire] = S(1) /\ sess[hops[2]][wire] = S(2)
         /\ chained[hops[1]][wire] = C(1) /\ chained[hops[2]][wire] = C(2)
         /\ S(1) \in SessionOf(Token) /\ SettledSession(S(1))
         /\ C(1) \subseteq SavedAt(hops[1]) /\ (~S(1).open => C(1) = {})
         /\ S(2) \in SessionOf(Seq(Token)) /\ SettledSession(S(2))
         /\ C(2) \subseteq SavedAt(hops[2]) /\ (~S(2).open => C(2) = {})
<1>1. /\ j \in Job /\ pc = "call" /\ j.body = body /\ j.body.hops[1] \in up
      /\ \A x \in job : x = j
  BY DEF Jobs
<1>2. body.wire = wire /\ body.hops = hops
  BY <1>1, CallIs
<1>3. /\ hops[1] \in Peer /\ hops[2] \in Peer /\ hops[1] # hops[2] /\ wire \in Wire /\ wire \in Nat
      /\ Position(hops[1]) = Token /\ Position(hops[2]) = Seq(Token)
  BY Route
<1>4. /\ S(1) \in SessionOf(Token) /\ C(1) \subseteq SavedAt(hops[1]) /\ (~S(1).open => C(1) = {})
      /\ S(2) \in SessionOf(Seq(Token)) /\ C(2) \subseteq SavedAt(hops[2])
      /\ (~S(2).open => C(2) = {})
  BY <1>3 DEF Held, S, C
<1>5. SettledSession(S(1)) /\ SettledSession(S(2))
  BY <1>1 DEF Data, Active, InStep
<1>6. /\ sess[hops[1]][wire] = S(1) /\ sess[hops[2]][wire] = S(2)
      /\ chained[hops[1]][wire] = C(1) /\ chained[hops[2]][wire] = C(2)
  BY DEF S, C
<1> QED BY <1>1, <1>2, <1>3, <1>4, <1>5, <1>6

\* With the lock the local layers are run, once: the piece follows what they have.
LEMMA EnterStep ==
  ASSUME IInv, NEW j \in job \cup late, Enter(j)
  PROVE  IInv' /\ Calm
<1> DEFINE p == hops[1]
           again == {l \in C(1) : l.key = body.req}
           run == Handle(S(1), body.req)
           v == run.session
           c == C(1)
           h == Hidden(run.answer.out, body.req.start)
           kept == (CHOOSE l \in again : TRUE).out
<1>1. /\ Held /\ Places /\ Calling /\ Data /\ Jobs /\ Working /\ Orphans /\ Charged
  BY DEF IInv
<1>2. /\ j.at = "waiting" /\ Still
      /\ UNCHANGED <<chained, up, dead, hops, wire, pc, why, body, sends, blame, left, faults, missed>>
  BY DEF Enter, Still, client, callVars
<1>3. j \in job
  BY <1>1, <1>2 DEF Jobs
<1>4. /\ j \in Job /\ pc = "call" /\ j.body = body /\ \A x \in job : x = j
      /\ j.body.hops[1] = p /\ j.body.wire = wire
      /\ p \in up /\ p \in Peer /\ hops[2] \in Peer /\ hops[1] # hops[2] /\ Position(p) = Token
      /\ wire \in Wire /\ wire \in Nat
      /\ sess[p][wire] = S(1) /\ chained[p][wire] = c
      /\ S(1) \in SessionOf(Token) /\ c \subseteq SavedAt(p)
  BY <1>1, <1>3, Waited
<1>5. /\ S(1).open /\ j.status = 0
  BY <1>1, <1>2, <1>3, <1>4 DEF Working
<1>6. \A m \in late : m.body.wire # wire
  <2> SUFFICES ASSUME NEW m \in late, m.body.wire = wire PROVE FALSE
    OBVIOUS
  <2>1. m.at = "onward" /\ m.body = body
    BY <1>1, <1>4 DEF Jobs, Active
  <2> QED BY <1>4, <2>1 DEF Enter
<1>7. /\ Base' = Base /\ Full' = Full /\ Coming' = Coming
      /\ \A k \in 1..2 : Fed(k)' = Fed(k) /\ Req(k)' = Req(k)
  BY <1>2, SameCall
<1>8. Places' /\ Calling'
  BY <1>1, <1>2, SamePlaces DEF Places
<1>9. /\ Req(1) = body.req /\ Fed(1) = Base /\ Req(2).toks = Hidden(Full, Len(Base))
      /\ Due(Token, S(1), Base, body.req) /\ Full = Base \o body.req.toks
      /\ Req(2) \in RequestOf(Seq(Token))
  BY <1>1, <1>4, StageIs
<1>10. body.req.start = Len(Base) /\ Len(Base) \in Nat /\ Full \in Seq(Token)
  BY <1>1, <1>4, CallIs
<1>11. \A l \in C(1) : \/ l.key.start < Len(Base)
                       \/ l.key = body.req /\ l.out = Hidden(Full, 0) /\ RanStage(2) /\ RanStage(1)
  BY <1>1, <1>4, <1>9 DEF Data, Active, Saves
<1>12. CASE again # {}
  <2> DEFINE done == Done(j, 200, kept)
  <2>1. sess' = sess /\ Becomes(j, done)
    BY <1>4, <1>12 DEF Enter
  <2>2. kept = Hidden(Full, 0) /\ C(1) # {} /\ RanStage(1) /\ RanStage(2)
    <3>1. (CHOOSE l \in again : TRUE) \in again
      BY <1>12
    <3>2. \A l \in again : l \in C(1) /\ ~(l.key.start < Len(Base))
      BY <1>10
    <3> HIDE DEF again
    <3> QED BY <1>11, <3>1, <3>2
  <2> HIDE DEF again, run, v, c, h, kept
  <2>3. IsDone(j, 200, kept, done)
    <3>1. 200 \in Statuses
      BY DEF Statuses
    <3>2. Hidden(Full, 0) \in Seq(Seq(Token))
      BY <1>10, HiddenIs, 0 \in 0..Len(Full)
    <3> QED BY <1>4, <2>2, <3>1, <3>2, Outcomes
  <2> HIDE DEF done
  <2>4. /\ done \in Job /\ done.at = "done" /\ done.body = j.body /\ done.status = 200
        /\ done.out = Hidden(Full, 0)
    BY <2>2, <2>3 DEF IsDone
  <2>5. \A k \in 1..2 : S(k)' = S(k) /\ C(k)' = C(k)
    BY <1>2, <2>1 DEF S, C
  <2>6. Held'
    BY <1>1, <1>2, <2>1 DEF Held, Position, SavedAt
  <2>7. Jobs' /\ job' = {done} /\ late' = late
    <3>1. Goes(j, done)
      BY <1>2, <1>3, <2>1, <2>4 DEF Goes
    <3> QED BY <1>1, <1>2, <3>1, JobGoes
  <2>8. Data'
    BY <1>1, <1>2, <1>4, <1>7, <2>5 DEF Data, Active, InStep, Saves, RanStage
  <2>9. Working'
    BY <1>2, <1>6, <1>7, <2>2, <2>4, <2>5, <2>7 DEF Working, RanStage
  <2>10. Orphans'
    BY <1>1, <1>2, <2>1 DEF Orphans
  <2>11. Charged'
    <3>1. \A k \in 1..2 : (Missing(k)' <=> Missing(k)) /\ ~Tired(k)'
      BY <1>7, <2>4, <2>5, <2>7 DEF Missing, Tired
    <3>2. faults' = faults /\ up' = up /\ dead' = dead /\ faults \in 0..MaxFaults
      BY <1>1, <1>2 DEF Charged
    <3> QED BY <1>1, <1>2, <2>4, <2>7, <3>1, <3>2, StillCharged
  <2>12. Calm
    <3>1. \A k \in 1..2 : (Missing(k)' => Missing(k)) /\ ~Tired(k)'
      BY <1>7, <2>4, <2>5, <2>7 DEF Missing, Tired
    <3>2. \A x \in job' : x.status # 409
      BY <2>4, <2>7
    <3> QED BY <3>1, <3>2 DEF Calm
  <2> QED BY <1>8, <2>6, <2>7, <2>8, <2>9, <2>10, <2>11, <2>12 DEF IInv
<1>13. CASE again = {}
  <2> DEFINE sent == Sends(j, h)
  <2>1. Grown(Token, run, Base, body.req)
    BY <1>5, <1>9, Served
  <2>2. /\ run.answer = [status |-> 200, out |-> Full] /\ v \in SessionOf(Token)
        /\ SettledSession(v) /\ Ran(v, Base, body.req) /\ v.open
    BY <1>9, <2>1 DEF Grown
  <2>3. h = Req(2).toks
    <3>1. run.answer.out = Full /\ body.req.start = Len(Base)
      BY <1>10, <2>2
    <3> HIDE DEF run
    <3> QED BY <1>9, <3>1
  <2>4. sess' = [sess EXCEPT ![p][wire] = v] /\ Becomes(j, sent)
    BY <1>4, <1>13, <2>2 DEF Enter, Sends
  <2> HIDE DEF run, v, c, h
  <2>5. IsOnward(j, h, sent)
    <3>1. h \in Seq(Seq(Token))
      BY <1>9, <2>3 DEF RequestOf
    <3> QED BY <1>4, <3>1, Outcomes
  <2> HIDE DEF sent
  <2>6. /\ sent \in Job /\ sent.at = "onward" /\ sent.body = j.body /\ sent.status = 0
        /\ sent.hidden = Req(2).toks
    BY <1>5, <2>3, <2>5 DEF IsOnward
  <2>7. Stored(p, wire, v, c)
    <3>1. chained' = [chained EXCEPT ![p][wire] = c]
      BY <1>1, <1>2, <1>4 DEF Held
    <3>2. Put(p, wire, v, c)
      <4>1. /\ p \in up /\ p \in Peer /\ wire \in Wire /\ wire <= wire
            /\ v \in SessionOf(Position(p)) /\ c \subseteq SavedAt(p) /\ (~v.open => c = {})
            /\ up' = up /\ wire' = wire
        BY <1>2, <1>4, <2>2
      <4> QED BY <2>4, <3>1, <4>1 DEF Put
    <3> QED BY <1>1, <3>2, PutStores
  <2>8. /\ Held' /\ S(1)' = v /\ S(2)' = S(2) /\ C(1)' = C(1) /\ C(2)' = C(2)
        /\ \A x \in Peer, y \in Wire : x # p \/ y # wire => sess'[x][y] = sess[x][y]
    BY <1>2, <1>4, <2>7 DEF Stored, S, C, c
  <2>9. Jobs' /\ job' = {sent} /\ late' = late
    <3>1. Goes(j, sent)
      BY <1>2, <1>3, <2>4, <2>6 DEF Goes
    <3> QED BY <1>1, <1>2, <3>1, JobGoes
  <2>10. Data'
    <3>1. InStep(1)' /\ RanStage(1)'
      <4>1. /\ S(1)' = v /\ Fed(1)' = Base /\ Req(1)' = body.req /\ pc' = "call"
        BY <1>2, <1>4, <1>7, <1>9, <2>8
      <4> QED BY <2>2, <4>1 DEF InStep, RanStage
    <3>2. InStep(2)'
      BY <1>1, <1>2, <1>4, <1>7, <2>8 DEF Data, Active, InStep, RanStage
    <3>3. Saves(1)'
      <4>1. \A l \in C(1) : l.key.start < Len(Base)
        BY <1>11, <1>13
      <4> QED BY <1>7, <2>8, <4>1 DEF Saves
    <3>4. Saves(2)'
      BY <1>1, <1>2, <1>4, <1>7, <2>8 DEF Data, Active, Saves, RanStage
    <3> QED BY <3>1, <3>2, <3>3, <3>4 DEF Data
  <2>11. Working'
    <3>1. S(1)'.open /\ RanStage(1)'
      BY <1>7, <1>9, <2>2, <2>8 DEF RanStage
    <3> QED BY <1>2, <1>6, <1>7, <2>6, <2>9, <3>1 DEF Working
  <2>12. Orphans'
    BY <1>1, <1>2, <1>4, <2>8 DEF Orphans
  <2>13. Charged'
    <3>1. \A k \in 1..2 : (Missing(k)' => Missing(k)) /\ ~Tired(k)'
      BY <1>5, <1>7, <2>2, <2>6, <2>8, <2>9 DEF Missing, Tired
    <3>2. faults' = faults /\ up' = up /\ dead' = dead /\ faults \in 0..MaxFaults
      BY <1>1, <1>2 DEF Charged
    <3> QED BY <1>1, <1>2, <2>6, <2>9, <3>1, <3>2, StillCharged
  <2>14. Calm
    <3>1. \A k \in 1..2 : (Missing(k)' => Missing(k)) /\ ~Tired(k)'
      BY <1>5, <1>7, <2>2, <2>6, <2>8, <2>9 DEF Missing, Tired
    <3>2. \A x \in job' : x.at # "done"
      BY <2>6, <2>9
    <3> QED BY <3>1, <3>2 DEF Calm
  <2> QED BY <1>8, <2>8, <2>9, <2>10, <2>11, <2>12, <2>13, <2>14 DEF IInv
<1> QED BY <1>12, <1>13

\* What the second peer is asked by a handler of the first.
Passed(j) == [j.body.req EXCEPT !.toks = j.hidden]

\* A call to the second peer changes nothing but its session, and the saved replies of both.
OnwardKeeps(p, q, w) ==
  /\ Held'
  /\ \A x \in Peer, y \in Wire : x # q \/ y # w => sess'[x][y] = sess[x][y]
  /\ \A x \in Peer, y \in Wire : x \notin {p, q} \/ y # w => chained'[x][y] = chained[x][y]
OnwardRan(p, q, w, second) ==
  sess'[q][w] = second.session /\ chained'[q][w] = second.chained
OnwardOutcome(j, p, q, w, second) ==
  \/ /\ q \in up /\ second.status = 200 /\ OnwardRan(p, q, w, second)
     /\ chained'[p][w] = IF sess[p][w].open THEN {[key |-> j.body.req, out |-> second.out]}
                         ELSE chained[p][w]
     /\ Becomes(j, Done(j, 200, second.out)) /\ faults' = faults
  \/ /\ q \in up /\ second.status # 200 /\ OnwardRan(p, q, w, second)
     /\ chained'[p][w] = chained[p][w] /\ faults' = faults
     /\ Becomes(j, Done(j, IF second.status = 404 THEN 409 ELSE 502, <<>>))
  \/ /\ Becomes(j, Done(j, 502, <<>>)) /\ chained'[p][w] = chained[p][w]
     /\ IF q \in up THEN Fault /\ (OnwardRan(p, q, w, second) \/ UNCHANGED peers)
                    ELSE UNCHANGED <<faults, peers>>

\* What is left of it at the peers, whatever call the handler is of.
LEMMA OnwardEffect ==
  ASSUME Held, Jobs, Charged, NEW j \in job \cup late, Onward(j)
  PROVE  LET p == j.body.hops[1]
             q == j.body.hops[2]
             w == j.body.wire
             second == AtSecond(q, w, Passed(j))
         IN /\ j \in Job /\ p \in Peer /\ q \in Peer /\ p # q /\ w \in Wire /\ p \in up
            /\ second.status = 200 => second.out \in Seq(Seq(Token))
            /\ OnwardKeeps(p, q, w) /\ OnwardOutcome(j, p, q, w, second)
<1> DEFINE p == j.body.hops[1]
           q == j.body.hops[2]
           w == j.body.wire
           second == AtSecond(q, w, Passed(j))
           v == second.session
           c == second.chained
           saved == [key |-> j.body.req, out |-> second.out]
           x1 == IF sess[p][w].open THEN {saved} ELSE chained[p][w]
<1>1. /\ j \in Job /\ j.body.hops \in Routes /\ p \in up /\ w \in Wire /\ w <= wire
      /\ j.body.req \in Request /\ j.body.req.op = "forward" /\ j.hidden \in Seq(Seq(Token))
  BY DEF Jobs, Job
<1>2. /\ p \in Peer /\ q \in Peer /\ p # q /\ Position(p) = Token /\ Position(q) = Seq(Token)
  BY <1>1, RouteRoles
<1>3. Passed(j) \in RequestOf(Seq(Token)) /\ Passed(j).op = "forward"
  BY <1>1 DEF Passed, Request, RequestOf
<1>4. /\ v \in SessionOf(Seq(Token)) /\ c \subseteq SavedAt(q)
      /\ second.status \in {200, 404, 500} /\ second.out \in Seq(Seq(Token))
      /\ ~v.open => c = {}
  BY <1>1, <1>2, <1>3, SecondTypes
<1>5. /\ UNCHANGED <<up, wire>>
      /\ \/ /\ q \in up /\ second.status = 200
            /\ sess' = [sess EXCEPT ![q][w] = v]
            /\ chained' = [chained EXCEPT ![q][w] = c, ![p][w] = IF sess[p][w].open THEN {saved} ELSE @]
            /\ Becomes(j, Done(j, 200, second.out))
            /\ UNCHANGED faults
         \/ /\ q \in up /\ second.status # 200
            /\ sess' = [sess EXCEPT ![q][w] = v] /\ chained' = [chained EXCEPT ![q][w] = c]
            /\ UNCHANGED faults
            /\ Becomes(j, Done(j, IF second.status = 404 THEN 409 ELSE 502, <<>>))
         \/ /\ IF q \in up
               THEN Fault /\ (\/ /\ sess' = [sess EXCEPT ![q][w] = v]
                                 /\ chained' = [chained EXCEPT ![q][w] = c]
                              \/ UNCHANGED peers)
               ELSE UNCHANGED <<faults, peers>>
            /\ Becomes(j, Done(j, 502, <<>>))
  BY DEF Onward, Passed, client
<1> HIDE DEF v, c, second, p, q, w
<1>6. ASSUME q \in up, sess' = [sess EXCEPT ![q][w] = v], chained' = [chained EXCEPT ![q][w] = c]
      PROVE  /\ OnwardKeeps(p, q, w) /\ OnwardRan(p, q, w, second)
             /\ chained'[p][w] = chained[p][w]
  <2>1. Put(q, w, v, c)
    BY <1>1, <1>2, <1>4, <1>5, <1>6 DEF Put
  <2>2. Stored(q, w, v, c)
    BY <2>1, PutStores
  <2> QED BY <1>1, <1>2, <2>2 DEF Stored, OnwardKeeps, OnwardRan, v, c
<1>7. ASSUME UNCHANGED peers
      PROVE  OnwardKeeps(p, q, w) /\ chained'[p][w] = chained[p][w]
  BY <1>5, <1>7 DEF peers, OnwardKeeps, Held, Position, SavedAt
<1>8. ASSUME q \in up, sess' = [sess EXCEPT ![q][w] = v],
             chained' = [chained EXCEPT ![q][w] = c, ![p][w] = IF sess[p][w].open THEN {saved} ELSE @]
      PROVE  OnwardKeeps(p, q, w) /\ OnwardRan(p, q, w, second) /\ chained'[p][w] = x1
  <2>1. sess \in [Peer -> [Wire -> AnySession]] /\ chained \in [Peer -> [Wire -> SUBSET AnySaved]]
    BY DEF Held
  <2>2. saved \in SavedAt(p)
    BY <1>1, <1>2, <1>4 DEF SavedAt, Request, RequestOf
  <2>3. x1 \subseteq SavedAt(p) /\ (~sess[p][w].open => x1 = {})
    BY <1>1, <1>2, <2>2 DEF Held
  <2>4. v \in AnySession /\ c \in SUBSET AnySaved /\ x1 \in SUBSET AnySaved
    <3>1. SavedAt(p) \subseteq AnySaved /\ SavedAt(q) \subseteq AnySaved
      BY <1>2 DEF AnySaved, SavedAt
    <3>2. v \in AnySession
      BY <1>4 DEF AnySession
    <3> HIDE DEF x1
    <3> QED BY <1>4, <2>3, <3>1, <3>2
  <2> DEFINE mid == [chained EXCEPT ![q][w] = c]
  <2>5. /\ mid \in [Peer -> [Wire -> SUBSET AnySaved]] /\ mid[q][w] = c
        /\ \A x \in Peer, y \in Wire : x # q \/ y # w => mid[x][y] = chained[x][y]
    BY <1>1, <1>2, <2>1, <2>4
  <2>6. chained' = [mid EXCEPT ![p][w] = x1]
    BY <1>8
  <2> HIDE DEF mid, x1
  <2>7. /\ chained' \in [Peer -> [Wire -> SUBSET AnySaved]] /\ chained'[p][w] = x1
        /\ \A x \in Peer, y \in Wire : x # p \/ y # w => chained'[x][y] = mid[x][y]
    BY <1>1, <1>2, <2>4, <2>5, <2>6
  <2>8. /\ chained'[q][w] = c
        /\ \A x \in Peer, y \in Wire : x \notin {p, q} \/ y # w => chained'[x][y] = chained[x][y]
    BY <1>1, <1>2, <2>5, <2>7
  <2>9. /\ sess' \in [Peer -> [Wire -> AnySession]] /\ sess'[q][w] = v
        /\ \A x \in Peer, y \in Wire : x # q \/ y # w => sess'[x][y] = sess[x][y]
    BY <1>1, <1>2, <1>8, <2>1, <2>4
  <2>10. ~(w > wire)
    BY <1>1 DEF Charged, Wire
  <2>11. ASSUME NEW x \in Peer, NEW y \in Wire
         PROVE  /\ sess'[x][y] \in SessionOf(Position(x)) /\ chained'[x][y] \subseteq SavedAt(x)
                /\ ~sess'[x][y].open => chained'[x][y] = {}
                /\ x \notin up => ~sess'[x][y].open
                /\ y > wire => sess'[x][y] = NoSession /\ chained'[x][y] = {}
    <3>1. CASE x = q /\ y = w
      BY <1>2, <1>4, <1>8, <2>8, <2>9, <2>10, <3>1
    <3>2. CASE x = p /\ y = w
      <4>1. sess'[x][y] = sess[x][y] /\ chained'[x][y] = x1
        BY <1>2, <2>7, <2>9, <3>2
      <4> QED BY <1>1, <2>3, <2>10, <3>2, <4>1 DEF Held
    <3>3. CASE x \notin {p, q} \/ y # w
      <4>1. sess'[x][y] = sess[x][y] /\ chained'[x][y] = chained[x][y]
        BY <2>8, <2>9, <3>3
      <4> QED BY <4>1 DEF Held
    <3> QED BY <3>1, <3>2, <3>3
  <2>12. Held'
    BY <1>5, <2>7, <2>9, <2>11 DEF Held, Position, SavedAt
  <2> QED BY <2>7, <2>8, <2>9, <2>12 DEF OnwardKeeps, OnwardRan, v, c
<1>9. OnwardKeeps(p, q, w) /\ OnwardOutcome(j, p, q, w, second)
  <2> HIDE DEF saved
  <2>1. CASE /\ q \in up /\ second.status = 200
             /\ sess' = [sess EXCEPT ![q][w] = v]
             /\ chained' = [chained EXCEPT ![q][w] = c, ![p][w] = IF sess[p][w].open THEN {saved} ELSE @]
             /\ Becomes(j, Done(j, 200, second.out))
             /\ UNCHANGED faults
    BY <1>8, <2>1 DEF OnwardOutcome, saved
  <2>2. CASE /\ q \in up /\ second.status # 200
             /\ sess' = [sess EXCEPT ![q][w] = v] /\ chained' = [chained EXCEPT ![q][w] = c]
             /\ UNCHANGED faults
             /\ Becomes(j, Done(j, IF second.status = 404 THEN 409 ELSE 502, <<>>))
    BY <1>6, <2>2 DEF OnwardOutcome
  <2>3. CASE /\ IF q \in up
                THEN Fault /\ (\/ /\ sess' = [sess EXCEPT ![q][w] = v]
                                  /\ chained' = [chained EXCEPT ![q][w] = c]
                               \/ UNCHANGED peers)
                ELSE UNCHANGED <<faults, peers>>
             /\ Becomes(j, Done(j, 502, <<>>))
    <3>1. CASE q \in up /\ UNCHANGED peers
      BY <1>7, <2>3, <3>1 DEF OnwardOutcome
    <3>2. CASE q \in up /\ sess' = [sess EXCEPT ![q][w] = v] /\ chained' = [chained EXCEPT ![q][w] = c]
      BY <1>6, <2>3, <3>2 DEF OnwardOutcome
    <3>3. CASE q \notin up
      <4>1. UNCHANGED <<faults, peers>>
        BY <2>3, <3>3
      <4> QED BY <1>7, <2>3, <3>3, <4>1 DEF OnwardOutcome
    <3> QED BY <2>3, <3>1, <3>2, <3>3
  <2> QED BY <1>5, <2>1, <2>2, <2>3
<1> QED BY <1>1, <1>2, <1>4, <1>9 DEF p, q, w, second

\* Some abandoned handlers end.
LEMMA LateEnds ==
  ASSUME Jobs, Still, UNCHANGED <<up, missed, job>>, late' \subseteq late
  PROVE  Jobs'
<1>1. /\ UNCHANGED <<up, missed, job, wire, pc, body>> /\ (Active' <=> Active)
  BY SameCall DEF Still, client
<1> QED BY <1>1 DEF Jobs

\* A handler that is done has its answer in job, or is no more.
LEMMA DoneBecomes ==
  ASSUME NEW j \in Job, NEW status, NEW out, Becomes(j, Done(j, status, out))
  PROVE  /\ j \in job => job' = {Done(j, status, out)} /\ late' = late
         /\ j \notin job => job' = job /\ late' = late \ {j}
<1>1. Done(j, status, out).at = "done"
  <2> DEFINE a == [j EXCEPT !.at = "done"]
             b == [a EXCEPT !.status = status]
  <2>1. a = [body |-> j.body, at |-> "done", hidden |-> j.hidden, status |-> j.status, out |-> j.out]
    BY DEF Job
  <2> HIDE DEF a
  <2>2. b = [body |-> j.body, at |-> "done", hidden |-> j.hidden, status |-> status, out |-> j.out]
    BY <2>1
  <2> HIDE DEF b
  <2>3. [b EXCEPT !.out = out].at = "done"
    BY <2>2
  <2> QED BY <2>3 DEF Done, a, b
<1> QED BY <1>1 DEF Becomes

\* A handler of a session the client has left disturbs nothing it still uses.
LEMMA OnwardOld ==
  ASSUME IInv, NEW j \in late, ~(Active /\ j.body.wire = wire), Onward(j)
  PROVE  IInv' /\ (Calm \/ Fault) /\ (faults' = faults \/ Fault)
<1> DEFINE p == j.body.hops[1]
           q == j.body.hops[2]
           w == j.body.wire
           second == AtSecond(q, w, Passed(j))
<1>1. /\ Held /\ Places /\ Calling /\ Data /\ Jobs /\ Working /\ Orphans /\ Charged
  BY DEF IInv
<1>2. /\ j.at = "onward" /\ Still
      /\ UNCHANGED <<up, dead, hops, wire, pc, why, body, sends, blame, left, missed>>
  BY DEF Onward, Still, client, callVars
<1>3. /\ j \in Job /\ p \in Peer /\ q \in Peer /\ w \in Wire
      /\ OnwardKeeps(p, q, w) /\ OnwardOutcome(j, p, q, w, second)
  BY <1>1, OnwardEffect
<1> HIDE DEF second, p, q, w
<1>4. p \in missed /\ q \in missed
  <2>1. ToSet(j.body.hops) \subseteq missed /\ j.body.hops \in Routes
    BY <1>1 DEF Jobs
  <2>2. ToSet(j.body.hops) = {j.body.hops[1], j.body.hops[2]}
    BY <2>1, RouteRoles
  <2> QED BY <2>1, <2>2 DEF p, q
<1>5. j \notin job /\ (Active => w # wire)
  BY <1>1, CallIs DEF Jobs, Active, w
<1>6. /\ job' = job /\ late' \subseteq late
      /\ faults' = faults \/ (faults < MaxFaults /\ faults' = faults + 1)
  <2>1. ASSUME NEW status, NEW out, Becomes(j, Done(j, status, out))
        PROVE  job' = job /\ late' \subseteq late
    BY <1>3, <1>5, <2>1, DoneBecomes
  <2> QED BY <1>3, <2>1 DEF OnwardOutcome, Fault
<1>7. /\ Held'
      /\ \A x \in Peer, y \in Wire : y # w \/ x \notin {p, q} =>
           sess'[x][y] = sess[x][y] /\ chained'[x][y] = chained[x][y]
  BY <1>3 DEF OnwardKeeps
<1>8. Active => \A k \in 1..2 : S(k)' = S(k) /\ C(k)' = C(k)
  <2>1. hops[1] \in Peer /\ hops[2] \in Peer /\ wire \in Wire
    BY <1>1, Route
  <2> QED BY <1>2, <1>5, <1>7, <2>1 DEF S, C
<1>9. /\ Base' = Base /\ Full' = Full /\ Coming' = Coming
      /\ \A k \in 1..2 : Fed(k)' = Fed(k) /\ Req(k)' = Req(k)
      /\ (Active' <=> Active) /\ (Stepping' <=> Stepping)
  BY <1>2, SameCall
<1>10. Places' /\ Calling'
  BY <1>1, <1>2, SamePlaces DEF Places
<1>11. Jobs'
  BY <1>1, <1>2, <1>6, LateEnds
<1>12. Data'
  BY <1>1, <1>2, <1>8, <1>9 DEF Data, InStep, Saves, RanStage
<1>13. Working'
  <2>1. CASE pc = "call"
    <3>1. Active
      BY <2>1 DEF Active
    <3> QED BY <1>1, <1>2, <1>6, <1>8, <1>9, <2>1, <3>1 DEF Working, RanStage
  <2>2. CASE pc # "call"
    BY <1>2, <2>2 DEF Working
  <2> QED BY <2>1, <2>2
<1>14. Orphans'
  BY <1>1, <1>2, <1>4, <1>7 DEF Orphans
<1>15. Charged'
  <2>1. \A k \in 1..2 : Active => (Missing(k)' <=> Missing(k))
    BY <1>8, <1>9 DEF Missing
  <2>2. \A k \in 1..2 : Tired(k)' <=> Tired(k)
    BY <1>2, <1>6 DEF Tired
  <2>3. faults \in Nat /\ faults' \in 0..MaxFaults /\ faults' >= faults /\ wire \in Nat
    BY <1>1, <1>6, Route DEF Charged
  <2>4. \A k \in 1..2 : Stepping /\ Tired(k) => wire <= faults'
    <3>1. \A k \in 1..2 : Stepping /\ Tired(k) => wire <= faults
      BY <1>1 DEF Charged
    <3> QED BY <2>3, <3>1
  <2>5. \A x \in job : x.at = "done" => /\ x.status = 404 => Missing(1)'
                                        /\ x.status = 409 => Missing(2)'
    <3>1. \A x \in job : Active
      BY <1>1 DEF Jobs, Active
    <3> QED BY <1>1, <2>1, <3>1 DEF Charged
  <2> QED BY <1>1, <1>2, <1>6, <2>1, <2>2, <2>3, <2>4, <2>5, StillCharged
<1>16. Calm
  <2>1. \A k \in 1..2 : Active => (Missing(k)' <=> Missing(k))
    BY <1>8, <1>9 DEF Missing
  <2>2. \A k \in 1..2 : Tired(k)' <=> Tired(k)
    BY <1>2, <1>6 DEF Tired
  <2> QED BY <1>6, <2>1, <2>2 DEF Calm
<1> QED BY <1>6, <1>7, <1>10, <1>11, <1>12, <1>13, <1>14, <1>15, <1>16 DEF IInv, Fault

\* The second peer kept its session and ran the piece, or nothing happened there.
Seconded ==
  \/ \A k \in 1..2 : S(k)' = S(k) /\ C(k)' = C(k)
  \/ /\ S(1)' = S(1) /\ SettledSession(S(2)') /\ S(2)'.open /\ Ran(S(2)', Fed(2), Req(2))
     /\ C(1)' \in {C(1), {[key |-> body.req, out |-> Hidden(Full, 0)]}}
     /\ C(2)' \in {C(2), {[key |-> Req(2), out |-> Hidden(Full, 0)]}}

\* Either way both peers have what the client's call says.
LEMMA SecondedData ==
  ASSUME Held, Places, Charged, Calling, Data, Still, pc = "call", RanStage(1), Seconded
  PROVE  Data'
<1>1. /\ Base' = Base /\ Full' = Full /\ Coming' = Coming
      /\ \A k \in 1..2 : Fed(k)' = Fed(k) /\ Req(k)' = Req(k)
  BY SameCall
<1>2. pc' = "call" /\ body' = body
  BY DEF Still
<1>3. Req(1) = body.req
  BY StageIs
<1>4. \A k \in 1..2 : InStep(k) /\ Saves(k)
  BY DEF Data, Active
<1>5. CASE \A k \in 1..2 : S(k)' = S(k) /\ C(k)' = C(k)
  BY <1>1, <1>2, <1>4, <1>5 DEF Data, InStep, Saves, RanStage
<1>6. CASE /\ S(1)' = S(1) /\ SettledSession(S(2)') /\ S(2)'.open /\ Ran(S(2)', Fed(2), Req(2))
           /\ C(1)' \in {C(1), {[key |-> body.req, out |-> Hidden(Full, 0)]}}
           /\ C(2)' \in {C(2), {[key |-> Req(2), out |-> Hidden(Full, 0)]}}
  <2>1. RanStage(1)' /\ RanStage(2)'
    BY <1>1, <1>6 DEF RanStage
  <2>2. InStep(1)' /\ InStep(2)'
    <3>1. SettledSession(S(1))
      BY <1>4 DEF InStep
    <3>2. SettledSession(S(1)') /\ SettledSession(S(2)')
      BY <1>6, <3>1
    <3> QED BY <1>2, <2>1, <3>2 DEF InStep
  <2>3. ASSUME NEW k \in 1..2, NEW l \in C(k)'
        PROVE  l.key.start < Len(Base) \/ (l.key = Req(k) /\ l.out = Hidden(Full, 0))
    <3>1. l \in C(k) \/ l = [key |-> Req(k), out |-> Hidden(Full, 0)]
      BY <1>3, <1>6, <2>3
    <3>2. CASE l \in C(k)
      BY <1>4, <3>2 DEF Saves
    <3>3. CASE l = [key |-> Req(k), out |-> Hidden(Full, 0)]
      BY <3>3
    <3> QED BY <3>1, <3>2, <3>3
  <2>4. ASSUME NEW k \in 1..2 PROVE Saves(k)'
    <3>1. RanStage(k)'
      BY <2>1
    <3>2. Base' = Base /\ Full' = Full /\ Req(k)' = Req(k)
      BY <1>1
    <3> QED BY <1>2, <2>1, <2>3, <3>1, <3>2 DEF Saves
  <2> QED BY <2>2, <2>4 DEF Data
<1> QED BY <1>5, <1>6 DEF Seconded

\* The handler of the client's call gets the answer of the second peer.
LEMMA OnwardNow ==
  ASSUME IInv, NEW j \in job \cup late, pc = "call", j.body.wire = wire, Onward(j)
  PROVE  IInv' /\ (Calm \/ Fault) /\ (faults' = faults \/ Fault)
<1> DEFINE p == hops[1]
           q == hops[2]
           second == AtSecond(q, wire, Req(2))
           new == [key |-> body.req, out |-> Hidden(Full, 0)]
<1>1. /\ Held /\ Places /\ Calling /\ Data /\ Jobs /\ Working /\ Orphans /\ Charged
  BY DEF IInv
<1>2. /\ j.at = "onward" /\ Still
      /\ UNCHANGED <<up, dead, hops, wire, pc, why, body, sends, blame, left, missed>>
  BY DEF Onward, Still, client, callVars
<1>3. j.body = body /\ body.wire = wire /\ body.hops = hops
  BY <1>1, CallIs DEF Jobs, Active
<1>4. /\ S(1).open /\ j.hidden = Req(2).toks /\ RanStage(1)
  BY <1>1, <1>2 DEF Working
<1>5. /\ Req(1) = body.req /\ Req(2) = [body.req EXCEPT !.toks = Hidden(Full, Len(Base))]
      /\ Req(2).toks = Hidden(Full, Len(Base))
  BY <1>1, StageIs
<1>6. Passed(j) = Req(2)
  BY <1>3, <1>4, <1>5 DEF Passed
<1>7. /\ j \in Job /\ p \in Peer /\ q \in Peer /\ p # q /\ wire \in Wire
      /\ OnwardKeeps(p, q, wire) /\ OnwardOutcome(j, p, q, wire, second)
  BY <1>1, <1>3, <1>6, OnwardEffect
<1> HIDE DEF second
<1>8. \/ /\ second.status = 404 /\ second.session = S(2) /\ second.chained = C(2)
         /\ ~S(2).open /\ Base # <<>>
      \/ /\ second.status = 200 /\ second.out = Hidden(Full, 0)
         /\ SettledSession(second.session) /\ second.session.open
         /\ Ran(second.session, Fed(2), Req(2))
         /\ second.chained = C(2) \/ second.chained = {[key |-> Req(2), out |-> Hidden(Full, 0)]}
  BY <1>1, SecondServes DEF second
<1>9. /\ Held' /\ S(1)' = S(1)
      /\ \A x \in Peer, y \in Wire : x # q \/ y # wire => sess'[x][y] = sess[x][y]
  BY <1>2, <1>7 DEF OnwardKeeps, S
<1>10. /\ S(2)' = sess'[q][wire] /\ C(2)' = chained'[q][wire] /\ C(1)' = chained'[p][wire]
       /\ sess[p][wire] = S(1) /\ chained[p][wire] = C(1)
       /\ UNCHANGED peers => \A k \in 1..2 : S(k)' = S(k) /\ C(k)' = C(k)
  BY <1>2 DEF S, C, peers
<1>11. /\ Base' = Base /\ Full' = Full /\ Coming' = Coming
       /\ \A k \in 1..2 : Fed(k)' = Fed(k) /\ Req(k)' = Req(k)
       /\ (Active' <=> Active) /\ (Stepping' <=> Stepping) /\ Active
  BY <1>2, SameCall DEF Active
<1>12. Places' /\ Calling'
  BY <1>1, <1>2, SamePlaces DEF Places
\* What becomes of the handler, and what the two peers have then.
<1> DEFINE Got(status, out) == Becomes(j, Done(j, status, out))
<1>13. \/ Got(200, Hidden(Full, 0)) /\ Seconded /\ faults' = faults /\ q \in up
          /\ C(1)' = {new} /\ S(2)'.open /\ Ran(S(2)', Fed(2), Req(2))
       \/ Got(409, <<>>) /\ Seconded /\ faults' = faults /\ C(1)' = C(1) /\ S(2)' = S(2)
          /\ ~S(2).open /\ Base # <<>> /\ q \in up
       \/ Got(502, <<>>) /\ Seconded /\ (C(1)' = C(1)) /\ (S(2)' = S(2) \/ S(2)'.open)
          /\ (Fault \/ (q \notin up /\ faults' = faults))
  <2>1. CASE /\ q \in up /\ second.status = 200 /\ OnwardRan(p, q, wire, second)
             /\ chained'[p][wire] = IF sess[p][wire].open
                                    THEN {[key |-> j.body.req, out |-> second.out]}
                                    ELSE chained[p][wire]
             /\ Becomes(j, Done(j, 200, second.out)) /\ faults' = faults
    <3>1. /\ second.out = Hidden(Full, 0) /\ S(2)' = second.session /\ C(2)' = second.chained
          /\ C(1)' = {new} /\ Got(200, Hidden(Full, 0))
      BY <1>3, <1>4, <1>8, <1>10, <2>1 DEF OnwardRan
    <3> HIDE DEF Got, new
    <3> QED BY <1>8, <1>9, <2>1, <3>1 DEF Seconded, new
  <2>2. CASE /\ q \in up /\ second.status # 200 /\ OnwardRan(p, q, wire, second)
             /\ chained'[p][wire] = chained[p][wire] /\ faults' = faults
             /\ Becomes(j, Done(j, IF second.status = 404 THEN 409 ELSE 502, <<>>))
    <3>1. /\ second.status = 404 /\ S(2)' = S(2) /\ C(2)' = C(2) /\ C(1)' = C(1)
          /\ ~S(2).open /\ Base # <<>>
      BY <1>8, <1>10, <2>2 DEF OnwardRan
    <3>2. Seconded
      BY <1>9, <3>1 DEF Seconded
    <3> QED BY <2>2, <3>1, <3>2
  <2>3. CASE /\ Becomes(j, Done(j, 502, <<>>)) /\ chained'[p][wire] = chained[p][wire]
             /\ IF q \in up THEN Fault /\ (OnwardRan(p, q, wire, second) \/ UNCHANGED peers)
                            ELSE UNCHANGED <<faults, peers>>
    <3>1. C(1)' = C(1) /\ Got(502, <<>>) /\ (Fault \/ (q \notin up /\ faults' = faults))
      BY <1>10, <2>3
    <3>2. Seconded /\ (S(2)' = S(2) \/ S(2)'.open)
      <4>1. CASE UNCHANGED peers
        BY <1>10, <4>1 DEF Seconded
      <4>2. CASE OnwardRan(p, q, wire, second)
        <5>1. S(2)' = second.session /\ C(2)' = second.chained
          BY <1>10, <4>2 DEF OnwardRan
        <5> QED BY <1>8, <1>9, <3>1, <5>1 DEF Seconded
      <4> QED BY <2>3, <4>1, <4>2
    <3> QED BY <3>1, <3>2
  <2> QED BY <1>7, <2>1, <2>2, <2>3 DEF OnwardOutcome
<1>14. Data'
  BY <1>1, <1>2, <1>4, <1>13, SecondedData
<1>15. Orphans'
  BY <1>1, <1>2, <1>7, <1>9 DEF Orphans
<1>16. PICK status, out : /\ status \in {200, 409, 502} /\ out \in Seq(Seq(Token)) /\ Got(status, out)
                          /\ status = 200 => /\ out = Hidden(Full, 0) /\ C(1)' = {new}
                                             /\ S(2)'.open /\ Ran(S(2)', Fed(2), Req(2))
                          /\ status = 409 => S(2)' = S(2) /\ ~S(2).open /\ Base # <<>> /\ q \in up
                          /\ status = 502 => Fault \/ (q \notin up /\ faults' = faults)
  <2>1. Full \in Seq(Token) /\ Len(Full) \in Nat
    BY <1>1, CallIs
  <2>2. Hidden(Full, 0) \in Seq(Seq(Token))
    BY <2>1, HiddenIs, 0 \in 0..Len(Full)
  <2>3. <<>> \in Seq(Seq(Token))
    OBVIOUS
  <2> DEFINE P(status, out) ==
        /\ status \in {200, 409, 502} /\ out \in Seq(Seq(Token)) /\ Got(status, out)
        /\ status = 200 => /\ out = Hidden(Full, 0) /\ C(1)' = {new}
                           /\ S(2)'.open /\ Ran(S(2)', Fed(2), Req(2))
        /\ status = 409 => S(2)' = S(2) /\ ~S(2).open /\ Base # <<>> /\ q \in up
        /\ status = 502 => Fault \/ (q \notin up /\ faults' = faults)
  <2> HIDE DEF Got, new
  <2>4. P(200, Hidden(Full, 0)) \/ P(409, <<>>) \/ P(502, <<>>)
    BY <1>13, <2>2, <2>3
  <2> HIDE DEF P
  <2>5. \E status, out : P(status, out)
    BY <2>4
  <2> QED BY <2>5 DEF P
<1>17. LET k == Done(j, status, out) IN
       k \in Job /\ k.at = "done" /\ k.body = j.body /\ k.status = status /\ k.out = out
  BY <1>7, <1>16, Outcomes DEF Statuses, IsDone
<1>18. /\ ~Missing(1) /\ ~Missing(1)' /\ (S(2)' = S(2) \/ S(2)'.open)
       /\ Missing(2)' => Missing(2) /\ S(2)' = S(2) /\ C(1)' = C(1)
       /\ faults' = faults \/ Fault
  BY <1>4, <1>9, <1>11, <1>13 DEF Missing
<1>19. faults \in 0..MaxFaults /\ MaxFaults \in Nat /\ faults' \in 0..MaxFaults /\ faults' >= faults
  BY <1>1, <1>18, Route DEF Charged, Fault
<1> HIDE DEF Got, new
<1>20. CASE j \in job
  <2> DEFINE k == Done(j, status, out)
  <2>1. job' = {k} /\ late' = late
    BY <1>7, <1>16, <1>20, DoneBecomes DEF Got
  <2> HIDE DEF k
  <2>2. k \in Job /\ k.at = "done" /\ k.body = j.body /\ k.status = status /\ k.out = out
    BY <1>17 DEF k
  <2>3. Jobs'
    <3>1. Goes(j, k)
      BY <1>2, <1>16, <1>20, <2>2 DEF Goes, Got, k
    <3> QED BY <1>1, <1>2, <3>1, JobGoes
  <2>4. Working'
    <3>1. \A m \in late : m.body.wire # wire
      BY <1>1, <1>2, <1>20 DEF Working
    <3>2. status = 200 => C(1)' # {} /\ RanStage(1)' /\ RanStage(2)'
      <4>1. RanStage(1)'
        BY <1>4, <1>9, <1>11 DEF RanStage
      <4>2. Ran(S(2)', Fed(2), Req(2)) => RanStage(2)'
        BY <1>11 DEF RanStage
      <4>3. status = 200 => C(1)' = {new} /\ Ran(S(2)', Fed(2), Req(2))
        BY <1>16
      <4> QED BY <4>1, <4>2, <4>3
    <3> QED BY <1>2, <1>11, <1>16, <2>1, <2>2, <3>1, <3>2 DEF Working
  <2>5. Charged'
    <3>1. Tired(2)' => status = 502
      BY <2>1, <2>2 DEF Tired
    <3>2. ~Tired(1)'
      BY <2>1 DEF Tired
    <3>3. Stepping /\ status = 502 => wire <= faults'
      <4> SUFFICES ASSUME Stepping, status = 502 PROVE wire <= faults'
        OBVIOUS
      <4>0. wire \in Nat /\ wire <= faults + 1
        BY <1>1, Route DEF Charged
      <4>1. CASE Fault
        BY <1>19, <4>0, <4>1 DEF Fault
      <4>2. CASE q \notin up /\ faults' = faults
        <5>1. faults > 0 /\ ~S(2).open
          BY <1>1, <1>7, <4>2 DEF Charged, Held, S
        <5>2. CASE Missing(2)
          BY <1>1, <1>11, <4>2, <5>2 DEF Charged
        <5>3. CASE ~Missing(2)
          <6>1. Base = <<>> /\ Base = text
            BY <1>1, <5>1, <5>3, BaseIs DEF Missing, Stepping
          <6>2. wire = 1
            BY <1>1, <6>1 DEF Places
          <6> QED BY <1>19, <4>2, <5>1, <6>2
        <5> QED BY <5>2, <5>3
      <4> QED BY <1>16, <4>1, <4>2
    <3>4. \A x \in job' : x.at = "done" => /\ x.status = 404 => Missing(1)'
                                           /\ x.status = 409 => Missing(2)'
      <4>1. status = 409 => Missing(2)'
        BY <1>11, <1>16 DEF Missing
      <4> QED BY <1>16, <2>1, <2>2, <4>1
    <3> QED BY <1>1, <1>2, <1>18, <1>19, <3>1, <3>2, <3>3, <3>4, StillCharged
  <2>6. Calm \/ Fault
    <3> SUFFICES ASSUME ~Fault PROVE Calm
      OBVIOUS
    <3>1. Tired(1)' => FALSE
      BY <2>1 DEF Tired
    <3>2. Tired(2)' => hops[2] \notin up
      BY <1>16, <2>1, <2>2 DEF Tired
    <3>3. (\E x \in job' : x.at = "done" /\ x.status = 409) => Missing(2) /\ ToSet(hops) \subseteq up
      <4> SUFFICES ASSUME status = 409 PROVE Missing(2) /\ ToSet(hops) \subseteq up
        BY <2>1, <2>2
      <4>1. Missing(2) /\ hops[2] \in up
        BY <1>16 DEF Missing
      <4>2. hops[1] \in up /\ ToSet(hops) = {hops[1], hops[2]}
        BY <1>1, <1>20, Waited, Route
      <4> QED BY <4>1, <4>2
    <3>4. \A x \in 1..2 : x = 1 \/ x = 2
      OBVIOUS
    <3> QED BY <1>18, <3>1, <3>2, <3>3, <3>4 DEF Calm
  <2> QED BY <1>9, <1>12, <1>14, <1>15, <1>18, <2>3, <2>4, <2>5, <2>6 DEF IInv
<1>21. CASE j \notin job
  <2>1. job' = job /\ late' = late \ {j} /\ j \in late
    BY <1>7, <1>16, <1>21, DoneBecomes DEF Got
  <2>2. Jobs'
    BY <1>1, <1>2, <2>1, LateEnds
  <2>3. \A x \in job : x.at \in {"new", "waiting"} \/ (x.at = "done" /\ x.status = 404)
    BY <1>1, <1>3, <2>1 DEF Working, Jobs, Job
  <2>4. Working'
    BY <1>1, <1>2, <1>4, <1>9, <1>11, <2>1, <2>3 DEF Working, RanStage
  <2>5. Charged'
    <3>1. \A k \in 1..2 : Tired(k)' <=> Tired(k)
      BY <1>2, <2>1 DEF Tired
    <3>2. \A x \in job' : ~(x.at = "done")
      BY <1>1, <1>18, <2>1, <2>3 DEF Charged
    <3>3. \A k \in 1..2 : Stepping /\ Tired(k) => wire <= faults'
      <4>1. \A k \in 1..2 : Stepping /\ Tired(k) => wire <= faults
        BY <1>1 DEF Charged
      <4>2. wire \in Nat /\ faults \in Nat
        BY <1>1, Route
      <4> QED BY <1>19, <4>1, <4>2
    <3> QED BY <1>1, <1>2, <1>18, <1>19, <3>1, <3>2, <3>3, StillCharged
  <2>6. Calm
    <3>1. \A k \in 1..2 : Tired(k)' <=> Tired(k)
      BY <1>2, <2>1 DEF Tired
    <3>2. \A k \in 1..2 : Missing(k)' => Missing(k)
      <4>1. \A k \in 1..2 : k = 1 \/ k = 2
        OBVIOUS
      <4> QED BY <1>18, <4>1
    <3> QED BY <2>1, <3>1, <3>2 DEF Calm
  <2> QED BY <1>9, <1>12, <1>14, <1>15, <1>18, <2>2, <2>4, <2>5, <2>6 DEF IInv
<1> QED BY <1>20, <1>21

\* So an answer of the second peer, whosever handler it comes to.
LEMMA OnwardStep ==
  ASSUME IInv, NEW j \in job \cup late, Onward(j)
  PROVE  IInv' /\ (Calm \/ Fault) /\ (faults' = faults \/ Fault)
<1>1. Jobs /\ Places /\ Charged /\ Calling
  BY DEF IInv
<1>2. CASE pc = "call" /\ j.body.wire = wire
  BY <1>2, OnwardNow
<1>3. CASE ~(pc = "call" /\ j.body.wire = wire)
  <2>1. j \in late
    BY <1>1, <1>3, CallIs DEF Jobs
  <2>2. ~(Active /\ j.body.wire = wire)
    BY <1>1, <1>3, <2>1 DEF Jobs
  <2> QED BY <2>1, <2>2, OnwardOld
<1> QED BY <1>2, <1>3

-----------------------------------------------------------------------------
\* The other steps that leave the client where it is.

\* The sessions that are not touched hold what they held.
LEMMA HeldOn ==
  ASSUME Held, UNCHANGED peers, up \subseteq up', wire' = wire
  PROVE  Held'
<1>1. sess' = sess /\ chained' = chained
  BY DEF peers
<1> QED BY <1>1 DEF Held, Position, SavedAt

\* Nor do the peers in use.
LEMMA StillOn ==
  ASSUME IInv, Still, UNCHANGED peers, up \subseteq up', up' \subseteq Peer,
         dead' \subseteq Peer, missed \subseteq missed', missed' \subseteq Peer,
         sends' \in 0..MaxSends, blame' \in 1..2
  PROVE  /\ Held' /\ Places' /\ Calling' /\ Data' /\ Orphans'
         /\ \A k \in 1..2 : /\ S(k)' = S(k) /\ C(k)' = C(k)
                            /\ (RanStage(k)' <=> RanStage(k)) /\ (Missing(k)' <=> Missing(k))
<1>1. /\ Held /\ Places /\ Calling /\ Data /\ Orphans
  BY DEF IInv
<1>2. /\ UNCHANGED <<sess, chained, hops, wire, pc, why, body, left>>
  BY DEF Still, client, peers
<1>3. /\ Base' = Base /\ Full' = Full /\ Coming' = Coming /\ (Active' <=> Active)
      /\ \A k \in 1..2 : Fed(k)' = Fed(k) /\ Req(k)' = Req(k)
  BY SameCall
<1>4. \A k \in 1..2 : S(k)' = S(k) /\ C(k)' = C(k)
  BY <1>2 DEF S, C
<1>5. \A k \in 1..2 : (RanStage(k)' <=> RanStage(k)) /\ (Missing(k)' <=> Missing(k))
  BY <1>3, <1>4 DEF RanStage, Missing
<1>6. Held'
  BY <1>1, <1>2, HeldOn
<1>7. Places' /\ Calling'
  BY <1>1, SamePlaces
<1>8. Data'
  BY <1>1, <1>2, <1>3, <1>4, <1>5 DEF Data, InStep, Saves
<1>9. Orphans'
  BY <1>1, <1>2 DEF Orphans
<1> QED BY <1>4, <1>5, <1>6, <1>7, <1>8, <1>9

\* A call that failed at a peer that is down was charged, or was the first.
LEMMA DownPaid ==
  ASSUME IInv, Stepping, NEW k \in 1..2, hops[k] \notin up
  PROVE  wire <= faults
<1>1. /\ Held /\ Places /\ Charged
  BY DEF IInv
<1>2. hops[k] \in Peer /\ wire \in Wire /\ wire \in Nat /\ faults \in Nat
  BY <1>1, Route
<1>3. faults > 0 /\ ~S(k).open
  BY <1>1, <1>2 DEF Charged, Held, S
<1>4. CASE Missing(k)
  BY <1>1, <1>4 DEF Charged, Active, Stepping
<1>5. CASE ~Missing(k)
  <2>1. Base = <<>> /\ Base = text
    BY <1>1, <1>3, <1>5, BaseIs DEF Missing, Stepping
  <2>2. wire = 1
    BY <1>1, <2>1 DEF Places
  <2> QED BY <1>2, <1>3, <2>2
<1> QED BY <1>4, <1>5

\* A fault pays for one restart more.
LEMMA FaultPays ==
  ASSUME Charged, Fault
  PROVE  faults' \in 0..MaxFaults /\ faults' > faults /\ wire <= faults'
<1> DEFINE a == faults
           n == wire
           m == MaxFaults
<1>1. a \in Nat /\ n \in Nat /\ m \in Nat /\ n <= a + 1 /\ a < m /\ faults' = a + 1
  BY ChainAssumption DEF Charged, Fault
<1> HIDE DEF a, n, m
<1>2. a + 1 \in 0..m /\ a + 1 > a /\ n <= a + 1
  BY <1>1
<1> QED BY <1>1, <1>2 DEF a, n, m

\* An attempt: the handler begins, or the message is lost.
LEMMA SendStep ==
  ASSUME IInv, Send
  PROVE  IInv'
<1>1. /\ Held /\ Places /\ Calling /\ Data /\ Jobs /\ Working /\ Orphans /\ Charged
  BY DEF IInv
<1>2. /\ Still /\ UNCHANGED peers
      /\ UNCHANGED <<up, dead, hops, wire, pc, why, body, left, late, missed>>
      /\ pc = "call" /\ job = {} /\ sends < MaxSends /\ sends' = sends + 1
      /\ \/ hops[1] \in up /\ job' = {New(body)} /\ UNCHANGED <<faults, blame>>
         \/ /\ IF hops[1] \in up THEN Fault ELSE UNCHANGED faults
            /\ blame' = 1 /\ UNCHANGED job
  BY DEF Send, Still, client
<1>3. sends' \in 0..MaxSends /\ blame' \in 1..2
  <2>1. sends \in 0..MaxSends /\ MaxSends \in Nat /\ blame \in 1..2
    BY <1>1, ChainAssumption DEF Places
  <2> QED BY <1>2, <2>1
<1>4. /\ Held' /\ Places' /\ Calling' /\ Data' /\ Orphans'
      /\ \A k \in 1..2 : /\ S(k)' = S(k) /\ C(k)' = C(k)
                         /\ (RanStage(k)' <=> RanStage(k)) /\ (Missing(k)' <=> Missing(k))
  <2>1. up' \subseteq Peer /\ dead' \subseteq Peer /\ missed' \subseteq Peer
    BY <1>1, <1>2 DEF Places
  <2> QED BY <1>2, <1>3, <2>1, StillOn
<1>5. /\ Base' = Base /\ Full' = Full /\ (Active' <=> Active) /\ (Stepping' <=> Stepping)
      /\ \A k \in 1..2 : Req(k)' = Req(k)
  BY <1>2, SameCall
<1>6. /\ New(body) \in Job /\ New(body).at = "new" /\ New(body).body = body /\ New(body).status = 0
  <2>1. body \in [wire : Wire, hops : Seq(Peer), req : Request]
    BY <1>1, <1>2, CallIs
  <2>2. <<>> \in Seq(Seq(Token))
    OBVIOUS
  <2> QED BY <2>1, <2>2 DEF New, Job
<1>7. job' = {} \/ (job' = {New(body)} /\ hops[1] \in up)
  BY <1>2
<1>8. Jobs'
  <2>1. /\ body.wire = wire /\ body.hops = hops /\ body.req.op = "forward" /\ hops \in Routes
        /\ wire \in Nat
    BY <1>1, <1>2, CallIs, Route DEF Places
  <2>2. /\ \A j \in late : /\ j \in Job /\ j.body.wire <= wire /\ j.body.hops \in Routes
                           /\ j.body.hops[1] \in up /\ j.body.req.op = "forward"
                           /\ j.at = "onward" /\ ToSet(j.body.hops) \subseteq missed
                           /\ j.body.wire = wire /\ Active => pc = "call" /\ j.body = body
    BY <1>1 DEF Jobs
  <2>3. \A j \in job' : /\ j \in Job /\ j.body = body /\ j.body.wire <= wire
                        /\ j.body.hops \in Routes
                        /\ j.body.hops[1] \in up /\ j.body.req.op = "forward"
    BY <1>6, <1>7, <2>1
  <2>4. \A j, k \in job' : j = k
    BY <1>7
  <2> QED BY <1>2, <1>5, <2>2, <2>3, <2>4 DEF Jobs
<1>9. Working'
  <2>1. \A j \in job' : j.at = "new" /\ j.status = 0
    BY <1>6, <1>7
  <2> QED BY <1>1, <1>2, <1>4, <1>5, <2>1 DEF Working
<1>10. Charged'
  <2>1. faults' \in 0..MaxFaults /\ faults' >= faults
    <3>1. faults \in 0..MaxFaults /\ faults \in Nat
      BY <1>1, Route DEF Charged
    <3>2. Fault => faults' \in 0..MaxFaults /\ faults' >= faults
      BY <1>1, <3>1, FaultPays
    <3> QED BY <1>2, <3>1, <3>2
  <2>2. \A k \in 1..2 : Stepping /\ Tired(k)' => wire <= faults'
    <3> SUFFICES ASSUME NEW k \in 1..2, Stepping, Tired(k)' PROVE wire <= faults'
      OBVIOUS
    <3>1. job' = {}
      BY <1>6, <1>7 DEF Tired
    <3>2. IF hops[1] \in up THEN Fault ELSE UNCHANGED faults
      BY <1>2, <3>1
    <3>3. Fault => wire <= faults'
      BY <1>1, FaultPays
    <3>4. hops[1] \notin up => wire <= faults
      BY DownPaid
    <3> QED BY <3>2, <3>3, <3>4
  <2>3. \A j \in job' : j.at # "done"
    BY <1>6, <1>7
  <2> QED BY <1>1, <1>2, <1>4, <2>1, <2>2, <2>3, StillCharged
<1> QED BY <1>4, <1>8, <1>9, <1>10 DEF IInv

\* The client gives up waiting: the handler is done, or goes on without it.
LEMMA LoseStep ==
  ASSUME IInv, Lose
  PROVE  IInv'
<1>1. /\ Held /\ Places /\ Calling /\ Data /\ Jobs /\ Working /\ Orphans /\ Charged
  BY DEF IInv
<1>2. PICK j \in job :
        /\ Fault /\ j.at \in {"onward", "done"}
        /\ job' = {} /\ blame' = 1
        /\ IF j.at = "done" THEN UNCHANGED <<late, missed>>
           ELSE late' = late \cup {j} /\ missed' = missed \cup ToSet(j.body.hops)
  BY DEF Lose
<1>3. /\ Still /\ UNCHANGED peers
      /\ UNCHANGED <<up, dead, hops, wire, pc, why, body, sends, left>>
  BY DEF Lose, Still, client
<1>4. /\ j \in Job /\ pc = "call" /\ j.body = body /\ j.body.wire <= wire /\ j.body.hops \in Routes
      /\ j.body.hops[1] \in up /\ j.body.req.op = "forward"
  BY <1>1 DEF Jobs
<1>5. missed \subseteq missed' /\ missed' \subseteq Peer
  <2>1. ToSet(j.body.hops) \subseteq Peer
    BY <1>4, RouteRoles
  <2> QED BY <1>1, <1>2, <2>1 DEF Places
<1>6. /\ Held' /\ Places' /\ Calling' /\ Data' /\ Orphans'
      /\ \A k \in 1..2 : /\ S(k)' = S(k) /\ C(k)' = C(k)
                         /\ (RanStage(k)' <=> RanStage(k)) /\ (Missing(k)' <=> Missing(k))
  <2>1. /\ up' \subseteq Peer /\ dead' \subseteq Peer /\ sends' \in 0..MaxSends /\ blame' \in 1..2
    BY <1>1, <1>2, <1>3 DEF Places
  <2> QED BY <1>3, <1>5, <2>1, StillOn
<1>7. /\ Base' = Base /\ Full' = Full /\ (Active' <=> Active) /\ (Stepping' <=> Stepping)
      /\ \A k \in 1..2 : Req(k)' = Req(k)
  BY <1>3, SameCall
<1>8. \A m \in late' : m \in late \/ (m = j /\ j.at = "onward" /\ ToSet(j.body.hops) \subseteq missed')
  BY <1>2
<1>9. Jobs'
  <2>1. /\ \A m \in late : /\ m \in Job /\ m.body.wire <= wire /\ m.body.hops \in Routes
                           /\ m.body.hops[1] \in up /\ m.body.req.op = "forward"
                           /\ m.at = "onward" /\ ToSet(m.body.hops) \subseteq missed
                           /\ m.body.wire = wire /\ Active => pc = "call" /\ m.body = body
    BY <1>1 DEF Jobs
  <2> QED BY <1>2, <1>3, <1>4, <1>5, <1>7, <1>8, <2>1 DEF Jobs
<1>10. Working'
  <2>1. \A m \in late' : m.body.wire = wire =>
          /\ m.at \in {"waiting", "onward"} => S(1).open
          /\ m.at = "onward" => m.hidden = Req(2).toks /\ RanStage(1)
    BY <1>1, <1>4, <1>8 DEF Working
  <2> QED BY <1>2, <1>3, <1>6, <1>7, <2>1 DEF Working
<1>11. Charged'
  <2>1. faults' \in 0..MaxFaults /\ faults' > faults /\ faults' >= faults /\ wire <= faults'
    <3>1. faults' \in 0..MaxFaults /\ faults' > faults /\ wire <= faults'
      BY <1>1, <1>2, FaultPays
    <3>2. faults \in Nat
      BY <1>1, Route
    <3> QED BY <3>1, <3>2
  <2>2. \A k \in 1..2 : Stepping /\ Tired(k)' => wire <= faults'
    BY <2>1
  <2>3. \A k \in 1..2 : Active /\ Missing(k)' => Missing(k) \/ faults' > faults
    BY <1>6
  <2>4. job' = {} /\ up' = up /\ dead' = dead
    BY <1>2, <1>3
  <2> QED BY <1>1, <1>3, <2>1, <2>2, <2>3, <2>4, StillCharged
<1> QED BY <1>6, <1>9, <1>10, <1>11 DEF IInv

\* A failure behind the first peer is tried again, or was once too often.
LEMMA RetryStep ==
  ASSUME IInv, Retry
  PROVE  IInv'
<1>1. /\ Held /\ Places /\ Calling /\ Data /\ Jobs /\ Working /\ Orphans /\ Charged
  BY DEF IInv
<1>2. /\ \E j \in job : j.at = "done" /\ j.status = 502
      /\ job' = {} /\ blame' = 2 /\ Still /\ UNCHANGED peers
      /\ UNCHANGED <<up, dead, hops, wire, pc, why, body, sends, left, late, faults, missed>>
  BY DEF Retry, Still, client
<1>3. /\ Held' /\ Places' /\ Calling' /\ Data' /\ Orphans'
      /\ \A k \in 1..2 : /\ S(k)' = S(k) /\ C(k)' = C(k)
                         /\ (RanStage(k)' <=> RanStage(k)) /\ (Missing(k)' <=> Missing(k))
  <2>1. /\ up' \subseteq Peer /\ dead' \subseteq Peer /\ sends' \in 0..MaxSends /\ blame' \in 1..2
        /\ missed' \subseteq Peer
    BY <1>1, <1>2 DEF Places
  <2> QED BY <1>2, <2>1, StillOn
<1>4. /\ Base' = Base /\ Full' = Full /\ (Active' <=> Active) /\ (Stepping' <=> Stepping)
      /\ \A k \in 1..2 : Req(k)' = Req(k)
  BY <1>2, SameCall
<1>5. Jobs'
  BY <1>1, <1>2, <1>4 DEF Jobs
<1>6. Working'
  BY <1>1, <1>2, <1>3, <1>4 DEF Working
<1>7. Charged'
  <2>1. Stepping => wire <= faults
    <3>1. pc = "call"
      BY <1>1, <1>2 DEF Jobs
    <3>2. Tired(2)
      BY <1>2, <3>1 DEF Tired
    <3> QED BY <1>1, <3>2 DEF Charged
  <2>2. faults' = faults /\ faults \in 0..MaxFaults /\ faults \in Nat
    BY <1>1, <1>2, Route DEF Charged
  <2>3. \A k \in 1..2 : Stepping /\ Tired(k)' => wire <= faults'
    BY <2>1, <2>2
  <2> QED BY <1>1, <1>2, <1>3, <2>2, <2>3, StillCharged
<1> QED BY <1>3, <1>5, <1>6, <1>7 DEF IInv

\* A peer comes up again, or is no longer marked.
LEMMA BetterStep ==
  ASSUME IInv, NEW p \in Peer, ComeUp(p) \/ Age(p)
  PROVE  IInv'
<1>1. /\ Held /\ Places /\ Calling /\ Data /\ Jobs /\ Working /\ Orphans /\ Charged
  BY DEF IInv
<1>2. /\ Still /\ UNCHANGED peers
      /\ UNCHANGED <<hops, wire, pc, why, body, sends, blame, left, job, late, faults, missed>>
      /\ up \subseteq up' /\ up' \subseteq up \cup {p} /\ dead' \subseteq dead
  BY DEF ComeUp, Age, Still, client, callVars
<1>3. /\ Held' /\ Places' /\ Calling' /\ Data' /\ Orphans'
      /\ \A k \in 1..2 : /\ S(k)' = S(k) /\ C(k)' = C(k)
                         /\ (RanStage(k)' <=> RanStage(k)) /\ (Missing(k)' <=> Missing(k))
  <2>1. /\ up' \subseteq Peer /\ dead' \subseteq Peer /\ sends' \in 0..MaxSends /\ blame' \in 1..2
        /\ missed' \subseteq Peer
    BY <1>1, <1>2 DEF Places
  <2> QED BY <1>2, <2>1, StillOn
<1>4. /\ Base' = Base /\ Full' = Full /\ (Active' <=> Active) /\ (Stepping' <=> Stepping)
      /\ \A k \in 1..2 : Req(k)' = Req(k)
  BY <1>2, SameCall
<1>5. Jobs'
  BY <1>1, <1>2, <1>4 DEF Jobs
<1>6. Working'
  BY <1>1, <1>2, <1>3, <1>4 DEF Working
<1>7. Charged'
  <2>1. \A k \in 1..2 : (Tired(k)' <=> Tired(k))
    BY <1>2 DEF Tired
  <2>2. faults' = faults /\ faults \in 0..MaxFaults /\ faults' >= faults
    BY <1>1, <1>2, Route DEF Charged
  <2>3. up' # Peer => up # Peer
    BY <1>1, <1>2 DEF Places
  <2>4. \A k \in 1..2 : Stepping /\ Tired(k) => wire <= faults
    BY <1>1 DEF Charged
  <2>5. \A j \in job : j.at = "done" => /\ j.status = 404 => Missing(1)'
                                        /\ j.status = 409 => Missing(2)'
    BY <1>1, <1>3 DEF Charged
  <2> QED BY <1>1, <1>2, <1>3, <2>1, <2>2, <2>3, <2>4, <2>5, StillCharged
<1> QED BY <1>3, <1>5, <1>6, <1>7 DEF IInv

\* A peer ends, with its sessions and its handlers.
LEMMA CrashStep ==
  ASSUME IInv, NEW p \in Peer, Crash(p)
  PROVE  IInv'
<1>1. /\ Held /\ Places /\ Calling /\ Data /\ Jobs /\ Working /\ Orphans /\ Charged
  BY DEF IInv
<1>2. /\ Still /\ Fault /\ UNCHANGED <<hops, wire, dead, pc, why, body, sends, left, missed>>
      /\ up' = up \ {p}
      /\ job' = {j \in job : j.body.hops[1] # p} /\ late' = {j \in late : j.body.hops[1] # p}
      /\ blame' = IF job' = job THEN blame ELSE 1
  BY DEF Crash, Still, client
<1>3. /\ sess' \in [Peer -> [Wire -> AnySession]] /\ chained' \in [Peer -> [Wire -> SUBSET AnySaved]]
      /\ \A y \in Wire : sess'[p][y] = NoSession /\ chained'[p][y] = {}
      /\ \A x \in Peer, y \in Wire : x # p => sess'[x][y] = sess[x][y] /\ chained'[x][y] = chained[x][y]
  <2>1. /\ sess \in [Peer -> [Wire -> AnySession]] /\ chained \in [Peer -> [Wire -> SUBSET AnySaved]]
    BY <1>1 DEF Held
  <2>2. NoSession \in AnySession /\ {} \in SUBSET AnySaved
    BY DEF NoSession, AnySession, SessionOf
  <2> DEFINE none == [w \in Wire |-> NoSession]
             unsaved == [w \in Wire |-> {}]
  <2>3. none \in [Wire -> AnySession] /\ unsaved \in [Wire -> SUBSET AnySaved]
    BY <2>2
  <2>4. \A y \in Wire : none[y] = NoSession /\ unsaved[y] = {}
    OBVIOUS
  <2> HIDE DEF none, unsaved
  <2>5. sess' = [sess EXCEPT ![p] = none] /\ chained' = [chained EXCEPT ![p] = unsaved]
    BY DEF Crash, none, unsaved
  <2> QED BY <2>1, <2>3, <2>4, <2>5
<1>4. /\ SettledSession(NoSession) /\ ~NoSession.open
      /\ NoSession \in SessionOf(Token) /\ NoSession \in SessionOf(Seq(Token))
  BY DEF SettledSession, NoSession, SessionOf
<1>5. Held'
  <2>1. ASSUME NEW x \in Peer, NEW y \in Wire
        PROVE  /\ sess'[x][y] \in SessionOf(Position(x)) /\ chained'[x][y] \subseteq SavedAt(x)
               /\ ~sess'[x][y].open => chained'[x][y] = {}
               /\ x \notin up' => ~sess'[x][y].open
               /\ y > wire => sess'[x][y] = NoSession /\ chained'[x][y] = {}
    <3>1. CASE x = p
      BY <1>3, <1>4, <3>1 DEF Position
    <3>2. CASE x # p
      BY <1>1, <1>2, <1>3, <3>2 DEF Held
    <3> QED BY <3>1, <3>2
  <2> QED BY <1>2, <1>3, <2>1 DEF Held, Position, SavedAt
<1>6. Places' /\ Calling'
  <2>1. /\ up' \subseteq Peer /\ dead' \subseteq Peer /\ missed' \subseteq Peer
        /\ sends' \in 0..MaxSends /\ blame' \in 1..2
    BY <1>1, <1>2 DEF Places
  <2> QED BY <1>1, <1>2, <2>1, SamePlaces
<1>7. /\ Base' = Base /\ Full' = Full /\ Coming' = Coming
      /\ \A k \in 1..2 : Fed(k)' = Fed(k) /\ Req(k)' = Req(k)
      /\ (Active' <=> Active) /\ (Stepping' <=> Stepping)
  BY <1>2, SameCall
<1>8. /\ wire \in Wire /\ wire \in Nat /\ hops[1] \in Peer /\ hops[2] \in Peer /\ hops[1] # hops[2]
      /\ faults \in Nat
  BY <1>1, Route
<1>9. \A k \in 1..2 : /\ hops[k] = p => S(k)' = NoSession /\ C(k)' = {}
                      /\ hops[k] # p => S(k)' = S(k) /\ C(k)' = C(k)
  BY <1>2, <1>3, <1>8 DEF S, C
<1>10. \A k \in 1..2 : RanStage(k) => RanStage(k)'
  BY <1>4, <1>7, <1>9 DEF RanStage, Ran
<1>11. Data'
  <2> SUFFICES ASSUME Active, NEW k \in 1..2 PROVE InStep(k)' /\ Saves(k)'
    BY <1>7 DEF Data
  <2>1. InStep(k) /\ Saves(k)
    BY <1>1 DEF Data
  <2>2. CASE hops[k] = p
    BY <1>4, <1>9, <2>2 DEF InStep, Saves, Holds
  <2>3. CASE hops[k] # p
    <3>1. S(k)' = S(k) /\ C(k)' = C(k) /\ pc' = pc
      BY <1>2, <1>9, <2>3
    <3>2. InStep(k)'
      BY <1>7, <1>10, <2>1, <3>1 DEF InStep
    <3>3. Saves(k)'
      BY <1>7, <1>10, <2>1, <3>1 DEF Saves
    <3> QED BY <3>2, <3>3
  <2> QED BY <2>2, <2>3
<1>12. Jobs'
  <2>1. /\ job' \subseteq job /\ late' \subseteq late
        /\ \A j \in job' \cup late' : j.body.hops[1] # p
    BY <1>2
  <2> QED BY <1>1, <1>2, <1>7, <2>1 DEF Jobs
\* Those that remain are not of the peer that ended.
<1>13. pc = "call" => \A j \in job' \cup late' : j.body.wire = wire => hops[1] # p
  <2> SUFFICES ASSUME pc = "call", NEW j \in job' \cup late', j.body.wire = wire
               PROVE  hops[1] # p
    OBVIOUS
  <2>1. j \in job \cup late /\ j.body.hops[1] # p
    BY <1>2
  <2>2. j.body = body /\ body.hops = hops
    BY <1>1, <2>1, CallIs DEF Jobs, Active
  <2> QED BY <2>1, <2>2
<1>14. pc = "call" => \A j \in job' : j \in job /\ j.body.wire = wire /\ hops[1] # p
  <2> SUFFICES ASSUME pc = "call", NEW j \in job' PROVE j \in job /\ j.body.wire = wire
    BY <1>13
  <2>1. j \in job
    BY <1>2
  <2>2. j.body = body /\ body.wire = wire
    BY <1>1, <2>1, CallIs DEF Jobs
  <2> QED BY <2>1, <2>2
<1>15. Working'
  <2> SUFFICES ASSUME pc = "call" PROVE Working'
    BY <1>2 DEF Working
  <2>1. ASSUME NEW j \in job' \cup late', j.body.wire = wire
        PROVE  /\ j.at \in {"waiting", "onward"} => S(1)'.open
               /\ j.at = "onward" => j.hidden = Req(2)'.toks /\ RanStage(1)'
    <3>1. j \in job \cup late /\ S(1)' = S(1)
      BY <1>2, <1>9, <1>13, <2>1
    <3>2. /\ j.at \in {"waiting", "onward"} => S(1).open
          /\ j.at = "onward" => j.hidden = Req(2).toks /\ RanStage(1)
      BY <1>1, <2>1, <3>1 DEF Working
    <3> QED BY <1>7, <1>10, <3>1, <3>2
  <2>2. ASSUME NEW j \in job'
        PROVE  /\ IF j.at = "done" THEN j.status \in {200, 404, 409, 502} ELSE j.status = 0
               /\ j.at = "done" /\ j.status = 200 =>
                    j.out = Hidden(Full, 0)' /\ C(1)' # {} /\ RanStage(1)' /\ RanStage(2)'
               /\ j.at = "onward" \/ (j.at = "done" /\ j.status # 404) =>
                    \A m \in late' : m.body.wire # wire
    <3>1. j \in job /\ C(1)' = C(1) /\ late' \subseteq late
      BY <1>2, <1>9, <1>14
    <3>2. /\ IF j.at = "done" THEN j.status \in {200, 404, 409, 502} ELSE j.status = 0
          /\ j.at = "done" /\ j.status = 200 =>
               j.out = Hidden(Full, 0) /\ C(1) # {} /\ RanStage(1) /\ RanStage(2)
          /\ j.at = "onward" \/ (j.at = "done" /\ j.status # 404) =>
               \A m \in late : m.body.wire # wire
      BY <1>1, <3>1 DEF Working
    <3>3. Hidden(Full, 0)' = Hidden(Full, 0)
      BY <1>7 DEF Hidden
    <3> QED BY <1>10, <3>1, <3>2, <3>3
  <2>3. Hidden(Full, 0)' = Hidden(Full', 0)
    BY DEF Hidden
  <2> QED BY <1>2, <2>1, <2>2, <2>3 DEF Working
<1>16. Orphans'
  <2>1. \A x \in Peer, y \in Wire : sess'[x][y].open => sess[x][y].open
    BY <1>3, <1>4
  <2> QED BY <1>1, <1>2, <2>1 DEF Orphans
<1>17. Charged'
  <2>1. faults' \in 0..MaxFaults /\ faults' > faults /\ faults' >= faults /\ wire <= faults'
    <3>1. faults' \in 0..MaxFaults /\ faults' > faults /\ wire <= faults'
      BY <1>1, <1>2, FaultPays
    <3> QED BY <1>8, <3>1
  <2>2. \A k \in 1..2 : Stepping /\ Tired(k)' => wire <= faults'
    BY <2>1
  <2>3. \A k \in 1..2 : Active /\ Missing(k)' => Missing(k) \/ faults' > faults
    BY <2>1
  <2>4. \A j \in job' : j.at = "done" => /\ j.status = 404 => Missing(1)'
                                         /\ j.status = 409 => Missing(2)'
    <3> SUFFICES ASSUME NEW j \in job', j.at = "done"
                 PROVE  /\ j.status = 404 => Missing(1)'
                        /\ j.status = 409 => Missing(2)'
      OBVIOUS
    <3>1. pc = "call"
      BY <1>1, <1>2 DEF Jobs
    <3>2. j \in job /\ S(1)' = S(1) /\ C(1)' = C(1) /\ (S(2)' = S(2) \/ ~S(2)'.open)
      BY <1>4, <1>9, <1>14, <3>1
    <3>3. /\ j.status = 404 => Missing(1)
          /\ j.status = 409 => Missing(2)
      BY <1>1, <3>2 DEF Charged
    <3> QED BY <1>7, <3>2, <3>3 DEF Missing
  <2> QED BY <1>1, <1>2, <2>1, <2>2, <2>3, <2>4, StillCharged
<1> QED BY <1>5, <1>6, <1>11, <1>12, <1>15, <1>16, <1>17 DEF IInv

-----------------------------------------------------------------------------
\* The steps that take the client on.

\* Between its calls no handler is waited for, and none works on its session.
LEMMA Quiet ==
  ASSUME Jobs, pc \in {"idle", "replay"}
  PROVE  job = {} /\ \A m \in late : m.body.wire # wire
  BY DEF Jobs, Active

\* A step after which no peer of the route is more to blame than before.
Blameless == \A k \in 1..2 : (Missing(k)' => Missing(k)) /\ ~Tired(k)'

\* A call begins where the peers are, with the cut that is due.
LEMMA Begun ==
  ASSUME IInv, pc \in {"idle", "replay"}, pc' = "call", sends' = 0, body'.req.cut = Coming,
         Base' = Base, UNCHANGED <<sess, chained, up, dead, hops, wire>>,
         UNCHANGED <<left, job, late, faults, missed>>
  PROVE  /\ Held' /\ Data' /\ Jobs' /\ Working' /\ Orphans' /\ Charged'
         /\ Blameless
<1>1. /\ Held /\ Places /\ Data /\ Jobs /\ Orphans /\ Charged
  BY DEF IInv
<1>2. job = {} /\ \A m \in late : m.body.wire # wire
  BY <1>1, Quiet
<1>3. \A k \in 1..2 : S(k)' = S(k) /\ C(k)' = C(k) /\ Fed(k)' = Fed(k)
  BY DEF S, C, Fed
<1>4. Active /\ Active' /\ Coming' = Coming
  BY DEF Active, Coming
<1>5. Held'
  BY <1>1, HeldOn DEF peers
<1>6. Data'
  <2>1. \A k \in 1..2 : /\ SettledSession(S(k)) /\ Holds(S(k), Fed(k), Coming)
                        /\ \A l \in C(k) : l.key.start < Len(Base)
    BY <1>1, <1>4 DEF Data, InStep, Saves
  <2>2. \A k \in 1..2 : InStep(k)' /\ Saves(k)'
    BY <1>3, <1>4, <2>1 DEF InStep, Saves
  <2> QED BY <2>2 DEF Data
<1>7. Jobs'
  BY <1>1, <1>2, <1>4 DEF Jobs
<1>8. Working'
  BY <1>2 DEF Working
<1>9. Orphans'
  BY <1>1 DEF Orphans
<1>10. Charged'
  <2>1. \A k \in 1..2 : Missing(k)' <=> Missing(k)
    BY <1>3 DEF Missing
  <2>2. \A k \in 1..2 : ~Tired(k)'
    BY <1>2 DEF Tired
  <2>3. wire = 1 => dead = {}
    BY <1>1 DEF Charged, Places, Again
  <2> QED BY <1>1, <1>2, <1>4, <2>1, <2>2, <2>3 DEF Charged
<1>11. Blameless
  BY <1>2, <1>3 DEF Blameless, Missing, Tired
<1> QED BY <1>5, <1>6, <1>7, <1>8, <1>9, <1>10, <1>11

\* A step is begun.
LEMMA StepStep ==
  ASSUME IInv, NEW toks \in Pieces, Step(toks)
  PROVE  IInv' /\ Blameless
<1>1. /\ Held /\ Places /\ Calling /\ Data /\ Jobs /\ Working /\ Orphans /\ Charged
  BY DEF IInv
<1>2. /\ pc = "idle" /\ pc' = "call" /\ why' = "step" /\ sends' = 0 /\ blame' = 1
      /\ piece' = [start |-> Len(text), toks |-> toks]
      /\ body' = Body(wire, hops, Len(text), toks, cut)
      /\ UNCHANGED <<sess, chained, up, dead, hops, wire>>
      /\ UNCHANGED <<left, job, late, faults, missed>>
      /\ UNCHANGED <<hist, cut, checked, fresh, replayed>> /\ UNCHANGED <<text, seen, outcome>>
  BY DEF Step, Start, peers, textVars
<1>3. Base = text /\ Base' = text
  BY <1>2 DEF Base
<1>4. body'.req = ForwardRequest(Len(text), toks, cut) /\ body'.req.cut = cut /\ body'.req.toks = toks
  BY <1>2 DEF Body, ForwardRequest
<1>5. Coming = cut
  BY <1>2 DEF Coming
<1>6. /\ toks \in Seq(Token) /\ toks # <<>> /\ text \in Seq(Token) /\ Len(text) \in Nat
      /\ cut \in {NoCut, Len(text)}
  BY <1>1, <1>2, PieceTypes, BaseIs DEF Places
<1>7. Held' /\ Data' /\ Jobs' /\ Working' /\ Orphans' /\ Charged' /\ Blameless
  BY <1>2, <1>3, <1>4, <1>5, Begun
<1>8. Calling'
  BY <1>2, <1>3, <1>4, <1>6 DEF Calling
<1>9. Places'
  <2>1. piece' \in Piece /\ piece'.start = Len(text) /\ piece'.toks = toks
    BY <1>2, <1>6 DEF Piece
  <2>2. sends' \in 0..MaxSends /\ blame' \in 1..2
    BY <1>2, ChainAssumption
  <2>3. ~Again' /\ Stepping'
    BY <1>2 DEF Again, Stepping
  <2>4. text = <<>> => wire = 1
    BY <1>1, <1>2 DEF Places
  <2> QED BY <1>1, <1>2, <2>1, <2>2, <2>3, <2>4 DEF Places
<1> QED BY <1>7, <1>8, <1>9 DEF IInv

\* The kept pieces are sent again in order, and then the one that failed.
LEMMA ReplayStep ==
  ASSUME IInv, Replay
  PROVE  IInv' /\ Blameless
<1> DEFINE last == replayed = Len(hist)
           toks == IF last THEN piece.toks ELSE hist[replayed + 1].toks
<1>1. /\ Held /\ Places /\ Calling /\ Data /\ Jobs /\ Working /\ Orphans /\ Charged
  BY DEF IInv
<1>2. /\ text \in Seq(Token) /\ Len(text) \in Nat /\ hist \in Seq(Piece) /\ Tiles(hist, text)
      /\ replayed \in 0..Len(hist) /\ Len(hist) \in Nat
      /\ piece \in Piece /\ piece.start = Len(text) /\ piece.toks \in Pieces
  <2>1. pc = "replay"
    BY DEF Replay
  <2> QED BY <1>1, <2>1 DEF Places
<1>3. /\ pc = "replay" /\ pc' = "call" /\ sends' = 0 /\ blame' = 1
      /\ why' = IF last THEN "again" ELSE "replay"
      /\ body' = Body(wire, hops, IF last THEN piece.start ELSE hist[replayed + 1].start, toks, NoCut)
      /\ UNCHANGED <<sess, chained, up, dead, hops, wire>>
      /\ UNCHANGED <<left, job, late, faults, missed>>
      /\ UNCHANGED <<hist, cut, checked, piece, fresh, replayed>> /\ UNCHANGED <<text, seen, outcome>>
  BY <1>2 DEF Replay, Start, peers, client, textVars
<1>4. Base = SubSeq(text, 1, FedTo) /\ Len(Base) = FedTo
  BY <1>1, <1>3, BaseIs
<1>5. last => FedTo = Len(text)
  BY <1>2, Empty DEF FedTo, EndOf, Tiles
<1>6. Base' = Base
  <2>1. CASE last
    <3>1. Base' = text
      BY <1>3, <2>1 DEF Base
    <3>2. SubSeq(text, 1, Len(text)) = text
      BY <1>2
    <3> QED BY <1>4, <1>5, <2>1, <3>1, <3>2
  <2>2. CASE ~last
    <3>1. FedTo' = FedTo
      BY <1>3 DEF FedTo, EndOf
    <3> QED BY <1>3, <1>4, <2>2, <3>1 DEF Base
  <2> QED BY <2>1, <2>2
<1>7. toks \in Seq(Token) /\ toks # <<>>
      /\ Len(Base) = IF last THEN piece.start ELSE hist[replayed + 1].start
  <2>1. CASE last
    BY <1>2, <1>4, <1>5, <2>1, PieceTypes
  <2>2. CASE ~last
    <3>1. replayed \in Nat /\ replayed + 1 \in 1..Len(hist)
      BY <1>2, <2>2
    <3>2. /\ hist[replayed + 1].start = EndOf(hist, replayed)
          /\ hist[replayed + 1].toks \in Seq(Token) /\ hist[replayed + 1].toks # <<>>
      BY <1>2, <3>1, NextPiece
    <3> QED BY <1>4, <2>2, <3>2 DEF FedTo
  <2> QED BY <2>1, <2>2
<1> HIDE DEF toks
<1>8. body' = Body(wire, hops, Len(Base), toks, NoCut)
  BY <1>3, <1>7
<1>9. body'.req.cut = NoCut /\ body'.req.toks = toks
  BY <1>8 DEF Body, ForwardRequest
<1>10. Coming = NoCut
  BY <1>3 DEF Coming
<1>11. Held' /\ Data' /\ Jobs' /\ Working' /\ Orphans' /\ Charged' /\ Blameless
  BY <1>3, <1>6, <1>9, <1>10, Begun
<1>12. Calling'
  <2>1. body' = Body(wire', hops', Len(Base'), body'.req.toks, body'.req.cut)
    BY <1>3, <1>6, <1>8, <1>9
  <2>2. why' # "replay" => body'.req.toks = piece'.toks
    BY <1>3, <1>9 DEF toks
  <2>3. why' = "replay" => replayed' < Len(hist') /\ body'.req.toks = hist'[replayed' + 1].toks
    BY <1>2, <1>3, <1>9 DEF toks
  <2> QED BY <1>7, <1>9, <2>1, <2>2, <2>3 DEF Calling
<1>13. Places'
  <2>1. sends' \in 0..MaxSends /\ blame' \in 1..2
    BY <1>3, ChainAssumption
  <2>2. wire # 1 /\ ~Stepping'
    BY <1>1, <1>3 DEF Places, Again, Stepping
  <2>3. why' \in {"step", "replay", "again"}
    BY <1>3
  <2> QED BY <1>1, <1>2, <1>3, <2>1, <2>2, <2>3 DEF Places
<1> QED BY <1>11, <1>12, <1>13 DEF IInv

\* An accepted answer is of all that was fed, and both peers have run the piece.
LEMMA GotAnswer ==
  ASSUME IInv, Answered(200)
  PROVE  /\ pc = "call" /\ job # {} /\ (\A j \in job : j.out = Hidden(Full, 0))
         /\ C(1) # {} /\ RanStage(1) /\ RanStage(2) /\ \A m \in late : m.body.wire # wire
         /\ Full \in Seq(Token) /\ Len(Full) \in Nat /\ Full # <<>> /\ Full = Base \o body.req.toks
         /\ Len(Base) \in Nat /\ Len(Base) < Len(Full)
         /\ Fed(1) \o Req(1).toks = Full /\ Fed(2) \o Req(2).toks = Hidden(Full, 0)
         /\ \A k \in 1..2 : Req(k).start = Len(Base)
<1>1. Held /\ Places /\ Calling /\ Data /\ Jobs /\ Working /\ Charged
  BY DEF IInv
<1>2. pc = "call" /\ \E j \in job : j.at = "done" /\ j.status = 200
  BY DEF Answered
<1>3. \A j, k \in job : j = k
  BY <1>1 DEF Jobs
<1>4. \A j \in job : j.at = "done" /\ j.status = 200
  BY <1>2, <1>3
<1>5. /\ job # {} /\ (\A j \in job : j.out = Hidden(Full, 0))
      /\ C(1) # {} /\ RanStage(1) /\ RanStage(2) /\ \A m \in late : m.body.wire # wire
  BY <1>1, <1>2, <1>4 DEF Working
<1>6. /\ Full \in Seq(Token) /\ Len(Full) = Len(Base) + Len(body.req.toks)
      /\ Len(Base) \in Nat /\ Len(Base) < Len(Full) /\ body.req.start = Len(Base)
  BY <1>1, <1>2, CallIs
<1>7. /\ Fed(1) \o Req(1).toks = Full /\ Fed(2) \o Req(2).toks = Hidden(Full, 0)
      /\ \A k \in 1..2 : Req(k).start = Len(Base)
  <2>1. /\ Fed(1) = Base /\ Req(1) = body.req /\ Base \o body.req.toks = Full
        /\ Fed(2) \o Req(2).toks = Hidden(Full, 0) /\ Req(2).start = Len(Base)
    BY <1>1, <1>2, StageIs
  <2>2. Req(1).start = Len(Base) /\ Fed(1) \o Req(1).toks = Full
    BY <1>6, <2>1
  <2>3. \A k \in 1..2 : k = 1 \/ k = 2
    OBVIOUS
  <2> QED BY <2>1, <2>2, <2>3
<1>8. Full # <<>> /\ Len(Full) \in Nat
  BY <1>6
<1> QED BY <1>2, <1>5, <1>6, <1>7, <1>8 DEF Full

\* A session that ran a piece holds any front of its text that ends in it.
LEMMA FrontHeld ==
  ASSUME NEW T, NEW s, NEW t, NEW r, NEW full \in Seq(T), NEW u \in Seq(T), NEW c,
         Ran(s, t, r), full = t \o r.toks, Len(u) <= Len(full),
         \A i \in 1..Len(u) : u[i] = full[i], r.start < Len(u),
         c = NoCut => Len(u) = Len(full)
  PROVE  Holds(s, u, c)
<1> SUFFICES ASSUME s.open
             PROVE  /\ Len(u) <= Len(s.kv) /\ \A i \in 1..Len(u) : s.kv[i] = u[i]
                    /\ c = NoCut => Len(s.kv) = Len(u)
                    /\ \A l \in s.last : l.key.start < Len(u)
  BY DEF Holds
<1>1. s.kv = full /\ \A l \in s.last : l.key = r
  BY DEF Ran
<1> QED BY <1>1

\* After an answer the peers are where the text now ends, or past it with a cut to come.
LEMMA Between ==
  ASSUME IInv, Answered(200), pc' \in {"idle", "replay"}, job' = {}, Len(Base)' \in Nat, Len(Base) < Len(Base)',
         \A k \in 1..2 : Holds(S(k), Fed(k)', Coming'),
         UNCHANGED <<sess, chained, up, dead, hops, wire>>, UNCHANGED <<left, late, faults, missed>>
  PROVE  /\ Held' /\ Data' /\ Jobs' /\ Working' /\ Orphans' /\ Charged'
         /\ Blameless
<1>1. /\ Held /\ Places /\ Data /\ Jobs /\ Orphans /\ Charged
  BY DEF IInv
<1>2. /\ pc = "call" /\ C(1) # {} /\ \A m \in late : m.body.wire # wire
      /\ \A k \in 1..2 : Req(k).start = Len(Base)
      /\ Len(Base) \in Nat
  BY GotAnswer
<1>3. \A k \in 1..2 : S(k)' = S(k) /\ C(k)' = C(k)
  BY DEF S, C
<1>4. Active /\ Active' /\ ~Stepping'
  BY <1>2 DEF Active, Stepping
<1>5. Held'
  BY <1>1, HeldOn DEF peers
<1>6. Data'
  <2>1. \A k \in 1..2 : /\ SettledSession(S(k))
                        /\ \A l \in C(k) : l.key.start < Len(Base) \/ l.key.start = Len(Base)
    BY <1>1, <1>2, <1>4 DEF Data, InStep, Saves
  <2>2. \A k \in 1..2 : InStep(k)'
    BY <1>3, <2>1 DEF InStep
  <2>3. \A k \in 1..2 : Saves(k)'
    <3> SUFFICES ASSUME NEW k \in 1..2, NEW l \in C(k) PROVE l.key.start < Len(Base)'
      BY <1>3 DEF Saves
    <3> DEFINE a == l.key.start
               n == Len(Base)
               m == Len(Base)'
    <3>1. a \in Nat /\ n \in Nat /\ m \in Nat /\ (a < n \/ a = n) /\ n < m
      <4>1. hops[1] \in Peer /\ hops[2] \in Peer /\ wire \in Wire
        BY <1>1, Route
      <4>2. C(k) \in SUBSET AnySaved
        BY <1>1, <4>1 DEF C, Held
      <4>3. l.key.start \in Nat
        BY <4>2 DEF AnySaved, RequestOf
      <4> QED BY <1>2, <2>1, <4>3
    <3> HIDE DEF a, n, m
    <3>2. a < m
      BY <3>1
    <3> QED BY <3>2 DEF a, m
  <2> QED BY <2>2, <2>3 DEF Data
<1>7. Jobs'
  BY <1>1, <1>2, <1>4 DEF Jobs
<1>8. Working'
  BY DEF Working
<1>9. Orphans'
  BY <1>1, <1>2 DEF Orphans
<1>10. Charged'
  <2>1. \A k \in 1..2 : Missing(k)' => Missing(k)
    BY <1>2, <1>3 DEF Missing
  <2>2. \A k \in 1..2 : Active /\ Missing(k) => wire <= faults
    BY <1>1 DEF Charged
  <2>3. \A k \in 1..2 : Active' /\ Missing(k)' => wire <= faults
    BY <1>4, <2>1, <2>2
  <2> QED BY <1>1, <1>2, <1>4, <2>3 DEF Charged
<1>11. Blameless
  BY <1>2, <1>3 DEF Blameless, Missing, Tired
<1> QED BY <1>5, <1>6, <1>7, <1>8, <1>9, <1>10, <1>11

\* A kept piece has its answer.
LEMMA ReplayedStep ==
  ASSUME IInv, Replayed
  PROVE  IInv' /\ Blameless
<1>1. /\ Held /\ Places /\ Calling /\ Data /\ Jobs /\ Working /\ Orphans /\ Charged
  BY DEF IInv
<1>2. /\ Answered(200) /\ pc = "call" /\ why = "replay"
      /\ replayed' = replayed + 1 /\ pc' = "replay" /\ job' = {}
      /\ UNCHANGED <<sess, chained, up, dead, hops, wire>> /\ UNCHANGED <<left, late, faults, missed>>
      /\ UNCHANGED <<hist, cut, checked, piece, fresh>> /\ UNCHANGED <<why, body, sends, blame>>
      /\ UNCHANGED <<text, seen, outcome>>
  BY DEF Replayed, Answered, peers, callVars, textVars
<1>3. /\ text \in Seq(Token) /\ hist \in Seq(Piece) /\ Tiles(hist, text) /\ replayed \in Nat
      /\ replayed < Len(hist) /\ body.req.toks = hist[replayed + 1].toks /\ Len(hist) \in Nat
  BY <1>1, <1>2 DEF Places, Calling
<1>4. Base = SubSeq(text, 1, EndOf(hist, replayed))
  BY <1>2 DEF Base, FedTo
<1>5. Base' = SubSeq(text, 1, EndOf(hist, replayed + 1))
  <2>1. FedTo' = EndOf(hist, replayed + 1)
    BY <1>2 DEF FedTo, EndOf
  <2> QED BY <1>2, <2>1 DEF Base
<1>6. Base \o body.req.toks = SubSeq(text, 1, EndOf(hist, replayed + 1))
  <2>1. replayed + 1 \in 1..Len(hist)
    BY <1>3
  <2>2. SubSeq(text, 1, EndOf(hist, replayed)) \o hist[replayed + 1].toks
          = SubSeq(text, 1, EndOf(hist, replayed + 1))
    BY <1>3, <2>1, NextPiece
  <2> QED BY <1>3, <1>4, <2>2
<1>7. /\ Full \in Seq(Token) /\ Len(Full) \in Nat /\ Full = Base \o body.req.toks
      /\ Len(Base) < Len(Full) /\ RanStage(1) /\ RanStage(2)
      /\ Fed(1) \o Req(1).toks = Full /\ Fed(2) \o Req(2).toks = Hidden(Full, 0)
      /\ \A k \in 1..2 : Req(k).start = Len(Base)
  BY <1>2, GotAnswer
<1>8. Base' = Full
  BY <1>5, <1>6, <1>7
<1>9. Coming' = NoCut
  BY <1>2 DEF Coming
<1>10. \A k \in 1..2 : Holds(S(k), Fed(k)', Coming')
  <2>1. Fed(1)' = Full /\ Fed(2)' = Hidden(Full, 0)
    BY <1>8 DEF Fed, Hidden
  <2>2. Hidden(Full, 0) \in Seq(Seq(Token)) /\ Len(Hidden(Full, 0)) = Len(Full)
    <3>1. 0 \in 0..Len(Full) /\ Len(Full) - 0 = Len(Full)
      BY <1>7
    <3> QED BY <1>7, <3>1, HiddenIs
  <2>3. Ran(S(1), Fed(1), Req(1)) /\ Ran(S(2), Fed(2), Req(2))
    BY <1>7 DEF RanStage
  <2>4. Holds(S(1), Full, NoCut)
    <3>0. Req(1).start = Len(Base)
      BY <1>7
    <3>1. Len(Full) <= Len(Full) /\ Req(1).start < Len(Full)
      BY <1>7, <3>0
    <3> QED BY <1>7, <2>3, <3>1, FrontHeld
  <2>5. Holds(S(2), Hidden(Full, 0), NoCut)
    <3> DEFINE h == Hidden(Full, 0)
               T == Seq(Token)
    <3>1. h \in Seq(T) /\ Len(h) = Len(Full)
      BY <2>2
    <3> HIDE DEF h, T
    <3>2. h = Fed(2) \o Req(2).toks
      BY <1>7 DEF h
    <3>3. Len(h) <= Len(h) /\ Req(2).start < Len(h)
      BY <1>7, <3>1
    <3>4. Holds(S(2), h, NoCut)
      BY <2>3, <3>1, <3>2, <3>3, FrontHeld
    <3> QED BY <3>4 DEF h
  <2>6. \A k \in 1..2 : k = 1 \/ k = 2
    OBVIOUS
  <2> QED BY <1>9, <2>1, <2>4, <2>5, <2>6
<1>11. Held' /\ Data' /\ Jobs' /\ Working' /\ Orphans' /\ Charged' /\ Blameless
  <2>1. Len(Base)' = Len(Full)
    BY <1>8
  <2>2. Len(Base)' \in Nat /\ Len(Base) < Len(Base)'
    BY <1>7, <2>1
  <2> QED BY <1>2, <1>10, <2>2, Between
<1>12. Calling'
  BY <1>2 DEF Calling
<1>13. Places'
  <2>1. replayed' \in 0..Len(hist)
    BY <1>2, <1>3
  <2>2. wire # 1 /\ ~Stepping'
    BY <1>1, <1>2 DEF Places, Again, Stepping
  <2> QED BY <1>1, <1>2, <2>1, <2>2 DEF Places
<1> QED BY <1>11, <1>12, <1>13 DEF IInv

\* The kept pieces h of the text t become g with the piece p, kept up to n.
Extends(h, t, p, n, g) ==
  /\ h \in Seq(Piece) /\ t \in Seq(Token) /\ Tiles(h, t)
  /\ p \in Piece /\ p.start = Len(t) /\ p.toks # <<>>
  /\ n \in Len(t) + 1 .. Len(t \o p.toks)
  /\ g = IF n < Len(t \o p.toks) THEN CutHistory(Append(h, p), n) ELSE Append(h, p)
Extended(h, u, g) == g \in Seq(Piece) /\ Tiles(g, u) /\ Len(g) = Len(h) + 1

\* They are one more, and are the text that is kept.
LEMMA KeptPieces ==
  ASSUME NEW h, NEW t, NEW p, NEW n, NEW g, Extends(h, t, p, n, g)
  PROVE  Extended(h, SubSeq(t \o p.toks, 1, n), g)
<1> DEFINE sent == Append(h, p)
           full == t \o p.toks
<1>0. /\ h \in Seq(Piece) /\ t \in Seq(Token) /\ Tiles(h, t)
      /\ p \in Piece /\ p.start = Len(t) /\ p.toks # <<>>
      /\ n \in Len(t) + 1 .. Len(full)
      /\ g = IF n < Len(full) THEN CutHistory(sent, n) ELSE sent
  BY DEF Extends
<1>1. /\ full \in Seq(Token) /\ Len(full) \in Nat /\ Len(t) \in Nat /\ Len(h) \in Nat
  BY <1>0, Joined DEF Piece
<1>2. sent \in Seq(Piece) /\ Len(sent) = Len(h) + 1 /\ Tiles(sent, full)
  BY <1>0, AppendTiles
<1>3. \A i \in 1..Len(sent) : sent[i].start < n
  <2>1. \A i \in 1..Len(h) : h[i].start < Len(t) /\ h[i].start \in Nat
    BY <1>0, <1>1, TileBounds
  <2>2. \A i \in 1..Len(sent) : (i \in 1..Len(h) /\ sent[i] = h[i]) \/ sent[i] = p
    BY <1>0, <1>1
  <2> QED BY <1>0, <1>1, <2>1, <2>2
<1> HIDE DEF sent, full
<1>4. n < Len(full) => Extended(h, SubSeq(full, 1, n), g)
  <2> SUFFICES ASSUME n < Len(full) PROVE Extended(h, SubSeq(full, 1, n), g)
    OBVIOUS
  <2>1. n \in 0..Len(full)
    BY <1>0, <1>1
  <2>2. /\ CutHistory(sent, n) \in Seq(Piece) /\ Len(CutHistory(sent, n)) = Len(sent)
        /\ Tiles(CutHistory(sent, n), SubSeq(full, 1, n))
    BY <1>1, <1>2, <1>3, <2>1, CutTiles
  <2> QED BY <1>0, <1>2, <2>2 DEF Extended
<1>5. ~(n < Len(full)) => Extended(h, SubSeq(full, 1, n), g)
  <2> SUFFICES ASSUME ~(n < Len(full)) PROVE Extended(h, SubSeq(full, 1, n), g)
    OBVIOUS
  <2>1. n = Len(full)
    BY <1>0, <1>1
  <2>2. SubSeq(full, 1, n) = full
    BY <1>1, <2>1
  <2> QED BY <1>0, <1>2, <2>2 DEF Extended
<1> QED BY <1>4, <1>5 DEF full

\* A step is accepted, up to the drafts that were right.
LEMMA AcceptStep ==
  ASSUME IInv, NEW n \in 1..MaxLen, Accept(n)
  PROVE  IInv' /\ Blameless
<1> DEFINE sent == Append(hist, piece)
<1>1. /\ Held /\ Places /\ Calling /\ Data /\ Jobs /\ Working /\ Orphans /\ Charged
  BY DEF IInv
<1>2. /\ Answered(200) /\ why \in {"step", "again"} /\ pc = "call"
      /\ n \in Len(text) + 1 .. Len(text \o piece.toks)
      /\ text' = SubSeq(text \o piece.toks, 1, n)
      /\ \E j \in job : seen' = Last(j.out)
      /\ IF n < Len(text \o piece.toks) THEN hist' = CutHistory(sent, n) /\ cut' = n
                                        ELSE hist' = sent /\ cut' = NoCut
      /\ job' = {} /\ pc' = "idle"
      /\ UNCHANGED <<sess, chained, up, dead, hops, wire>> /\ UNCHANGED <<left, late, faults, missed>>
      /\ UNCHANGED <<checked, piece, fresh, replayed>> /\ UNCHANGED <<why, body, sends, blame>>
      /\ outcome' = outcome
  BY DEF Accept, Answered, Truncate, peers, callVars
<1>3. Base = text /\ body.req.toks = piece.toks
  <2>1. Base = text
    BY <1>2 DEF Base
  <2>2. body.req.toks = piece.toks
    BY <1>1, <1>2 DEF Calling
  <2> QED BY <2>1, <2>2
<1>4. /\ Full \in Seq(Token) /\ Len(Full) \in Nat /\ Full = Base \o body.req.toks
      /\ Len(Base) < Len(Full) /\ RanStage(1) /\ RanStage(2) /\ Len(Base) \in Nat
      /\ Fed(1) \o Req(1).toks = Full /\ Fed(2) \o Req(2).toks = Hidden(Full, 0)
      /\ (\A k \in 1..2 : Req(k).start = Len(Base)) /\ Full # <<>>
      /\ \A j \in job : j.out = Hidden(Full, 0)
  BY <1>2, GotAnswer
<1>5. Full = text \o piece.toks
  BY <1>3, <1>4
<1> HIDE DEF Full, Base
<1>6. n \in 0..Len(Full) /\ Len(text) < n /\ n \in Nat /\ n # 0
  BY <1>2, <1>3, <1>4, <1>5
<1>7. /\ text' \in Seq(Token) /\ Len(text') = n /\ text' = SubSeq(Full, 1, n)
      /\ \A i \in 1..n : text'[i] = Full[i]
  <2>1. text' = SubSeq(Full, 1, n)
    BY <1>2, <1>5
  <2>2. /\ SubSeq(Full, 1, n) \in Seq(Token) /\ Len(SubSeq(Full, 1, n)) = n
        /\ \A i \in 1..n : SubSeq(Full, 1, n)[i] = Full[i]
    BY <1>4, <1>6, Taken
  <2> QED BY <2>1, <2>2
<1>8. Base' = text' /\ Coming' = cut'
  BY <1>2 DEF Base, Coming
<1>9. cut' \in {NoCut, n} /\ (cut' = NoCut => n = Len(Full))
  <2>1. NoCut # n
    BY <1>6 DEF NoCut
  <2> QED BY <1>2, <1>5, <1>6, <2>1
<1>10. \A k \in 1..2 : Holds(S(k), Fed(k)', Coming')
  <2>1. Fed(1)' = text' /\ Fed(2)' = Hidden(text', 0)
    BY <1>8 DEF Fed, Hidden
  <2>2. Ran(S(1), Fed(1), Req(1)) /\ Ran(S(2), Fed(2), Req(2))
    BY <1>4 DEF RanStage
  <2>3. Req(1).start = Len(Base) /\ Req(2).start = Len(Base)
    BY <1>4
  <2>4. Holds(S(1), text', cut')
    <3>1. Len(text') <= Len(Full) /\ Req(1).start < Len(text') /\ (cut' = NoCut => Len(text') = Len(Full))
      BY <1>3, <1>6, <1>7, <1>9, <2>3
    <3>2. \A i \in 1..Len(text') : text'[i] = Full[i]
      BY <1>7
    <3> QED BY <1>4, <1>7, <2>2, <3>1, <3>2, FrontHeld
  <2>5. Holds(S(2), Hidden(text', 0), cut')
    <3> DEFINE h == Hidden(Full, 0)
               g == Hidden(text', 0)
               T == Seq(Token)
    <3>1. h \in Seq(T) /\ Len(h) = Len(Full) /\ g \in Seq(T) /\ Len(g) = n
      <4>1. 0 \in 0..Len(Full) /\ Len(Full) - 0 = Len(Full) /\ 0 \in 0..Len(text') /\ n - 0 = n
        BY <1>4, <1>6, <1>7
      <4>2. h \in Seq(T) /\ Len(h) = Len(Full) - 0
        BY <1>4, <4>1, HiddenIs
      <4>3. g \in Seq(T) /\ Len(g) = Len(text') - 0
        BY <1>7, <4>1, HiddenIs
      <4> QED BY <1>7, <4>1, <4>2, <4>3
    <3>2. \A i \in 1..n : g[i] = h[i]
      BY <1>4, <1>6, <1>7, HiddenFront
    <3> HIDE DEF h, g, T
    <3>3. h = Fed(2) \o Req(2).toks
      BY <1>4 DEF h
    <3>4. Len(g) <= Len(h) /\ Req(2).start < Len(g) /\ (cut' = NoCut => Len(g) = Len(h))
      BY <1>3, <1>6, <1>9, <2>3, <3>1
    <3>5. \A i \in 1..Len(g) : g[i] = h[i]
      BY <3>1, <3>2
    <3>6. Holds(S(2), g, cut')
      BY <2>2, <3>1, <3>3, <3>4, <3>5, FrontHeld
    <3> QED BY <3>6 DEF g
  <2>6. \A k \in 1..2 : k = 1 \/ k = 2
    OBVIOUS
  <2> QED BY <1>8, <2>1, <2>4, <2>5, <2>6
<1>11. Held' /\ Data' /\ Jobs' /\ Working' /\ Orphans' /\ Charged' /\ Blameless
  <2>1. Len(Base)' = n
    BY <1>7, <1>8
  <2>2. Len(Base)' \in Nat /\ Len(Base) < Len(Base)'
    BY <1>3, <1>6, <2>1
  <2> QED BY <1>2, <1>10, <2>2, Between
<1>12. Calling'
  BY <1>2 DEF Calling
<1>13. hist' \in Seq(Piece) /\ Tiles(hist', text') /\ replayed' \in 0..Len(hist')
  <2>1. /\ text \in Seq(Token) /\ hist \in Seq(Piece) /\ Tiles(hist, text) /\ replayed \in 0..Len(hist)
        /\ piece \in Piece /\ piece.start = Len(text) /\ piece.toks \in Pieces
    BY <1>1, <1>2 DEF Places
  <2>2. hist' = IF n < Len(text \o piece.toks) THEN CutHistory(sent, n) ELSE sent
    BY <1>2
  <2>3. piece.toks # <<>>
    BY <2>1, PieceTypes
  <2>4. Extends(hist, text, piece, n, hist')
    BY <1>2, <2>1, <2>2, <2>3 DEF Extends
  <2>5. Extended(hist, SubSeq(text \o piece.toks, 1, n), hist')
    BY <2>4, KeptPieces
  <2>6. hist' \in Seq(Piece) /\ Tiles(hist', text') /\ Len(hist') = Len(hist) + 1
    BY <1>2, <2>5 DEF Extended
  <2> QED BY <1>2, <2>1, <2>6
<1>14. seen' = Full
  BY <1>2, <1>4, HiddenLast
<1>15. Places'
  <2>1. ~Again' /\ ~Stepping' /\ text' # <<>>
    BY <1>2, <1>6, <1>7 DEF Again, Stepping
  <2>2. cut' \in Nat \cup {NoCut} /\ cut' \in {NoCut, Len(text')}
    BY <1>6, <1>7, <1>9
  <2>3. seen' \in Seq(Token)
    BY <1>4, <1>14
  <2> QED BY <1>1, <1>2, <1>7, <1>13, <2>1, <2>2, <2>3 DEF Places
<1> QED BY <1>11, <1>12, <1>15 DEF IInv

\* The first peer of a stage that is not marked, or the primary.
LEMMA FirstIs ==
  ASSUME NEW T, NEW known \in Seq(T), known # <<>>, NEW marked
  PROVE  /\ FirstAlive(known, marked) \in ToSet(known)
         /\ ~(ToSet(known) \subseteq marked) => FirstAlive(known, marked) \notin marked
<1> DEFINE live == {i \in DOMAIN known : known[i] \notin marked}
           first == CHOOSE i \in live : \A k \in live : i <= k
<1>1. DOMAIN known = 1..Len(known) /\ 1 \in DOMAIN known
  OBVIOUS
<1>2. ToSet(known) = {known[i] : i \in DOMAIN known}
  BY DEF ToSet
<1>3. live \subseteq Nat
  BY <1>1
<1>4. live # {} => first \in live
  <2> SUFFICES ASSUME live # {} PROVE first \in live
    OBVIOUS
  <2> HIDE DEF live
  <2>1. \E i \in live : \A k \in live : i <= k
    BY <1>3, Least
  <2> QED BY <2>1
<1>5. FirstAlive(known, marked) = known[IF live = {} THEN 1 ELSE first]
  BY DEF FirstAlive
<1> HIDE DEF first
<1>6. CASE live = {}
  <2>1. FirstAlive(known, marked) = known[1]
    BY <1>5, <1>6
  <2>2. ToSet(known) \subseteq marked
    BY <1>2, <1>6
  <2> QED BY <1>1, <1>2, <2>1, <2>2
<1>7. CASE live # {}
  <2>1. FirstAlive(known, marked) = known[first] /\ first \in live
    BY <1>4, <1>5, <1>7
  <2> QED BY <1>2, <2>1
<1> QED BY <1>6, <1>7

\* The peers of each stage.
LEMMA KnownIs ==
  ASSUME NEW k \in 1..2
  PROVE  /\ Known[k] \in Seq(Peer) /\ Known[k] # <<>> /\ ToSet(Known[k]) \subseteq Peer
<1> DEFINE P == Peer
<1>1. Known \in Seq(Seq(P)) /\ Len(Known) = 2 /\ Known[k] # <<>>
  BY ChainAssumption
<1> HIDE DEF P
<1>2. Known[k] \in Seq(P)
  <2> DEFINE T == Seq(P)
             s == Known
  <2>1. s \in Seq(T) /\ k \in 1..Len(s)
    BY <1>1
  <2> HIDE DEF T, s
  <2>2. s[k] \in T
    BY <2>1, ElementOfSeq
  <2> QED BY <2>2 DEF T, s
<1>3. k = 1 \/ k = 2
  OBVIOUS
<1>4. ToSet(Known[k]) \subseteq P
  BY <1>3 DEF P, Peer
<1> QED BY <1>1, <1>2, <1>4 DEF P

\* A route of the peers that are not marked.
LEMMA FreshRoute ==
  ASSUME NEW marked
  PROVE  [k \in 1..2 |-> FirstAlive(Known[k], marked)] \in Routes
<1>1. \A k \in 1..2 : FirstAlive(Known[k], marked) \in ToSet(Known[k])
  BY KnownIs, FirstIs
<1>2. \A k \in 1..2 : FirstAlive(Known[k], marked) \in Peer
  BY <1>1, KnownIs
<1> QED BY <1>1, <1>2 DEF Routes

\* A client that stops asking leaves everything where it is.
LEMMA Stops ==
  ASSUME IInv, pc' \in {"leave", "end"}, left' = {1, 2}, job' = {},
         UNCHANGED <<sess, chained, up, hops, wire>>, UNCHANGED <<late, faults, missed>>,
         pc' = "leave" => wire <= faults
  PROVE  Held' /\ Calling' /\ Data' /\ Jobs' /\ Working' /\ Orphans' /\ Charged'
<1>1. /\ Held /\ Places /\ Jobs /\ Orphans /\ Charged
  BY DEF IInv
<1>2. ~Active' /\ ~Stepping'
  BY DEF Active, Stepping
<1>3. Held'
  BY <1>1, HeldOn DEF peers
<1>4. Calling' /\ Data' /\ Working'
  BY <1>2 DEF Calling, Data, Working
<1>5. Jobs'
  BY <1>1, <1>2 DEF Jobs
<1>6. Orphans'
  BY <1>1 DEF Orphans
<1>7. Charged'
  BY <1>1, <1>2 DEF Charged
<1> QED BY <1>3, <1>4, <1>5, <1>6, <1>7

\* A call is given up only for a fault.
LEMMA GivenUp ==
  ASSUME IInv, why = "step", Answered(404) \/ Answered(409) \/ Exhausted
  PROVE  wire <= faults /\ pc = "call"
<1>1. Charged /\ Places
  BY DEF IInv
<1>2. pc = "call" /\ Stepping /\ Active
  BY DEF Answered, Exhausted, Stepping, Active
<1>3. CASE Answered(404)
  BY <1>1, <1>2, <1>3 DEF Answered, Charged
<1>4. CASE Answered(409)
  BY <1>1, <1>2, <1>4 DEF Answered, Charged
<1>5. CASE Exhausted
  <2>1. Tired(blame) /\ blame \in 1..2
    BY <1>1, <1>2, <1>5, ChainAssumption DEF Exhausted, Tired, Places
  <2> QED BY <1>1, <1>2, <2>1 DEF Charged
<1> QED BY <1>2, <1>3, <1>4, <1>5

\* The peers are picked again.
LEMMA RestartStep ==
  ASSUME IInv, Restart
  PROVE  IInv'
<1>1. /\ Held /\ Places /\ Calling /\ Data /\ Jobs /\ Working /\ Orphans /\ Charged
  BY DEF IInv
<1>2. /\ why = "step" /\ pc' \in {"leave", "end"} /\ left' = {1, 2} /\ job' = {}
      /\ dead' = dead \/ dead' = dead \cup {hops[blame]}
      /\ fresh' = [k \in 1..2 |-> FirstAlive(Known[k], dead')]
      /\ checked' = checked \/ checked' = checked \cup ToSet(fresh')
      /\ \/ pc' = "leave" /\ outcome' = outcome
         \/ pc' = "end" /\ outcome' = "failed"
      /\ UNCHANGED <<sess, chained, up, hops, wire>> /\ UNCHANGED <<late, faults, missed>>
      /\ UNCHANGED <<hist, cut, piece, replayed>> /\ UNCHANGED <<why, body, sends, blame>>
      /\ UNCHANGED <<text, seen>>
  BY DEF Restart, peers, callVars
<1>3. wire <= faults /\ pc = "call"
  BY GivenUp DEF Restart
<1>4. Held' /\ Calling' /\ Data' /\ Jobs' /\ Working' /\ Orphans' /\ Charged'
  BY <1>2, <1>3, Stops
<1>5. fresh' \in Routes
  BY <1>2, FreshRoute
<1>6. Places'
  <2>1. ToSet(fresh') \subseteq Peer
    BY <1>5, RouteRoles
  <2>2. checked' \subseteq Peer /\ dead' \subseteq Peer
    <3>1. hops[blame] \in Peer
      <4>1. hops[1] \in Peer /\ hops[2] \in Peer
        BY <1>1, Route
      <4> QED BY <1>1, <4>1 DEF Places
    <3> QED BY <1>1, <1>2, <2>1, <3>1 DEF Places
  <2>3. ~Again' /\ ~Stepping'
    BY <1>2 DEF Again, Stepping
  <2> QED BY <1>1, <1>2, <1>3, <1>5, <2>2, <2>3 DEF Places
<1> QED BY <1>4, <1>6 DEF IInv

\* The request ends.
LEMMA EndStep ==
  ASSUME IInv, Fail \/ Finish
  PROVE  IInv'
<1>1. /\ Held /\ Places /\ Calling /\ Data /\ Jobs /\ Working /\ Orphans /\ Charged
  BY DEF IInv
<1>2. /\ pc' = "end" /\ outcome' \in {"done", "failed"} /\ left' = {1, 2} /\ job' = {}
      /\ UNCHANGED <<sess, chained, up, hops, wire>> /\ UNCHANGED <<late, faults, missed>>
      /\ UNCHANGED <<dead, hist, cut, checked, piece, fresh, replayed>>
      /\ UNCHANGED <<why, body, sends, blame>> /\ UNCHANGED <<text, seen>>
  BY DEF Fail, Finish, End, peers, client, callVars
<1>3. Held' /\ Calling' /\ Data' /\ Jobs' /\ Working' /\ Orphans' /\ Charged'
  BY <1>2, Stops
<1>4. Places'
  <2>1. ~Again' /\ ~Stepping'
    BY <1>2 DEF Again, Stepping
  <2> QED BY <1>1, <1>2, <2>1 DEF Places
<1> QED BY <1>3, <1>4 DEF IInv

\* Each peer that was in use is told to close, or is known to have missed it.
LEMMA CloseHopStep ==
  ASSUME IInv, pc \in {"leave", "end"}, CloseHop, UNCHANGED <<up, dead, client, pc, callVars>>,
         UNCHANGED <<job, late, textVars>>
  PROVE  IInv'
<1>1. /\ Held /\ Places /\ Calling /\ Data /\ Jobs /\ Working /\ Orphans /\ Charged
  BY DEF IInv
<1>2. /\ UNCHANGED <<up, dead, hops, wire, hist, cut, checked, piece, fresh, replayed>>
      /\ UNCHANGED <<pc, why, body, sends, blame, job, late, text, seen, outcome>>
  BY DEF client, callVars, textVars
<1>3. PICK k \in left :
        /\ left' = left \ {k}
        /\ \/ /\ hops[k] \in up
              /\ sess' = [sess EXCEPT ![hops[k]][wire] = CloseSession(@).session]
              /\ chained' = [chained EXCEPT ![hops[k]][wire] = {}]
              /\ UNCHANGED <<faults, missed>>
           \/ /\ IF hops[k] \in up THEN Fault ELSE UNCHANGED faults
              /\ missed' = missed \cup {hops[k]} /\ UNCHANGED peers
  BY DEF CloseHop
<1>4. /\ wire \in Wire /\ wire \in Nat /\ faults \in Nat /\ hops[k] \in Peer
  <2>1. /\ wire \in Wire /\ wire \in Nat /\ faults \in Nat /\ hops[1] \in Peer /\ hops[2] \in Peer
    BY <1>1, Route
  <2> QED BY <1>1, <1>3, <2>1 DEF Places
<1>5. /\ Held' /\ \A x \in Peer, y \in Wire : sess'[x][y].open => sess[x][y].open
      /\ \/ missed' = missed /\ ~sess'[hops[k]][wire].open
         \/ missed' = missed \cup {hops[k]}
  <2>1. CASE /\ hops[k] \in up
             /\ sess' = [sess EXCEPT ![hops[k]][wire] = CloseSession(@).session]
             /\ chained' = [chained EXCEPT ![hops[k]][wire] = {}]
             /\ UNCHANGED <<faults, missed>>
    <3> DEFINE p == hops[k]
    <3>1. NoSession \in SessionOf(Position(p)) /\ ~NoSession.open /\ {} \subseteq SavedAt(p)
      BY DEF NoSession, SessionOf
    <3>2. sess' = [sess EXCEPT ![p][wire] = NoSession]
      BY <2>1 DEF CloseSession, Reply
    <3>3. /\ p \in up /\ p \in Peer /\ wire \in Wire /\ wire <= wire
          /\ chained' = [chained EXCEPT ![p][wire] = {}] /\ up' = up /\ wire' = wire
      BY <1>2, <1>4, <2>1
    <3> HIDE DEF p
    <3>5. Put(p, wire, NoSession, {})
      BY <3>1, <3>2, <3>3 DEF Put
    <3>4. Stored(p, wire, NoSession, {})
      BY <1>1, <3>5, PutStores
    <3> QED BY <2>1, <3>1, <3>4 DEF Stored, p
  <2>2. CASE /\ missed' = missed \cup {hops[k]} /\ UNCHANGED peers
    <3>1. Held'
      BY <1>1, <1>2, <2>2, HeldOn
    <3> QED BY <2>2, <3>1 DEF peers
  <2> QED BY <1>3, <2>1, <2>2
<1>6. missed \subseteq missed' /\ missed' \subseteq Peer
  BY <1>1, <1>4, <1>5 DEF Places
<1>7. ~Active' /\ ~Stepping' /\ ~Again'
  BY <1>2 DEF Active, Stepping, Again
<1>8. Places'
  BY <1>1, <1>2, <1>3, <1>6, <1>7 DEF Places
<1>9. Calling' /\ Data' /\ Working'
  BY <1>2, <1>7 DEF Calling, Data, Working
<1>10. Jobs'
  BY <1>1, <1>2, <1>6, <1>7 DEF Jobs
<1>11. Orphans'
  <2> SUFFICES ASSUME NEW p \in Peer \ missed', NEW w \in Wire, sess'[p][w].open
               PROVE  /\ w = wire
                      /\ \E i \in 1..2 : p = hops[i] /\ i \in left \ {k}
    BY <1>2, <1>3 DEF Orphans
  <2>1. p \in Peer \ missed /\ sess[p][w].open
    BY <1>5, <1>6
  <2>2. w = wire /\ \E i \in 1..2 : p = hops[i] /\ i \in left
    BY <1>1, <2>1 DEF Orphans
  <2>3. p # hops[k]
    BY <1>5, <2>2
  <2> QED BY <2>2, <2>3
<1>12. faults' \in 0..MaxFaults /\ (faults' = faults \/ (faults' > faults /\ wire <= faults'))
  <2>1. Fault => faults' \in 0..MaxFaults /\ faults' > faults /\ wire <= faults'
    BY <1>1, FaultPays
  <2>2. Fault \/ faults' = faults
    BY <1>3
  <2> QED BY <1>1, <2>1, <2>2 DEF Charged
<1>13. Charged'
  <2>1. job = {} /\ wire \in Nat \ {0} /\ wire <= faults + 1 /\ (up # Peer => faults > 0)
        /\ (pc = "leave" => wire <= faults)
    BY <1>1 DEF Charged, Jobs
  <2>2. /\ faults' \in Nat /\ wire <= faults' + 1 /\ (up # Peer => faults' > 0)
        /\ (pc = "leave" => wire <= faults')
    <3> DEFINE a == faults
               b == faults'
               n == wire
    <3>1. a \in Nat /\ b \in Nat /\ n \in Nat /\ n <= a + 1 /\ (b = a \/ (b > a /\ n <= b))
          /\ (up # Peer => a > 0) /\ (pc = "leave" => n <= a)
      BY <1>4, <1>12, <2>1, ChainAssumption
    <3> HIDE DEF a, b, n
    <3>2. n <= b + 1 /\ (up # Peer => b > 0) /\ (pc = "leave" => n <= b)
      BY <3>1
    <3> QED BY <3>1, <3>2 DEF a, b, n
  <2> QED BY <1>2, <1>7, <1>12, <2>1, <2>2 DEF Charged
<1> QED BY <1>5, <1>8, <1>9, <1>10, <1>11, <1>13 DEF IInv

\* The session is left, or the client is closed.
LEMMA CloseStep ==
  ASSUME IInv, Leave \/ Close
  PROVE  IInv'
<1>1. CASE Leave
  <2>1. pc = "leave" /\ CloseHop /\ UNCHANGED <<up, dead, client, pc, callVars>>
        /\ UNCHANGED <<job, late, textVars>>
    BY <1>1 DEF Leave
  <2> QED BY <2>1, CloseHopStep
<1>2. CASE Close /\ left # {}
  <2>1. pc = "end" /\ CloseHop /\ UNCHANGED <<up, dead, client, pc, callVars>>
        /\ UNCHANGED <<job, late, textVars>>
    BY <1>2 DEF Close
  <2> QED BY <2>1, CloseHopStep
<1>3. CASE Close /\ left = {}
  <2>1. /\ Held /\ Places /\ Calling /\ Data /\ Jobs /\ Working /\ Orphans /\ Charged
    BY DEF IInv
  <2>2. /\ pc = "end" /\ pc' = "over"
        /\ UNCHANGED <<sess, chained, up, dead, hops, wire, hist, cut, checked, piece, fresh, replayed>>
        /\ UNCHANGED <<why, body, sends, blame, left, job, late, faults, missed, text, seen, outcome>>
    BY <1>3 DEF Close, peers, client, callVars, textVars
  <2>3. ~Active' /\ ~Stepping' /\ ~Again'
    BY <2>2 DEF Active, Stepping, Again
  <2>4. Held'
    BY <2>1, <2>2, HeldOn DEF peers
  <2>5. Places'
    BY <1>3, <2>1, <2>2, <2>3 DEF Places
  <2>6. Calling' /\ Data' /\ Working'
    BY <2>2, <2>3 DEF Calling, Data, Working
  <2>7. Jobs'
    BY <2>1, <2>2, <2>3 DEF Jobs
  <2>8. Orphans'
    BY <2>1, <2>2 DEF Orphans
  <2>9. Charged'
    BY <2>1, <2>2, <2>3 DEF Charged, Jobs
  <2> QED BY <2>4, <2>5, <2>6, <2>7, <2>8, <2>9 DEF IInv
<1> QED BY <1>1, <1>2, <1>3

\* The new session begins with nothing at its peers.
LEMMA RewireStep ==
  ASSUME IInv, Rewire
  PROVE  IInv' /\ \A k \in 1..2 : ~Missing(k)' /\ ~Tired(k)'
<1>1. /\ Held /\ Places /\ Calling /\ Data /\ Jobs /\ Working /\ Orphans /\ Charged
  BY DEF IInv
<1>2. /\ pc = "leave" /\ left = {} /\ pc' = "replay"
      /\ hops' = fresh /\ wire' = wire + 1 /\ cut' = NoCut /\ replayed' = 0
      /\ UNCHANGED <<sess, chained, up, dead, hist, checked, piece, fresh>>
      /\ UNCHANGED <<why, body, sends, blame, left, job, late, faults, missed, text, seen, outcome>>
  BY DEF Rewire, peers, callVars, textVars
<1>3. /\ wire \in Nat \ {0} /\ wire <= faults /\ faults \in 0..MaxFaults /\ MaxFaults \in Nat
  BY <1>1, <1>2, ChainAssumption DEF Charged
<1>4. wire' \in Nat \ {0} /\ wire' > wire /\ wire' <= faults + 1 /\ wire' \in Wire /\ wire' # 1
  BY <1>2, <1>3 DEF Wire
<1>5. fresh \in Routes /\ fresh[1] \in Peer /\ fresh[2] \in Peer
  BY <1>1, RouteRoles DEF Places
<1>6. Held'
  <2>1. \A y \in Wire : y > wire' => y > wire
    BY <1>3, <1>4 DEF Wire
  <2> QED BY <1>1, <1>2, <2>1 DEF Held, Position, SavedAt
<1>7. \A k \in 1..2 : S(k)' = NoSession /\ C(k)' = {}
  <2>1. \A x \in Peer : sess[x][wire'] = NoSession /\ chained[x][wire'] = {}
    BY <1>1, <1>4 DEF Held
  <2>2. \A k \in 1..2 : fresh[k] \in Peer
    BY <1>5
  <2> QED BY <1>2, <2>1, <2>2 DEF S, C
<1>8. ~NoSession.open /\ SettledSession(NoSession)
  BY DEF NoSession, SettledSession
<1>9. Calling' /\ Working'
  BY <1>2 DEF Calling, Working
<1>10. Data'
  BY <1>7, <1>8 DEF Data, InStep, Saves, Holds
<1>11. job = {} /\ \A m \in late : m.body.wire <= wire /\ m.body.wire \in Nat
  <2>1. job = {}
    BY <1>1, <1>2 DEF Jobs
  <2>2. \A m \in late : m \in Job /\ m.body.wire <= wire
    BY <1>1 DEF Jobs
  <2>3. \A m \in Job : m.body.wire \in Nat
    BY DEF Job, Wire
  <2> QED BY <2>1, <2>2, <2>3
<1>12. Jobs'
  <2>1. \A m \in late : m.body.wire <= wire' /\ m.body.wire # wire'
    BY <1>3, <1>4, <1>11
  <2>2. \A m \in late : /\ m \in Job /\ m.body.hops \in Routes /\ m.body.hops[1] \in up
                        /\ m.body.req.op = "forward"
                        /\ m.at = "onward" /\ ToSet(m.body.hops) \subseteq missed
    BY <1>1 DEF Jobs
  <2> QED BY <1>2, <1>11, <2>1, <2>2 DEF Jobs
<1>13. Orphans'
  <2>1. \A p \in Peer \ missed, w \in Wire : ~sess[p][w].open
    BY <1>1, <1>2 DEF Orphans
  <2> QED BY <1>2, <2>1 DEF Orphans
<1>14. ~Missing(1)' /\ ~Missing(2)'
  <2>1. Base' = <<>>
    <3>1. FedTo' = 0
      BY <1>2 DEF FedTo, EndOf
    <3>2. text \in Seq(Token) /\ SubSeq(text, 1, 0) = <<>>
      BY <1>1 DEF Places
    <3> QED BY <1>2, <3>1, <3>2 DEF Base
  <2> QED BY <1>7, <2>1 DEF Missing
<1>15. \A k \in 1..2 : ~Missing(k)' /\ ~Tired(k)'
  <2>1. \A k \in 1..2 : k = 1 \/ k = 2
    OBVIOUS
  <2>2. \A k \in 1..2 : ~Tired(k)'
    BY <1>2 DEF Tired
  <2> QED BY <1>14, <2>1, <2>2
<1>16. Charged'
  <2>2. ~Stepping'
    BY <1>2 DEF Stepping
  <2>3. \A k \in 1..2 : k = 1 \/ k = 2
    OBVIOUS
  <2>4. up # Peer => faults > 0
    BY <1>1 DEF Charged
  <2> QED BY <1>2, <1>3, <1>4, <1>11, <1>14, <2>2, <2>3, <2>4 DEF Charged
<1>17. Places'
  <2>1. replayed' \in 0..Len(hist)
    BY <1>1, <1>2 DEF Places
  <2>2. cut' \in Nat \cup {NoCut}
    BY <1>2
  <2>3. ~Stepping' /\ (Again' => wire' # 1)
    BY <1>2, <1>4 DEF Stepping
  <2> QED BY <1>1, <1>2, <1>5, <2>1, <2>2, <2>3 DEF Places
<1> QED BY <1>6, <1>9, <1>10, <1>12, <1>13, <1>15, <1>16, <1>17 DEF IInv

-----------------------------------------------------------------------------
\* The invariant holds at every moment.

\* It holds at the start.
LEMMA InitInv == Init => IInv
<1> SUFFICES ASSUME Init PROVE IInv
  OBVIOUS
<1>1. /\ sess = [p \in Peer |-> [w \in Wire |-> NoSession]]
      /\ chained = [p \in Peer |-> [w \in Wire |-> {}]]
      /\ up = Peer /\ dead = {} /\ missed = {} /\ left = {} /\ job = {} /\ late = {}
      /\ hops = <<Known[1][1], Known[2][1]>> /\ checked = {Known[1][1], Known[2][1]} /\ fresh = hops
      /\ wire = 1 /\ hist = <<>> /\ cut = NoCut /\ replayed = 0 /\ faults = 0
      /\ pc = "idle" /\ piece = [start |-> 0, toks |-> <<>>] /\ why = "step" /\ sends = 0 /\ blame = 1
      /\ text = <<>> /\ seen = <<>> /\ outcome = "running"
  BY DEF Init
<1>2. \A k \in 1..2 : Known[k][1] \in ToSet(Known[k]) /\ Known[k][1] \in Peer
  <2> SUFFICES ASSUME NEW k \in 1..2
               PROVE  Known[k][1] \in ToSet(Known[k]) /\ Known[k][1] \in Peer
    OBVIOUS
  <2> DEFINE s == Known[k]
  <2>1. s \in Seq(Peer) /\ s # <<>> /\ ToSet(s) \subseteq Peer
    BY KnownIs
  <2> HIDE DEF s
  <2>2. 1 \in DOMAIN s
    BY <2>1
  <2>3. s[1] \in ToSet(s)
    BY <2>2 DEF ToSet
  <2> QED BY <2>1, <2>3 DEF s
<1>3. hops \in Routes /\ hops[1] \in Peer /\ hops[2] \in Peer
  <2>1. 1 \in 1..2 /\ 2 \in 1..2
    OBVIOUS
  <2>2. /\ Known[1][1] \in ToSet(Known[1]) /\ Known[1][1] \in Peer
        /\ Known[2][1] \in ToSet(Known[2]) /\ Known[2][1] \in Peer
    BY <1>2, <2>1
  <2> QED BY <1>1, <2>2 DEF Routes
<1>4. 1 \in Wire /\ MaxFaults \in Nat /\ MaxSends \in Nat
  BY ChainAssumption DEF Wire
<1>5. /\ ~NoSession.open /\ SettledSession(NoSession) /\ NoSession \in AnySession
      /\ \A T : NoSession \in SessionOf(T)
  BY DEF NoSession, SettledSession, AnySession, SessionOf
<1>6. \A p \in Peer, w \in Wire : sess[p][w] = NoSession /\ chained[p][w] = {}
  BY <1>1
<1>7. Held
  <2>1. /\ sess \in [Peer -> [Wire -> AnySession]] /\ chained \in [Peer -> [Wire -> SUBSET AnySaved]]
    BY <1>1, <1>5
  <2> QED BY <1>5, <1>6, <2>1 DEF Held
<1>8. Places
  <2>1. piece \in Piece /\ checked \subseteq Peer
    <3>1. <<>> \in Seq(Token)
      OBVIOUS
    <3>2. checked = {hops[1], hops[2]}
      BY <1>1
    <3> QED BY <1>1, <1>3, <3>1, <3>2 DEF Piece
  <2>2. hist \in Seq(Piece) /\ Tiles(hist, text) /\ replayed \in 0..Len(hist)
    BY <1>1 DEF Tiles
  <2>3. ~Again /\ ~Stepping
    BY <1>1 DEF Again, Stepping
  <2> QED BY <1>1, <1>3, <1>4, <2>1, <2>2, <2>3 DEF Places
<1>9. Calling /\ Working
  BY <1>1 DEF Calling, Working
<1>10. \A k \in 1..2 : S(k) = NoSession /\ C(k) = {}
  BY <1>1, <1>3, <1>4, <1>6 DEF S, C
<1>11. Data
  BY <1>5, <1>10 DEF Data, InStep, Saves, Holds
<1>12. Jobs
  BY <1>1 DEF Jobs
<1>13. Orphans
  BY <1>5, <1>6 DEF Orphans
<1>14. Charged
  <2>1. \A k \in 1..2 : ~Missing(k) /\ ~Stepping
    BY <1>1, <1>10 DEF Missing, Base, Stepping
  <2> QED BY <1>1, <1>4, <2>1 DEF Charged
<1> QED BY <1>7, <1>8, <1>9, <1>11, <1>12, <1>13, <1>14 DEF IInv

\* Nothing changes when nothing happens.
LEMMA NothingStep ==
  ASSUME IInv, UNCHANGED vars
  PROVE  IInv'
<1>1. /\ Held /\ Places /\ Calling /\ Data /\ Jobs /\ Working /\ Orphans /\ Charged
  BY DEF IInv
<1>2. /\ Still /\ UNCHANGED peers
      /\ UNCHANGED <<up, dead, hops, wire, pc, body, sends, blame, job, late, faults, missed>>
  BY DEF vars, Still, client, callVars
<1>3. /\ Held' /\ Places' /\ Calling' /\ Data' /\ Orphans'
      /\ \A k \in 1..2 : /\ S(k)' = S(k) /\ C(k)' = C(k)
                         /\ (RanStage(k)' <=> RanStage(k)) /\ (Missing(k)' <=> Missing(k))
  <2>1. /\ up' \subseteq Peer /\ dead' \subseteq Peer /\ sends' \in 0..MaxSends /\ blame' \in 1..2
        /\ missed' \subseteq Peer
    BY <1>1, <1>2 DEF Places
  <2> QED BY <1>2, <2>1, StillOn
<1>4. /\ Base' = Base /\ Full' = Full /\ (Active' <=> Active) /\ (Stepping' <=> Stepping)
      /\ \A k \in 1..2 : Req(k)' = Req(k)
  BY <1>2, SameCall
<1>5. Jobs'
  BY <1>1, <1>2, <1>4 DEF Jobs
<1>6. Working'
  BY <1>1, <1>2, <1>3, <1>4 DEF Working
<1>7. Charged'
  <2>1. \A k \in 1..2 : (Tired(k)' <=> Tired(k))
    BY <1>2 DEF Tired
  <2> QED BY <1>1, <1>2, <1>3, <1>4, <2>1 DEF Charged
<1> QED BY <1>3, <1>5, <1>6, <1>7 DEF IInv

\* Every step keeps it.
LEMMA NextInv == IInv /\ [Next]_vars => IInv'
<1> SUFFICES ASSUME IInv, [Next]_vars PROVE IInv'
  OBVIOUS
<1>1. ASSUME NEW toks \in Pieces, Step(toks) PROVE IInv'
  BY <1>1, StepStep
<1>2. CASE Send
  BY <1>2, SendStep
<1>3. CASE Retry
  BY <1>3, RetryStep
<1>4. ASSUME NEW n \in 1..MaxLen, Accept(n) PROVE IInv'
  BY <1>4, AcceptStep
<1>5. CASE Restart
  BY <1>5, RestartStep
<1>6. CASE Leave \/ Close
  BY <1>6, CloseStep
<1>7. CASE Rewire
  BY <1>7, RewireStep
<1>8. CASE Replay
  BY <1>8, ReplayStep
<1>9. CASE Replayed
  BY <1>9, ReplayedStep
<1>10. CASE Fail \/ Finish
  BY <1>10, EndStep
<1>11. CASE Handler
  <2>1. PICK j \in job \cup late : Arrive(j) \/ Enter(j) \/ Onward(j)
    BY <1>11 DEF Handler
  <2> QED BY <2>1, ArriveStep, EnterStep, OnwardStep
<1>12. CASE Lose
  BY <1>12, LoseStep
<1>13. ASSUME NEW p \in Peer, Crash(p) \/ ComeUp(p) \/ Age(p) PROVE IInv'
  BY <1>13, CrashStep, BetterStep
<1>14. CASE UNCHANGED vars
  BY <1>14, NothingStep
<1> QED BY <1>1, <1>2, <1>3, <1>4, <1>5, <1>6, <1>7, <1>8, <1>9, <1>10, <1>11, <1>12, <1>13, <1>14
        DEF Next, Client

\* In every behaviour of the chain the sessions of its two peers, their saved
\* replies, the client's kept pieces and the handlers on their way agree
\* (chain.py run; chain_step and _chain_restart of transport.py).
THEOREM Invariant == Spec => []IInv
<1>1. Init => IInv
  BY InitInv
<1>2. IInv /\ [Next]_vars => IInv'
  BY NextInv
<1> QED BY <1>1, <1>2, PTL DEF Spec

-----------------------------------------------------------------------------
\* With a replica of every stage one fault is survived.

\* No fault so far: every peer is up and the first session is in use.
LEMMA NoFault ==
  ASSUME IInv, faults = 0
  PROVE  /\ up = Peer /\ wire = 1 /\ pc # "leave" /\ ~Again
         /\ \A k \in 1..2 : ~(Active /\ Missing(k)) /\ ~(Stepping /\ Tired(k)) /\ ~Tired(k)
         /\ \A j \in job : ~(j.at = "done" /\ j.status = 409)
<1>1. Charged /\ Places /\ Jobs
  BY DEF IInv
<1>2. wire \in Nat \ {0} /\ wire <= 1 /\ ~(wire <= faults)
  BY <1>1 DEF Charged
<1>3. wire = 1 /\ up = Peer /\ pc # "leave"
  BY <1>1, <1>2 DEF Charged
<1>4. ~Again
  BY <1>1, <1>3 DEF Places
<1>5. \A k \in 1..2 : ~(Active /\ Missing(k)) /\ ~(Stepping /\ Tired(k))
  BY <1>1, <1>2 DEF Charged
<1>6. \A k \in 1..2 : Tired(k) => Stepping
  BY <1>4 DEF Tired, Stepping, Again
<1>7. \A j \in job : j.at = "done" /\ j.status = 409 => Missing(2) /\ Active
  BY <1>1 DEF Charged, Jobs, Active
<1> QED BY <1>3, <1>4, <1>5, <1>6, <1>7

\* What One says when it says something.
OneHere ==
  /\ \A x, y \in Peer \ up : x = y
  /\ outcome # "failed"
  /\ Active => \A k \in 1..2 : Missing(k) \/ Tired(k) =>
                 wire <= faults /\ Peer \ up \subseteq {hops[k]}
  /\ Active /\ wire = 2 => ToSet(hops) \subseteq up
  /\ pc = "leave" => ToSet(fresh) \subseteq up
  /\ (\E j \in job : j.at = "done" /\ j.status = 409) => up = Peer

\* With a fault or none the wire id is 1 or 2.
LEMMA FewFaults ==
  ASSUME IInv, faults <= 1
  PROVE  faults \in {0, 1} /\ wire \in {1, 2} /\ (wire = 2 => faults = 1)
<1>1. faults \in Nat /\ wire \in Nat \ {0} /\ wire <= faults + 1
  BY ChainAssumption DEF IInv, Charged
<1> QED BY <1>1

\* The first fault leaves the peers that are up as they are.
LEMMA OneFault ==
  ASSUME IInv, IInv', One, Fault, up' = up, wire' = wire, outcome' = outcome
  PROVE  One'
<1> SUFFICES ASSUME faults' <= 1 PROVE OneHere'
  BY DEF One, OneHere
<1>1. faults = 0 /\ faults' = 1
  <2>1. faults \in Nat /\ faults' = faults + 1
    BY ChainAssumption DEF IInv, Charged, Fault
  <2> QED BY <2>1
<1>2. OneHere /\ up = Peer /\ wire = 1
  BY <1>1, NoFault DEF One, OneHere
<1>3. fresh' \in Routes /\ ToSet(fresh') \subseteq Peer
  BY RouteRoles DEF IInv, Places
<1> QED BY <1>1, <1>2, <1>3 DEF OneHere

\* A calm step of a client that stays where it is adds nothing.
LEMMA OneCalm ==
  ASSUME IInv, IInv', One, Still, Calm, faults' = faults, up \subseteq up'
  PROVE  One'
<1> SUFFICES ASSUME faults' <= 1 PROVE OneHere'
  BY DEF One, OneHere
<1>1. OneHere /\ faults \in {0, 1} /\ wire \in {1, 2}
  BY FewFaults DEF One, OneHere
<1>2. UNCHANGED <<hops, wire, fresh, pc, outcome>>
  BY DEF Still, client, textVars
<1>3. /\ (Active' <=> Active) /\ Charged /\ Places
  BY SameCall DEF IInv
<1>4. up' \subseteq Peer /\ up \subseteq Peer /\ hops[1] \in Peer /\ hops[2] \in Peer
      /\ ToSet(hops) = {hops[1], hops[2]}
  <2>1. up' \subseteq Peer /\ up \subseteq Peer
    BY DEF IInv, Places
  <2> QED BY <1>3, <2>1, Route
<1>5. Peer \ up' \subseteq Peer \ up /\ (up = Peer => up' = Peer)
  BY <1>4
<1>6. Active => \A k \in 1..2 : Missing(k)' \/ Tired(k)' => wire <= faults /\ Peer \ up' \subseteq {hops[k]}
  <2> SUFFICES ASSUME Active, NEW k \in 1..2, Missing(k)' \/ Tired(k)'
               PROVE  wire <= faults /\ Peer \ up \subseteq {hops[k]}
    BY <1>5
  <2>1. CASE Missing(k) \/ Tired(k)
    BY <1>1, <2>1 DEF OneHere
  <2>2. CASE ~(Missing(k) \/ Tired(k))
    <3>1. hops[k] \notin up /\ hops[k] \in Peer /\ hops[k] \in ToSet(hops)
      BY <1>4, <2>2 DEF Calm
    <3>2. wire = 1
      BY <1>1, <3>1 DEF OneHere
    <3>3. faults > 0
      BY <1>3, <3>1 DEF Charged
    <3>4. Peer \ up \subseteq {hops[k]}
      BY <1>1, <3>1 DEF OneHere
    <3> QED BY <1>1, <3>2, <3>3, <3>4
  <2> QED BY <2>1, <2>2
<1>7. (\E j \in job' : j.at = "done" /\ j.status = 409) => up' = Peer
  <2> SUFFICES ASSUME \E j \in job' : j.at = "done" /\ j.status = 409 PROVE up = Peer
    BY <1>5
  <2>1. Active
    <3>1. pc' = "call"
      BY DEF IInv, Jobs
    <3> QED BY <1>2, <3>1 DEF Active
  <2>2. CASE \E j \in job : j.at = "done" /\ j.status = 409
    BY <1>1, <2>2 DEF OneHere
  <2>3. CASE Missing(2) /\ ToSet(hops) \subseteq up
    <3>1. Peer \ up \subseteq {hops[2]}
      BY <1>1, <2>1, <2>3 DEF OneHere
    <3> QED BY <1>4, <2>3, <3>1
  <2> QED BY <2>1, <2>2, <2>3 DEF Calm
<1>8. \A x, y \in Peer \ up' : x = y
  BY <1>1, <1>5 DEF OneHere
<1>9. /\ outcome' # "failed"
      /\ Active /\ wire = 2 => ToSet(hops) \subseteq up'
      /\ pc = "leave" => ToSet(fresh) \subseteq up'
  BY <1>1, <1>2 DEF OneHere
<1>10. faults' = faults /\ wire' = wire /\ hops' = hops /\ fresh' = fresh /\ pc' = pc
  BY <1>2
<1> HIDE DEF Active, Missing, Tired
<1> QED BY <1>3, <1>6, <1>7, <1>8, <1>9, <1>10 DEF OneHere

\* A client that goes on with its route has nothing to blame it for.
LEMMA OneOn ==
  ASSUME IInv, IInv', One, job' = {}, UNCHANGED <<up, hops, wire, faults, outcome>>,
         Active, Active', Blameless
  PROVE  One'
<1> SUFFICES ASSUME faults' <= 1 PROVE OneHere'
  BY DEF One, OneHere
<1>1. OneHere
  BY DEF One, OneHere
<1>2. pc' # "leave"
  BY DEF Active
<1> HIDE DEF Active, Missing, Tired
<1> QED BY <1>1, <1>2 DEF OneHere, Blameless

\* A client that has stopped has no route to blame.
LEMMA OneStopped ==
  ASSUME IInv, IInv', One, job' = {}, UNCHANGED <<up, wire, faults>>, ~Active',
         faults <= 1 => outcome' # "failed" /\ (pc' = "leave" => ToSet(fresh') \subseteq up)
  PROVE  One'
<1> SUFFICES ASSUME faults' <= 1 PROVE OneHere'
  BY DEF One, OneHere
<1>1. OneHere
  BY DEF One, OneHere
<1> HIDE DEF Active
<1> QED BY <1>1 DEF OneHere

\* A peer that goes down is the only one, and was in use by the first session.
LEMMA OneCrash ==
  ASSUME IInv, IInv', One, NEW p \in Peer, Crash(p)
  PROVE  One'
<1> SUFFICES ASSUME faults' <= 1 PROVE OneHere'
  BY DEF One, OneHere
<1>1. /\ Still /\ Fault /\ UNCHANGED <<hops, wire, dead, pc, why, body, sends, left, missed, outcome>>
      /\ up' = up \ {p} /\ job' \subseteq job
      /\ \A j \in job : j \in job' \/ j.body.hops[1] = p
      /\ blame' = IF job' = job THEN blame ELSE 1
      /\ sess' = [sess EXCEPT ![p] = [w \in Wire |-> NoSession]]
      /\ chained' = [chained EXCEPT ![p] = [w \in Wire |-> {}]]
  BY DEF Crash, Still, client, textVars
<1>2. faults = 0 /\ faults' = 1
  <2>1. faults \in Nat /\ faults' = faults + 1
    BY <1>1, ChainAssumption DEF IInv, Charged, Fault
  <2> QED BY <2>1
<1>3. /\ up = Peer /\ wire = 1 /\ pc # "leave" /\ ~Again
      /\ \A k \in 1..2 : ~(Active /\ Missing(k)) /\ ~Tired(k)
      /\ \A j \in job : ~(j.at = "done" /\ j.status = 409)
  BY <1>2, NoFault
<1>4. Peer \ up' = {p} /\ outcome # "failed"
  <2>1. OneHere
    BY <1>2 DEF One, OneHere
  <2> QED BY <1>1, <1>3, <2>1 DEF OneHere
<1>5. (Active' <=> Active) /\ Base' = Base
  BY <1>1, SameCall
<1>6. ASSUME NEW k \in 1..2, Active, Missing(k)' PROVE hops[k] = p
  <2> SUFFICES ASSUME hops[k] # p PROVE FALSE
    OBVIOUS
  <2>1. hops[1] \in Peer /\ hops[2] \in Peer /\ wire \in Wire
    BY Route DEF IInv
  <2>2. sess \in [Peer -> [Wire -> AnySession]] /\ chained \in [Peer -> [Wire -> SUBSET AnySaved]]
    BY DEF IInv, Held
  <2>3. S(k)' = S(k)
    BY <1>1, <2>1, <2>2 DEF S
  <2>4. C(1)' = C(1) \/ C(1)' = {}
    <3>1. CASE hops[1] = p
      BY <1>1, <2>1, <2>2, <3>1 DEF C
    <3>2. CASE hops[1] # p
      BY <1>1, <2>1, <2>2, <3>2 DEF C
    <3> QED BY <3>1, <3>2
  <2>5. Missing(k)
    BY <1>5, <1>6, <2>3, <2>4 DEF Missing
  <2> QED BY <1>3, <1>6, <2>5
<1>7. ASSUME NEW k \in 1..2, Tired(k)' PROVE hops[k] = p
  <2>1. ~\E j \in job' : j.at = "done" /\ j.status = 502 /\ k = 2
    <3>1. ~\E j \in job : j.at = "done" /\ j.status = 502 /\ k = 2
      BY <1>1, <1>3, <1>7 DEF Tired
    <3> QED BY <1>1, <3>1
  <2>2. pc = "call" /\ job' = {} /\ sends > 0 /\ blame' = k
    BY <1>1, <1>7, <2>1 DEF Tired
  <2>3. job' # job
    <3> SUFFICES ASSUME job' = job PROVE FALSE
      OBVIOUS
    <3>1. Tired(k)
      BY <1>1, <2>2 DEF Tired
    <3> QED BY <1>3, <3>1
  <2>4. k = 1
    BY <1>1, <2>2, <2>3
  <2>5. PICK j \in job : j.body.hops[1] = p
    BY <1>1, <2>2, <2>3
  <2>6. j.body = body /\ body.hops = hops
    BY <2>2, CallIs DEF IInv, Jobs
  <2> QED BY <2>4, <2>5, <2>6
<1>8. Active => \A k \in 1..2 : Missing(k)' \/ Tired(k)' => wire <= faults' /\ Peer \ up' \subseteq {hops[k]}
  BY <1>2, <1>3, <1>4, <1>6, <1>7
<1>9. \A x, y \in Peer \ up' : x = y
  BY <1>4
<1>10. ~\E j \in job' : j.at = "done" /\ j.status = 409
  BY <1>1, <1>3
<1>11. outcome' # "failed" /\ wire' = wire /\ wire = 1 /\ hops' = hops /\ pc' # "leave"
  BY <1>1, <1>3, <1>4
<1> HIDE DEF Active, Missing, Tired
<1> QED BY <1>5, <1>8, <1>9, <1>10, <1>11 DEF OneHere

\* Nothing but a peer that comes up, or a mark that is forgotten.
LEMMA OneQuiet ==
  ASSUME IInv, IInv', One, Still, UNCHANGED peers, UNCHANGED <<job, sends, blame, faults, missed>>,
         up \subseteq up'
  PROVE  One'
<1>1. \A k \in 1..2 : (Missing(k)' <=> Missing(k))
  <2>1. /\ up' \subseteq Peer /\ dead' \subseteq Peer /\ sends' \in 0..MaxSends /\ blame' \in 1..2
        /\ missed' \subseteq Peer /\ missed \subseteq missed'
    BY DEF IInv, Places
  <2> QED BY <2>1, StillOn
<1>2. \A k \in 1..2 : (Tired(k)' <=> Tired(k))
  BY DEF Still, Tired
<1>3. Calm
  BY <1>1, <1>2 DEF Calm
<1> QED BY <1>3, OneCalm

\* An attempt, its loss, and an answer that is retried.
LEMMA OneAttempt ==
  ASSUME IInv, IInv', One, Send \/ Lose \/ Retry
  PROVE  One'
<1>1. CASE Lose
  <2>1. Fault /\ up' = up /\ wire' = wire /\ outcome' = outcome
    BY <1>1 DEF Lose, client, textVars
  <2> QED BY <2>1, OneFault
<1>2. CASE Send
  <2>1. /\ Still /\ UNCHANGED peers /\ pc = "call"
        /\ UNCHANGED <<up, dead, wire, outcome, missed>>
        /\ \/ hops[1] \in up /\ job' = {New(body)} /\ UNCHANGED faults
           \/ hops[1] \in up /\ Fault
           \/ hops[1] \notin up /\ UNCHANGED faults /\ blame' = 1 /\ job' = {}
    BY <1>2 DEF Send, Still, client, textVars
  <2>2. CASE Fault
    BY <2>1, <2>2, OneFault
  <2>3. CASE ~Fault
    <3>1. New(body).at = "new"
      BY DEF New
    <3>2. ASSUME NEW k \in 1..2, Tired(k)' PROVE hops[k] \notin up
      BY <2>1, <2>3, <3>1, <3>2 DEF Tired
    <3>3. \A j \in job' : j.at # "done"
      BY <2>1, <2>3, <3>1
    <3>4. \A k \in 1..2 : (Missing(k)' <=> Missing(k))
      <4>1. /\ up' \subseteq Peer /\ dead' \subseteq Peer /\ sends' \in 0..MaxSends /\ blame' \in 1..2
            /\ missed' \subseteq Peer
        BY DEF IInv, Places
      <4> QED BY <2>1, <4>1, StillOn
    <3>5. Calm
      BY <3>2, <3>3, <3>4 DEF Calm
    <3> QED BY <2>1, <2>3, <3>5, OneCalm
  <2> QED BY <2>2, <2>3
<1>3. CASE Retry
  <2>1. /\ Still /\ UNCHANGED <<peers, up, dead, missed, faults>> /\ job' = {} /\ blame' = 2
        /\ \E j \in job : j.at = "done" /\ j.status = 502
    BY <1>3 DEF Retry, Still, client, textVars
  <2>2. Tired(2)
    BY <2>1 DEF Tired, IInv, Jobs
  <2>3. \A k \in 1..2 : Tired(k)' => Tired(k)
    <3>1. \A k \in 1..2 : Tired(k)' => k = 2
      BY <2>1 DEF Tired
    <3> QED BY <2>2, <3>1
  <2>4. \A k \in 1..2 : (Missing(k)' <=> Missing(k))
    <3>1. /\ up' \subseteq Peer /\ dead' \subseteq Peer /\ sends' \in 0..MaxSends /\ blame' \in 1..2
          /\ missed' \subseteq Peer
      BY DEF IInv, Places
    <3> QED BY <2>1, <3>1, StillOn
  <2>5. Calm
    BY <2>1, <2>3, <2>4 DEF Calm
  <2> QED BY <2>1, <2>5, OneCalm
<1> QED BY <1>1, <1>2, <1>3

\* A handler's steps.
LEMMA OneHandler ==
  ASSUME IInv, IInv', One, Handler
  PROVE  One'
<1>1. PICK j \in job \cup late : Arrive(j) \/ Enter(j) \/ Onward(j)
  BY DEF Handler
<1>2. Still /\ UNCHANGED <<up, wire, outcome>>
  <2>1. CASE Arrive(j)
    BY <2>1 DEF Arrive, Still, client, textVars, callVars
  <2>2. CASE Enter(j)
    BY <2>2 DEF Enter, Still, client, textVars, callVars
  <2>3. CASE Onward(j)
    BY <2>3 DEF Onward, Still, client, textVars, callVars
  <2> QED BY <1>1, <2>1, <2>2, <2>3
<1>3. CASE Arrive(j) \/ Enter(j)
  <2>1. Calm
    BY <1>3, ArriveStep, EnterStep
  <2>2. faults' = faults
    BY <1>3 DEF Arrive, Enter
  <2> QED BY <1>2, <2>1, <2>2, OneCalm
<1>4. CASE Onward(j)
  <2>1. (Calm \/ Fault) /\ (faults' = faults \/ Fault)
    BY <1>4, OnwardStep
  <2> QED BY <1>2, <2>1, OneCalm, OneFault
<1> QED BY <1>1, <1>3, <1>4

\* A call begins, or has its answer.
LEMMA OneGoes ==
  ASSUME IInv, IInv', One,
         \/ \E toks \in Pieces : Step(toks)
         \/ \E n \in 1..MaxLen : Accept(n)
         \/ Replay \/ Replayed
  PROVE  One'
<1>1. Blameless
  BY StepStep, AcceptStep, ReplayStep, ReplayedStep
<1>2. /\ UNCHANGED <<up, hops, wire, faults, outcome>>
      /\ pc \in {"idle", "call", "replay"} /\ pc' \in {"idle", "call", "replay"}
      /\ job' = {} \/ (job' = job /\ pc \in {"idle", "replay"})
  BY DEF Step, Accept, Replay, Replayed, Start, Answered, client, textVars
<1>3. job' = {}
  BY <1>2, Quiet DEF IInv
<1>4. Active /\ Active'
  BY <1>2 DEF Active
<1> QED BY <1>1, <1>2, <1>3, <1>4, OneOn

\* No peer alone serves a stage that has a replica.
LEMMA TwoPeers ==
  ASSUME Replicas, NEW k \in 1..2, NEW x
  PROVE  ~(ToSet(Known[k]) \subseteq {x})
<1> DEFINE known == Known[k]
<1>1. known \in Seq(Peer) /\ Len(known) > 1 /\ IsInjective(known)
  BY ChainAssumption, KnownIs DEF Replicas
<1> HIDE DEF known
<1>2. DOMAIN known = 1..Len(known) /\ 1 \in DOMAIN known /\ 2 \in DOMAIN known
  BY <1>1
<1>3. known[1] # known[2]
  BY <1>1, <1>2 DEF IsInjective
<1>4. known[1] \in ToSet(known) /\ known[2] \in ToSet(known)
  BY <1>2 DEF ToSet
<1>5. ~(ToSet(known) \subseteq {x})
  BY <1>3, <1>4
<1> QED BY <1>5 DEF known

\* The peers picked after the one fault are all up.
LEMMA OneRestart ==
  ASSUME Replicas, IInv, IInv', One, Restart
  PROVE  One'
<1>1. /\ why = "step" /\ job' = {} /\ pc' \in {"leave", "end"} /\ UNCHANGED <<up, wire, faults>>
      /\ fresh' = [k \in 1..2 |-> FirstAlive(Known[k], dead')]
      /\ \/ (Answered(404) \/ Answered(409)) /\ dead' = dead
         \/ Exhausted /\ dead' = dead \cup {hops[blame]}
      /\ IF ToSet(fresh') \subseteq checked \cup up THEN outcome' = outcome
                                                    ELSE pc' = "end" /\ outcome' = "failed"
  BY DEF Restart
<1>2. wire <= faults /\ pc = "call"
  BY <1>1, GivenUp
<1>3. ~Active'
  BY <1>1 DEF Active
<1>4. ASSUME faults <= 1 PROVE ToSet(fresh') \subseteq up /\ outcome # "failed"
  <2>1. OneHere /\ Active /\ Stepping
    BY <1>1, <1>2, <1>4 DEF One, OneHere, Active, Stepping
  <2>2. wire = 1
    BY <1>2, <1>4, FewFaults
  <2>3. dead = {} /\ Places /\ Charged /\ Jobs /\ up \subseteq Peer
    BY <1>2, <2>2 DEF IInv, Charged, Places
  <2>4. fresh' \in Routes /\ ToSet(fresh') = {fresh'[1], fresh'[2]}
        /\ fresh'[1] \in Peer /\ fresh'[2] \in Peer
    BY <1>1, FreshRoute, RouteRoles
  <2>5. CASE up = Peer
    BY <2>1, <2>4, <2>5 DEF OneHere
  <2>6. CASE Answered(404)
    <3>1. PICK j \in job : j.at = "done" /\ j.status = 404
      BY <2>6 DEF Answered
    <3>2. hops[1] \in up
      <4>1. j.body.hops[1] \in up /\ j.body = body
        BY <2>3 DEF Jobs
      <4>2. body.hops = hops
        BY <1>2, CallIs DEF IInv
      <4> QED BY <4>1, <4>2
    <3>3. Missing(1)
      BY <2>3, <3>1 DEF Charged
    <3>4. Peer \ up \subseteq {hops[1]}
      BY <2>1, <3>3 DEF OneHere
    <3> QED BY <2>3, <2>5, <3>2, <3>4
  <2>7. CASE Answered(409)
    <3>1. up = Peer
      BY <2>1, <2>7 DEF Answered, OneHere
    <3> QED BY <2>5, <3>1
  <2>8. CASE Exhausted /\ dead' = dead \cup {hops[blame]}
    <3>1. Tired(blame) /\ blame \in 1..2
      BY <1>2, <2>3, <2>8, ChainAssumption DEF Exhausted, Tired, Places
    <3>2. Peer \ up \subseteq {hops[blame]}
      BY <2>1, <3>1 DEF OneHere
    <3>3. dead' = {hops[blame]}
      BY <2>3, <2>8
    <3>4. \A k \in 1..2 : fresh'[k] # hops[blame]
      <4> SUFFICES ASSUME NEW k \in 1..2 PROVE fresh'[k] \notin dead'
        BY <3>3
      <4>1. Known[k] \in Seq(Peer) /\ Known[k] # <<>> /\ ~(ToSet(Known[k]) \subseteq dead')
        BY <3>3, KnownIs, TwoPeers
      <4>2. FirstAlive(Known[k], dead') \notin dead'
        BY <4>1, FirstIs
      <4> QED BY <1>1, <4>2
    <3>5. fresh'[1] \in up /\ fresh'[2] \in up
      BY <2>4, <3>2, <3>4
    <3> QED BY <2>1, <2>4, <3>5 DEF OneHere
  <2> QED BY <1>1, <2>6, <2>7, <2>8
<1>5. faults <= 1 => outcome' # "failed" /\ (pc' = "leave" => ToSet(fresh') \subseteq up)
  BY <1>1, <1>4
<1> QED BY <1>1, <1>3, <1>5, OneStopped

\* The new session is at peers that are up.
LEMMA OneRewire ==
  ASSUME IInv, IInv', One, Rewire
  PROVE  One'
<1> SUFFICES ASSUME faults' <= 1 PROVE OneHere'
  BY DEF One, OneHere
<1>1. /\ pc = "leave" /\ pc' = "replay" /\ hops' = fresh
      /\ UNCHANGED <<up, faults, job, outcome>>
  BY DEF Rewire, textVars
<1>2. OneHere
  BY <1>1 DEF One, OneHere
<1>3. \A k \in 1..2 : ~Missing(k)' /\ ~Tired(k)'
  BY RewireStep
<1>4. job = {}
  BY <1>1 DEF IInv, Jobs
<1> HIDE DEF Active, Missing, Tired
<1> QED BY <1>1, <1>2, <1>3, <1>4 DEF OneHere

\* One fault does not end a request, and the end of it is no failure.
LEMMA OneEnd ==
  ASSUME IInv, IInv', One, Fail \/ Finish
  PROVE  One'
<1>1. pc' = "end" /\ job' = {} /\ UNCHANGED <<up, wire, faults>>
  BY DEF Fail, Finish, End, client
<1>2. ~Active'
  BY <1>1 DEF Active
<1>3. CASE Finish
  <2>1. outcome' # "failed"
    BY <1>3 DEF Finish, End
  <2> QED BY <1>1, <1>2, <2>1, OneStopped
<1>4. CASE Fail
  <2>1. ~Answered(500)
    BY DEF Answered, IInv, Working
  <2>2. /\ why # "step" /\ pc = "call"
        /\ Answered(404) \/ Answered(409) \/ Exhausted
    BY <1>4, <2>1 DEF Fail, Answered, Exhausted
  <2>3. Active /\ Charged /\ Places /\ Again
    BY <2>2 DEF IInv, Active, Again
  <2>4. \E k \in 1..2 : Missing(k) \/ Tired(k)
    <3>1. CASE Answered(404) \/ Answered(409)
      BY <2>3, <3>1 DEF Answered, Charged
    <3>2. CASE Exhausted
      BY <2>2, <2>3, <3>2, ChainAssumption DEF Exhausted, Tired, Places
    <3> QED BY <2>2, <3>1, <3>2
  <2>5. ASSUME faults <= 1 PROVE FALSE
    <3>1. wire = 2 /\ faults = 1
      BY <2>3, <2>5, FewFaults DEF Places
    <3>2. wire <= faults
      BY <2>3, <2>4, <2>5 DEF One
    <3> QED BY <3>1, <3>2
  <2> QED BY <1>1, <1>2, <2>5, OneStopped
<1> QED BY <1>3, <1>4

\* A close that is missed ends nothing.
LEMMA OneClose ==
  ASSUME IInv, IInv', One, Leave \/ Close
  PROVE  One'
<1>1. /\ UNCHANGED <<up, wire, outcome, fresh, job>> /\ pc \in {"leave", "end"}
      /\ (faults' = faults \/ Fault) /\ (pc' = pc \/ pc' = "over")
  BY DEF Leave, Close, CloseHop, client, textVars
<1>2. job' = {} /\ ~Active'
  BY <1>1 DEF IInv, Jobs, Active
<1>3. CASE Fault
  BY <1>1, <1>3, OneFault
<1>4. CASE faults' = faults
  <2>1. faults <= 1 => outcome' # "failed" /\ (pc' = "leave" => ToSet(fresh') \subseteq up)
    BY <1>1 DEF One
  <2> QED BY <1>1, <1>2, <1>4, <2>1, OneStopped
<1> QED BY <1>1, <1>3, <1>4

\* It holds at the start, and every step keeps it.
LEMMA OneInit == Init => One
<1> SUFFICES ASSUME Init, faults <= 1 PROVE OneHere
  BY DEF One, OneHere
<1>1. /\ up = Peer /\ hist = <<>> /\ pc = "idle" /\ job = {} /\ text = <<>> /\ wire = 1
      /\ outcome = "running" /\ chained = [p \in Peer |-> [w \in Wire |-> {}]]
      /\ hops = <<Known[1][1], Known[2][1]>>
  BY DEF Init
<1>2. hops[1] \in Peer /\ wire \in Wire
  BY InitInv, Route DEF IInv
<1>3. C(1) = {}
  BY <1>1, <1>2 DEF C
<1>4. Base = <<>>
  BY <1>1 DEF Base
<1>5. \A k \in 1..2 : ~Missing(k) /\ ~Tired(k)
  BY <1>1, <1>3, <1>4 DEF Missing, Tired
<1> QED BY <1>1, <1>5 DEF OneHere

\* No step takes what One says of the stages from them.
LEMMA OneNext == Replicas /\ IInv /\ One /\ [Next]_vars => One'
<1> SUFFICES ASSUME Replicas, IInv, One, [Next]_vars PROVE One'
  OBVIOUS
<1>1. IInv'
  BY NextInv
<1>2. CASE (\E toks \in Pieces : Step(toks)) \/ (\E n \in 1..MaxLen : Accept(n)) \/ Replay \/ Replayed
  BY <1>1, <1>2, OneGoes
<1>3. CASE Send \/ Retry \/ Lose
  BY <1>1, <1>3, OneAttempt
<1>4. CASE Restart
  BY <1>1, <1>4, OneRestart
<1>5. CASE Leave \/ Close
  BY <1>1, <1>5, OneClose
<1>6. CASE Rewire
  BY <1>1, <1>6, OneRewire
<1>7. CASE Fail \/ Finish
  BY <1>1, <1>7, OneEnd
<1>8. CASE Handler
  BY <1>1, <1>8, OneHandler
<1>9. ASSUME NEW p \in Peer, Crash(p) PROVE One'
  BY <1>1, <1>9, OneCrash
<1>10. CASE UNCHANGED vars \/ \E p \in Peer : ComeUp(p) \/ Age(p)
  <2>1. /\ Still /\ UNCHANGED peers /\ UNCHANGED <<job, sends, blame, faults, missed>>
        /\ up \subseteq up'
    BY <1>10 DEF ComeUp, Age, vars, Still, client, callVars
  <2> QED BY <1>1, <2>1, OneQuiet
<1> QED BY <1>2, <1>3, <1>4, <1>5, <1>6, <1>7, <1>8, <1>9, <1>10 DEF Next, Client

-----------------------------------------------------------------------------
\* What the runs check follows.

\* Every part of ChainSound but the last follows from the invariant alone.
LEMMA InvSound ==
  ASSUME IInv
  PROVE  TypeOK /\ ChainFaithful /\ SecondFollows /\ NeverRefused /\ OrphansExplained
<1>1. /\ Held /\ Places /\ Calling /\ Data /\ Jobs /\ Working /\ Orphans /\ Charged
  BY DEF IInv
<1>2. /\ wire \in Wire /\ hops[1] \in Peer /\ hops[2] \in Peer /\ faults \in 0..MaxFaults
  BY <1>1, Route DEF Charged
<1>3. TypeOK
  <2>1. Cardinality(job) <= 1
    <3>1. CASE job = {}
      BY <3>1, FS_EmptySet
    <3>2. CASE job # {}
      <4>1. PICK j \in job : TRUE
        BY <3>2
      <4>2. job = {j}
        BY <1>1, <4>1 DEF Jobs
      <4>3. Cardinality(job) = 1
        BY <4>2, FS_Singleton
      <4> QED BY <4>3
    <3> QED BY <3>1, <3>2
  <2>2. ASSUME NEW k \in 1..2, NEW p \in ToSet(Known[k]), NEW w \in Wire
        PROVE  sess[p][w].open \in BOOLEAN /\ sess[p][w].kv \in Seq(IF k = 1 THEN Token ELSE Seq(Token))
    <3>1. p \in Peer
      BY KnownIs
    <3>2. Position(p) = IF k = 1 THEN Token ELSE Seq(Token)
      BY ChainAssumption DEF Position
    <3>3. sess[p][w] \in SessionOf(Position(p))
      BY <1>1, <3>1 DEF Held
    <3> QED BY <3>2, <3>3 DEF SessionOf
  <2>3. hops[1] \in ToSet(Known[1]) /\ hops[2] \in ToSet(Known[2])
    BY <1>1 DEF Places, Routes
  <2>4. job \subseteq Job /\ late \subseteq Job
    BY <1>1 DEF Jobs
  <2> QED BY <1>1, <1>2, <2>1, <2>2, <2>3, <2>4 DEF TypeOK, Places
<1>4. ChainFaithful
  <2> SUFFICES ASSUME why # "replay", NEW j \in job, j.at = "done", j.status = 200
               PROVE  j.out = Hidden(text \o piece.toks, 0)
    BY DEF ChainFaithful
  <2>1. pc = "call"
    BY <1>1 DEF Jobs
  <2>2. j.out = Hidden(Full, 0)
    BY <1>1, <2>1 DEF Working
  <2>3. Base = text
    BY <2>1 DEF Base
  <2>4. body.req.toks = piece.toks
    BY <1>1, <2>1 DEF Calling
  <2>5. Full = text \o piece.toks
    BY <2>3, <2>4 DEF Full
  <2> QED BY <2>2, <2>5
<1>5. SecondFollows
  <2> SUFFICES ASSUME pc = "idle", text # <<>>, S(1).open, S(2).open, cut = NoCut
               PROVE  S(1).kv = text /\ S(2).kv = Hidden(text, 0)
    BY DEF SecondFollows, S
  <2>1. Base = text /\ Coming = NoCut /\ Active
    BY DEF Base, Coming, Active
  <2>2. Holds(S(1), text, NoCut) /\ Holds(S(2), Hidden(text, 0), NoCut)
    <3>1. Holds(S(1), Fed(1), NoCut) /\ Holds(S(2), Fed(2), NoCut)
      BY <1>1, <2>1 DEF Data, InStep
    <3>2. Fed(1) = text /\ Fed(2) = Hidden(text, 0)
      BY <2>1 DEF Fed
    <3> QED BY <3>1, <3>2
  <2>3. text \in Seq(Token) /\ Hidden(text, 0) \in Seq(Seq(Token)) /\ Hidden(text, 0) # <<>>
    <3>1. text \in Seq(Token) /\ Len(text) \in Nat /\ 0 \in 0..Len(text)
      BY <1>1 DEF Places
    <3> QED BY <3>1, HiddenIs, HiddenLast
  <2>4. S(1).kv \in Seq(Token) /\ S(2).kv \in Seq(Seq(Token))
    <3>1. S(1) \in SessionOf(Token) /\ S(2) \in SessionOf(Seq(Token))
      BY <1>1, <1>2, Route DEF Held, S
    <3> QED BY <3>1 DEF SessionOf
  <2> DEFINE a == S(1).kv
             b == S(2).kv
             h == Hidden(text, 0)
  <2>5. /\ Len(a) = Len(text) /\ \A i \in 1..Len(text) : a[i] = text[i]
        /\ Len(b) = Len(h) /\ \A i \in 1..Len(h) : b[i] = h[i]
    BY <2>2, <2>3 DEF Holds
  <2>6. a \in Seq(Token) /\ b \in Seq(Seq(Token)) /\ h \in Seq(Seq(Token))
    BY <2>3, <2>4
  <2> HIDE DEF a, b, h
  <2>7. a = text
    BY <2>3, <2>5, <2>6, SameSeq
  <2>8. b = h
    BY <2>5, <2>6, SameSeq
  <2> QED BY <2>7, <2>8 DEF a, b, h
<1>6. NeverRefused
  <2> SUFFICES ASSUME NEW j \in job PROVE j.status # 500
    BY DEF NeverRefused
  <2>1. pc = "call"
    BY <1>1 DEF Jobs
  <2> QED BY <1>1, <2>1 DEF Working
<1>7. OrphansExplained
  BY <1>1 DEF OrphansExplained, Orphans, Places
<1> QED BY <1>3, <1>4, <1>5, <1>6, <1>7

\* Whatever fails, and whoever serves: a reply that the client takes was
\* computed by both peers over exactly the kept text and the step; the second
\* peer holds what the first computed; no peer refuses a position; and a
\* session left open is at a peer that missed its close (chain.py run;
\* chain_step, _chain_restart and close of transport.py).
THEOREM Faithful ==
  Spec => [](TypeOK /\ ChainFaithful /\ SecondFollows /\ NeverRefused /\ OrphansExplained)
<1>1. IInv => TypeOK /\ ChainFaithful /\ SecondFollows /\ NeverRefused /\ OrphansExplained
  BY InvSound
<1> QED BY <1>1, Invariant, PTL

\* With a replica of every stage, a single fault never ends a request either:
\* the whole of ChainSound holds (the blame and the second routing in
\* chain_step and _chain_restart of transport.py).
THEOREM Sound == Replicas => (Spec => []ChainSound)
<1> SUFFICES ASSUME Replicas PROVE Spec => []ChainSound
  OBVIOUS
<1>1. Init => One
  BY OneInit
<1>2. IInv /\ One /\ [Next]_vars => One'
  BY OneNext
<1>3. IInv /\ One => ChainSound
  <2> SUFFICES ASSUME IInv, One PROVE ChainSound
    OBVIOUS
  <2>1. OneFaultSurvived
    BY DEF One, OneFaultSurvived
  <2> QED BY <2>1, InvSound DEF ChainSound
<1> QED BY <1>1, <1>2, <1>3, Invariant, PTL DEF Spec

-----------------------------------------------------------------------------
\* The chain keeps the promise of Decoding.

\* Each step of the chain is a step of the loop, or none.
LEMMA LoopStep ==
  ASSUME IInv, [Next]_vars
  PROVE  [Loop!Next]_(Loop!vars)
<1>1. Places
  BY DEF IInv
<1>2. ASSUME NEW n \in 1..MaxLen, Accept(n) PROVE Loop!Next
  <2>1. /\ Answered(200) /\ why \in {"step", "again"} /\ pc = "call" /\ outcome' = outcome
        /\ n \in Len(text) + 1 .. Len(text \o piece.toks)
        /\ text' = SubSeq(text \o piece.toks, 1, n)
        /\ \E j \in job : seen' = Last(j.out)
    BY <1>2 DEF Accept, Answered
  <2>2. /\ piece.toks \in Pieces /\ piece.toks \in Seq(Token) /\ text \in Seq(Token)
        /\ outcome = "running"
    BY <1>1, <2>1, PieceTypes DEF Places
  <2>3. Full = text \o piece.toks
    <3>1. Base = text
      BY <2>1 DEF Base
    <3>2. body.req.toks = piece.toks
      BY <2>1 DEF IInv, Calling
    <3> QED BY <3>1, <3>2 DEF Full
  <2>4. Full \in Seq(Token) /\ Full # <<>> /\ \A j \in job : j.out = Hidden(Full, 0)
    BY <2>1, GotAnswer
  <2>5. seen' = text \o piece.toks
    BY <2>1, <2>3, <2>4, HiddenLast
  <2>6. Len(text \o piece.toks) = Len(text) + Len(piece.toks) /\ Len(text) \in Nat
    BY <2>2, Joined
  <2>7. n \in 1 .. Len(text) + Len(piece.toks)
    BY <2>1, <2>6
  <2>8. Loop!Step(piece.toks, n)
    BY <2>1, <2>2, <2>5, <2>6 DEF Loop!Step
  <2> QED BY <2>2, <2>7, <2>8 DEF Loop!Next
<1>3. CASE Restart
  <2>1. outcome = "running"
    BY <1>1, <1>3, GivenUp DEF Restart, Places
  <2> QED BY <1>3, <2>1 DEF Restart, Loop!Next, Loop!End, Loop!vars
<1>4. CASE Fail \/ Finish
  <2>1. outcome = "running"
    BY <1>1, <1>4 DEF Fail, Finish, Answered, Exhausted, Places
  <2> QED BY <1>4, <2>1 DEF Fail, Finish, End, Loop!Next, Loop!End
<1>5. CASE (\E toks \in Pieces : Step(toks)) \/ Send \/ Retry \/ Leave \/ Rewire \/ Replay \/ Replayed \/ Close
  BY <1>5 DEF Step, Send, Retry, Leave, Rewire, Replay, Replayed, Close, textVars, Loop!vars
<1>6. CASE Handler
  <2>1. PICK j \in job \cup late : Arrive(j) \/ Enter(j) \/ Onward(j)
    BY <1>6 DEF Handler
  <2>2. CASE Arrive(j)
    BY <2>2 DEF Arrive, textVars, Loop!vars
  <2>3. CASE Enter(j)
    BY <2>3 DEF Enter, textVars, Loop!vars
  <2>4. CASE Onward(j)
    BY <2>4 DEF Onward, textVars, Loop!vars
  <2> QED BY <2>1, <2>2, <2>3, <2>4
<1>7. CASE Lose \/ \E p \in Peer : Crash(p) \/ ComeUp(p) \/ Age(p)
  BY <1>7 DEF Lose, Crash, ComeUp, Age, textVars, Loop!vars
<1>8. CASE UNCHANGED vars
  BY <1>8 DEF vars, textVars, Loop!vars
<1> QED BY <1>2, <1>3, <1>4, <1>5, <1>6, <1>7, <1>8 DEF Next, Client

\* Every reply the decoding loop accepts from the chain was computed over the
\* kept text and the piece it sent, as if one block had held the session all
\* along (chain_step of transport.py).
THEOREM KeepsPromise == Spec => LoopSpec
<1>1. Init => Loop!Init
  BY DEF Init, Loop!Init
<1>2. IInv /\ [Next]_vars => [Loop!Next]_(Loop!vars)
  BY LoopStep
<1> QED BY <1>1, <1>2, Invariant, PTL DEF Spec, LoopSpec, Loop!Spec
=============================================================================
