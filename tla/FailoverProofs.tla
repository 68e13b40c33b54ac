---------------------------- MODULE FailoverProofs ----------------------------
(***************************************************************************)
(* Proofs about Failover: the transport and its servers are sound at every *)
(* moment (FailoverSound), and the endpoint they make keeps the promise of *)
(* Decoding, for every set of servers, pieces and bounds.                  *)
(***************************************************************************)
EXTENDS Failover, RequestProofs, FiniteSetTheorems

-----------------------------------------------------------------------------
\* The inductive invariant.

InUse == active # 0 /\ (pc = "replay" \/ (opened /\ pc \in {"idle", "send"}))
Used == cand[active]

\* Where the call is, and what that says of the client's variables.
Places ==
  /\ outcome = "running" <=> pc \notin {"close", "over"}
  /\ opened => active # 0
  /\ pc \in {"send", "replay"} => active # 0
  /\ pc = "send" => opened
  /\ pc = "over" => ~opened
  /\ pc \in {"open", "send", "try", "replay", "wait"} =>
       /\ piece.op = "forward" /\ piece.start = Len(text) /\ piece.toks \in Pieces
       /\ piece.cut \in {NoCut, Len(text)}
  /\ pc = "open" => active = 0
  /\ pc \in {"idle", "open"} /\ ~opened => active = 0
  /\ pc = "idle" => cut \in {NoCut, Len(text)}
  /\ ~opened /\ pc # "over" => text = <<>>
  /\ pc \in {"try", "replay", "wait"} => failed # 0 /\ step # 0 /\ CanMove
  /\ pc = "replay" => step <= Len(cand)
  /\ pc = "wait" => Network /\ polls < MaxPolls
  /\ cand # <<>> /\ (~Network => cand = Known)

\* Every server keeps with its last reply what the session became by it.
Settled == \A s \in Server : SettledSession(sess[s])

\* The kept pieces are the text.
Kept == /\ CanMove /\ pc # "over" => Tiles(hist, text)
        /\ ~CanMove => hist = <<>>

\* The server in use is where the client thinks it is.
Use == /\ pc = "idle" /\ opened => Holds(sess[Used], text, cut)
       /\ pc = "send" => Holds(sess[Used], text, piece.cut)

\* A server fed the first kept pieces holds their text.
FedTo == EndOf(hist, replayed)
Fed == pc = "replay" => Holds(sess[Used], SubSeq(text, 1, FedTo), NoCut)

\* A session is open on a server that was lost, or on the one in use.
Orphans == \A s \in Server \ lost : sess[s].open =>
             pc # "over" /\ active # 0 /\ s = Used /\ (InUse \/ (opened /\ pc = "close"))

\* What was tried was lost.
Tried == /\ \A s \in Server : dead[s] # "no" => s \in lost
         /\ pc \in {"try", "replay", "wait"} => cand[failed] \in lost
         /\ pc = "replay" => active = Trying
         /\ pc \in {"try", "replay"} =>
              \A k \in 1..step - 1 : cand[((failed - 1 + k) % Len(cand)) + 1] \in lost

\* A fault for every server that is lost, down, or in use without its session.
Broken == {s \in Server : InUse /\ s = Used /\ ~sess[s].open}
Faulty == lost \cup (Server \ up) \cup Broken
Counted == /\ Cardinality(Faulty) <= faults
           /\ outcome = "failed" => Len(cand) <= faults

IInv == /\ TypeOK /\ Places /\ Settled /\ Kept /\ Use /\ Fed /\ Orphans /\ Tried /\ Counted

-----------------------------------------------------------------------------
\* What the steps of the proof keep needing.

\* The search goes round every candidate once, the failed one last.
LEMMA Around ==
  ASSUME NEW N \in Nat \ {0}, NEW f \in 1..N
  PROVE  /\ \A k \in Nat : ((f - 1 + k) % N) + 1 \in 1..N
         /\ \A i \in 1..N : \E k \in 1..N : ((f - 1 + k) % N) + 1 = i
<1>1. ASSUME NEW k \in Nat PROVE ((f - 1 + k) % N) + 1 \in 1..N
  <2>1. f - 1 + k \in Nat
    OBVIOUS
  <2>2. \A x \in Nat : x % N \in 0..N - 1
    OBVIOUS
  <2> QED BY <2>1, <2>2
<1>2. ASSUME NEW x \in 0..N - 1 PROVE x % N = x /\ (x + N) % N = x
  OBVIOUS
<1>3. ASSUME NEW i \in 1..N PROVE \E k \in 1..N : ((f - 1 + k) % N) + 1 = i
  <2>1. CASE i > f
    <3>1. i - f \in 1..N /\ f - 1 + (i - f) = i - 1 /\ i - 1 \in 0..N - 1
      BY <2>1
    <3>2. ((f - 1 + (i - f)) % N) + 1 = i
      BY <1>2, <3>1
    <3> QED BY <3>1, <3>2
  <2>2. CASE i <= f
    <3>1. i - f + N \in 1..N /\ f - 1 + (i - f + N) = (i - 1) + N /\ i - 1 \in 0..N - 1
      BY <2>2
    <3>2. ((f - 1 + (i - f + N)) % N) + 1 = i
      BY <1>2, <3>1
    <3> QED BY <3>1, <3>2
  <2> QED BY <2>1, <2>2
<1> QED BY <1>1, <1>3

\* One more fault for one more server.
LEMMA OneMore ==
  ASSUME NEW S, IsFiniteSet(S), NEW F, F \subseteq S, NEW n \in Nat, Cardinality(F) <= n
  PROVE  /\ \A G : G \subseteq F => Cardinality(G) <= n
         /\ \A s \in S : \A G : G \subseteq F \cup {s} => Cardinality(G) <= n + 1
<1>1. IsFiniteSet(F) /\ Cardinality(F) \in Nat
  BY FS_Subset, FS_CardinalityType
<1>2. ASSUME NEW G, G \subseteq F PROVE Cardinality(G) <= n
  <2>1. IsFiniteSet(G) /\ Cardinality(G) <= Cardinality(F) /\ Cardinality(G) \in Nat
    BY <1>1, <1>2, FS_Subset, FS_CardinalityType
  <2> QED BY <1>1, <2>1
<1>3. ASSUME NEW s \in S, NEW G, G \subseteq F \cup {s} PROVE Cardinality(G) <= n + 1
  <2>1. /\ IsFiniteSet(F \cup {s})
        /\ Cardinality(F \cup {s}) = Cardinality(F) \/ Cardinality(F \cup {s}) = Cardinality(F) + 1
    BY <1>1, FS_AddElement
  <2>2. IsFiniteSet(G) /\ Cardinality(G) <= Cardinality(F \cup {s}) /\ Cardinality(G) \in Nat
    BY <1>3, <2>1, FS_Subset, FS_CardinalityType
  <2> QED BY <1>1, <2>1, <2>2
<1> QED BY <1>2, <1>3

\* A fault accounts for every server of Faulty: for fewer of them there are enough
\* faults, and for one more there is one more.
LEMMA MoreFaulty ==
  ASSUME TypeOK, Counted
  PROVE  /\ \A G : G \subseteq Faulty => Cardinality(G) <= faults
         /\ \A s \in Server : \A G : G \subseteq Faulty \cup {s} => Cardinality(G) <= faults + 1
<1>1. faults \in Nat /\ IsFiniteSet(Server)
  BY FailoverAssumption DEF TypeOK
<1>2. Faulty \subseteq Server /\ Cardinality(Faulty) <= faults
  BY DEF Faulty, Broken, TypeOK, Counted
<1> QED BY <1>1, <1>2, OneMore

\* As many servers as an injective sequence is long.
LEMMA AsMany ==
  ASSUME NEW S, IsFiniteSet(S), NEW q \in Seq(S), IsInjective(q),
         NEW F, F \subseteq S, \A i \in 1..Len(q) : q[i] \in F
  PROVE  Len(q) <= Cardinality(F)
<1>1. IsFiniteSet(F) /\ Cardinality(F) \in Nat
  BY FS_Subset, FS_CardinalityType
<1>2. Len(q) \in Nat /\ q \in [1..Len(q) -> F]
  OBVIOUS
<1>3. q \in Injection(1..Len(q), F)
  BY <1>2 DEF Injection
<1>4. Cardinality(1..Len(q)) <= Cardinality(F)
  BY <1>1, <1>3, FS_Injection
<1>5. Cardinality(1..Len(q)) = Len(q)
  <2>1. 1 \in Int /\ Len(q) \in Int
    BY <1>2
  <2>2. Cardinality(1..Len(q)) = IF 1 > Len(q) THEN 0 ELSE Len(q) - 1 + 1
    BY <2>1, FS_Interval
  <2> QED BY <1>2, <2>2
<1> QED BY <1>4, <1>5

\* Two injective sequences with nothing in common.
LEMMA InjectiveJoin ==
  ASSUME NEW S, NEW c \in Seq(S), NEW q \in Seq(S), IsInjective(c), IsInjective(q),
         \A i \in 1..Len(c), j \in 1..Len(q) : c[i] # q[j]
  PROVE  IsInjective(c \o q)
<1>1. /\ c \o q \in Seq(S) /\ Len(c \o q) = Len(c) + Len(q)
      /\ Len(c) \in Nat /\ Len(q) \in Nat
  BY ConcatProperties
<1>2. \A i \in 1..Len(c) + Len(q) :
        (c \o q)[i] = IF i <= Len(c) THEN c[i] ELSE q[i - Len(c)]
  BY ConcatProperties
<1> DEFINE w == c \o q
<1>3. DOMAIN w = 1..Len(c) + Len(q)
  BY <1>1
<1>4. \A i \in 1..Len(c) + Len(q) : w[i] = IF i <= Len(c) THEN c[i] ELSE q[i - Len(c)]
  BY <1>2
<1> HIDE DEF w
<1>5. ASSUME NEW i \in 1..Len(c) + Len(q), NEW j \in 1..Len(c) + Len(q), w[i] = w[j]
      PROVE  i = j
  <2>1. CASE i <= Len(c) /\ j <= Len(c)
    <3>1. i \in 1..Len(c) /\ j \in 1..Len(c) /\ c[i] = c[j]
      BY <1>1, <1>4, <1>5, <2>1
    <3> QED BY <3>1 DEF IsInjective
  <2>2. CASE i > Len(c) /\ j > Len(c)
    <3>1. i - Len(c) \in 1..Len(q) /\ j - Len(c) \in 1..Len(q) /\ q[i - Len(c)] = q[j - Len(c)]
      BY <1>1, <1>4, <1>5, <2>2
    <3>2. i - Len(c) = j - Len(c)
      BY <3>1 DEF IsInjective
    <3> QED BY <1>1, <3>2
  <2>3. CASE i <= Len(c) /\ j > Len(c)
    <3>1. i \in 1..Len(c) /\ j - Len(c) \in 1..Len(q) /\ c[i] = q[j - Len(c)]
      BY <1>1, <1>4, <1>5, <2>3
    <3> QED BY <3>1
  <2>4. CASE i > Len(c) /\ j <= Len(c)
    <3>1. j \in 1..Len(c) /\ i - Len(c) \in 1..Len(q) /\ c[j] = q[i - Len(c)]
      BY <1>1, <1>4, <1>5, <2>4
    <3> QED BY <3>1
  <2> QED BY <1>1, <2>1, <2>2, <2>3, <2>4
<1>6. IsInjective(w)
  BY <1>3, <1>5 DEF IsInjective
<1> QED BY <1>6 DEF w

\* Every piece is at least one token.
LEMMA PieceTypes == \A toks \in Pieces : toks \in Seq(Token) /\ toks # <<>>
<1> SUFFICES ASSUME NEW toks \in Pieces PROVE toks \in Seq(Token) /\ toks # <<>>
  OBVIOUS
<1>1. PICK n \in 1..MaxPiece : toks \in [1..n -> Token]
  BY DEF Pieces
<1> QED BY <1>1, FailoverAssumption

\* Candidates are only ever added, and a mark is only ever taken away by it.
LEMMA MergeAdds ==
  ASSUME TypeOK, Merge
  PROVE  /\ cand' \in Seq(Server) /\ IsInjective(cand') /\ Len(cand') >= Len(cand)
         /\ \A i \in 1..Len(cand) : cand'[i] = cand[i]
         /\ dead' \in [Server -> {"new", "old", "no"}]
         /\ \A s \in Server : dead'[s] # "no" => dead[s] # "no"
<1>1. PICK fresh \in SUBSET Server : \E new \in SetToSeqs(fresh \ ToSet(cand)) :
         /\ cand' = cand \o new
         /\ dead' = [s \in Server |-> IF s \in fresh /\ dead[s] = "old" THEN "no" ELSE dead[s]]
  BY DEF Merge
<1> DEFINE add == fresh \ ToSet(cand)
           n == Cardinality(add)
<1>2. PICK new \in SetToSeqs(add) :
         /\ cand' = cand \o new
         /\ dead' = [s \in Server |-> IF s \in fresh /\ dead[s] = "old" THEN "no" ELSE dead[s]]
  BY <1>1
<1>3. n \in Nat
  BY FailoverAssumption, FS_Subset, FS_CardinalityType
<1>4. new \in [1..n -> add] /\ \A i, j \in 1..n : i # j => new[i] # new[j]
  BY <1>2 DEF SetToSeqs
<1>5. new \in Seq(Server) /\ Len(new) = n
  <2>1. new \in [1..n -> Server]
    BY <1>4
  <2> HIDE DEF n, add
  <2> QED BY <1>3, <2>1
<1>6. cand \in Seq(Server) /\ IsInjective(cand)
  BY DEF TypeOK
<1>7. /\ cand' \in Seq(Server) /\ Len(cand') = Len(cand) + n
      /\ \A i \in 1..Len(cand) : cand'[i] = cand[i]
  <2>1. cand' \in Seq(Server) /\ Len(cand') = Len(cand) + n
    BY <1>2, <1>5, <1>6, ConcatProperties
  <2>2. \A i \in 1..Len(cand) : cand'[i] = cand[i]
    BY <1>2, <1>5, <1>6, ConcatProperties
  <2> QED BY <2>1, <2>2
<1>8. \A i \in 1..Len(cand), j \in 1..Len(new) : cand[i] # new[j]
  BY <1>4, <1>5, <1>6 DEF ToSet
<1>9. IsInjective(cand')
  <2>1. IsInjective(new)
    BY <1>4 DEF IsInjective
  <2> QED BY <1>2, <1>5, <1>6, <1>8, <2>1, InjectiveJoin
<1>10. /\ dead' \in [Server -> {"new", "old", "no"}]
       /\ \A s \in Server : dead'[s] # "no" => dead[s] # "no"
  BY <1>2 DEF TypeOK
<1>11. Len(cand') >= Len(cand)
  BY <1>3, <1>6, <1>7
<1> QED BY <1>7, <1>9, <1>10, <1>11

\* What a call leaves behind.
LEMMA RpcEffect ==
  ASSUME TypeOK, Settled, NEW s \in Server, NEW r, NEW status, Rpc(s, r, status),
         NEW done, done = Handle(sess[s], r), done.session \in Session,
         SettledSession(done.session), done.answer.status # Unreachable
  PROVE  /\ sess' \in [Server -> Session] /\ Settled'
         /\ \A x \in Server \ {s} : sess'[x] = sess[x]
         /\ faults' \in 0..MaxFaults
         /\ \/ faults' = faults /\ s \in up /\ status = done.answer.status
               /\ status # Unreachable /\ sess'[s] = done.session
            \/ /\ status = Unreachable /\ sess'[s] \in {sess[s], done.session}
               /\ (faults' = faults /\ s \notin up) \/ faults' = faults + 1
<1>1. sess \in [Server -> Session] /\ faults \in 0..MaxFaults /\ MaxFaults \in Nat
  BY FailoverAssumption DEF TypeOK
<1>2. ASSUME NEW after \in {sess[s], done.session}, sess' = [sess EXCEPT ![s] = after]
      PROVE  /\ sess' \in [Server -> Session] /\ Settled' /\ sess'[s] = after
             /\ \A x \in Server \ {s} : sess'[x] = sess[x]
  <2>1. after \in Session /\ SettledSession(after)
    BY <1>1 DEF Settled
  <2>2. sess' \in [Server -> Session] /\ sess'[s] = after
        /\ \A x \in Server \ {s} : sess'[x] = sess[x]
    BY <1>1, <1>2, <2>1
  <2>3. \A x \in Server : SettledSession(sess'[x])
    BY <2>1, <2>2 DEF Settled
  <2> QED BY <2>2, <2>3 DEF Settled
<1>3. CASE /\ s \in up /\ status = done.answer.status
           /\ sess' = [sess EXCEPT ![s] = done.session]
           /\ UNCHANGED faults
  BY <1>1, <1>2, <1>3
<1>4. CASE /\ s \in up /\ status = Unreachable /\ faults < MaxFaults
           /\ \E after \in {sess[s], done.session} : sess' = [sess EXCEPT ![s] = after]
           /\ faults' = faults + 1
  <2>1. faults + 1 \in 0..MaxFaults
    BY <1>1, <1>4
  <2>2. PICK after \in {sess[s], done.session} : sess' = [sess EXCEPT ![s] = after]
    BY <1>4
  <2> QED BY <1>2, <1>4, <2>1, <2>2
<1>5. CASE /\ s \notin up /\ status = Unreachable /\ UNCHANGED <<sess, faults>>
  <2>1. sess' = [sess EXCEPT ![s] = sess[s]]
    BY <1>1, <1>5
  <2> QED BY <1>1, <1>2, <1>5, <2>1
<1> QED BY <1>3, <1>4, <1>5 DEF Rpc

-----------------------------------------------------------------------------
\* The invariant holds at first.

\* Nothing is open, kept or lost when the request begins.
LEMMA InitInv == Init => IInv
<1> SUFFICES ASSUME Init PROVE IInv
  OBVIOUS
<1>1. NoSession \in Session /\ OpenRequest \in Request /\ SettledSession(NoSession)
  BY RequestTypes DEF NoSession, SettledSession
<1>2. TypeOK
  <2>1. cand \in Seq(Server) /\ IsInjective(cand) /\ Len(cand) \in Nat
    BY FailoverAssumption DEF Init
  <2>2. sess \in [Server -> Session] /\ dead \in [Server -> {"new", "old", "no"}]
    BY <1>1 DEF Init
  <2>3. MaxFaults \in Nat /\ MaxPolls \in Nat
    BY FailoverAssumption
  <2>4. <<>> \in Seq(Token) /\ <<>> \in Seq(Piece) /\ Len(<<>>) = 0
    OBVIOUS
  <2>5. /\ active \in 0..Len(cand) /\ failed \in 0..Len(cand) /\ step \in 0..Len(cand) + 1
        /\ replayed \in 0..Len(hist) /\ polls \in 0..MaxPolls /\ faults \in 0..MaxFaults
    <3>1. active = 0 /\ failed = 0 /\ step = 0 /\ replayed = 0 /\ polls = 0 /\ faults = 0
          /\ hist = <<>>
      BY DEF Init
    <3> QED BY <2>1, <2>3, <2>4, <3>1
  <2>6. /\ up \subseteq Server /\ opened \in BOOLEAN /\ cut \in Nat \cup {NoCut}
        /\ pc = "idle" /\ piece = OpenRequest /\ lost \subseteq Server
        /\ text = <<>> /\ seen = <<>> /\ hist = <<>> /\ outcome = "running"
    BY DEF Init
  <2> QED BY <1>1, <2>1, <2>2, <2>4, <2>5, <2>6 DEF TypeOK
<1>3. Places
  BY FailoverAssumption DEF Init, Places
<1>4. Settled /\ Use /\ Fed /\ Tried
  BY <1>1 DEF Init, Settled, Use, Fed, Tried
<1>5. Kept
  BY DEF Init, Kept, Tiles
<1>6. Orphans
  BY DEF Init, Orphans, NoSession
<1>7. Counted
  <2>1. Faulty = {}
    BY DEF Init, Faulty, Broken, InUse
  <2>2. faults = 0 /\ outcome # "failed"
    BY DEF Init
  <2> QED BY <2>1, <2>2, FS_EmptySet DEF Counted
<1> QED BY <1>2, <1>3, <1>4, <1>5, <1>6, <1>7 DEF IInv

-----------------------------------------------------------------------------
\* The transport's own steps.

\* Whether the session can move at all is settled by the route.
LEMMA CanMoveSame ==
  ASSUME Places, Places', TypeOK, cand' \in Seq(Server), Len(cand') >= Len(cand)
  PROVE  CanMove' = CanMove
  BY DEF Places, CanMove, TypeOK

\* forward: the deferred cut rides on the piece, and the network may add candidates.
LEMMA BeginStep ==
  ASSUME IInv, NEW toks \in Pieces, Begin(toks)
  PROVE  IInv'
<1>1. /\ TypeOK /\ Places /\ Settled /\ Kept /\ Use /\ Orphans /\ Tried /\ Counted
      /\ toks \in Seq(Token)
  BY PieceTypes DEF IInv
<1>2. /\ pc = "idle" /\ piece' = ForwardRequest(Len(text), toks, cut) /\ cut' = NoCut
      /\ pc' = IF opened THEN "send" ELSE "open"
      /\ UNCHANGED <<sess, up, active, opened, hist, failed, step, replayed, polls,
                     faults, lost, text, seen, outcome>>
  BY DEF Begin, recovery, textVars
<1>3. piece' \in Request /\ piece'.op = "forward" /\ piece'.start = Len(text)
      /\ piece'.toks = toks /\ piece'.cut = cut
  BY <1>1, <1>2, RequestTypes DEF ForwardRequest, TypeOK
<1>4. /\ cand' \in Seq(Server) /\ IsInjective(cand') /\ Len(cand') >= Len(cand)
      /\ dead' \in [Server -> {"new", "old", "no"}]
      /\ \A s \in Server : dead'[s] # "no" => dead[s] # "no"
      /\ opened \/ ~Network => cand' = cand
  <2>1. CASE UNCHANGED <<cand, dead>>
    BY <1>1, <2>1 DEF TypeOK
  <2>2. CASE Network /\ Merge /\ ~opened
    BY <1>1, <2>2, MergeAdds
  <2> QED BY <2>1, <2>2 DEF Begin
<1>5. TypeOK'
  <2>1. active \in 0..Len(cand') /\ failed \in 0..Len(cand') /\ step \in 0..Len(cand') + 1
    BY <1>1, <1>4 DEF TypeOK
  <2> QED BY <1>1, <1>2, <1>3, <1>4, <2>1 DEF TypeOK
<1>6. Places'
  BY <1>1, <1>2, <1>3, <1>4 DEF Places, TypeOK
<1>7. Settled'
  BY <1>1, <1>2 DEF Settled
<1>8. Kept'
  BY <1>1, <1>2, <1>4, <1>6, CanMoveSame DEF Kept
<1>9. Use' /\ Fed'
  BY <1>1, <1>2, <1>3, <1>4 DEF Use, Fed, Used
<1>10. Orphans'
  BY <1>1, <1>2, <1>4 DEF Orphans, InUse, Used, Places
<1>11. Tried'
  BY <1>1, <1>2, <1>4 DEF Tried
<1>12. Counted'
  <2>1. Faulty' = Faulty
    BY <1>1, <1>2, <1>4 DEF Faulty, Broken, InUse, Used, Places
  <2> QED BY <1>1, <1>2, <2>1 DEF Counted, Places
<1> QED BY <1>5, <1>6, <1>7, <1>8, <1>9, <1>10, <1>11, <1>12 DEF IInv

\* A candidate that is passed over was lost before.
LEMMA SkipStep ==
  ASSUME IInv, Skip
  PROVE  IInv'
<1>1. /\ TypeOK /\ Places /\ Settled /\ Kept /\ Orphans /\ Tried /\ Counted
  BY DEF IInv
<1>2. /\ pc = "try" /\ pc' = "try" /\ step <= Len(cand) /\ step' = step + 1
      /\ Trying # failed /\ ~Alive(Trying)
      /\ UNCHANGED <<sess, up, cand, dead, active, opened, hist, cut, piece, failed,
                     replayed, polls, faults, lost, text, seen, outcome>>
  BY DEF Skip, NextCandidate, textVars
<1>3. Len(cand) \in Nat \ {0} /\ failed \in 1..Len(cand) /\ step \in 1..Len(cand)
  BY <1>1, <1>2 DEF Places, TypeOK
<1>4. Trying \in 1..Len(cand)
  BY <1>3, Around DEF Trying
<1>5. TypeOK'
  BY <1>1, <1>2, <1>3 DEF TypeOK
<1>6. Places'
  BY <1>1, <1>2, <1>3 DEF Places, CanMove
<1>7. Settled' /\ Kept' /\ Use' /\ Fed' /\ Orphans'
  BY <1>1, <1>2 DEF Settled, Kept, CanMove, Use, Fed, Orphans, InUse, Used
<1>8. Tried'
  <2>1. cand[Trying] \in lost
    <3>1. cand[Trying] \in Server
      BY <1>1, <1>4 DEF TypeOK
    <3> QED BY <1>1, <1>2, <3>1 DEF Tried, Alive
  <2>2. ASSUME NEW k \in 1..step' - 1
        PROVE  cand[((failed - 1 + k) % Len(cand)) + 1] \in lost
    <3>1. CASE k = step
      BY <2>1, <3>1 DEF Trying
    <3>2. CASE k # step
      <4>1. k \in 1..step - 1
        BY <1>2, <1>3, <3>2
      <4> QED BY <1>1, <1>2, <4>1 DEF Tried
    <3> QED BY <3>1, <3>2
  <2> QED BY <1>1, <1>2, <2>2 DEF Tried
<1>9. Counted'
  BY <1>1, <1>2 DEF Counted, Faulty, Broken, InUse, Used
<1> QED BY <1>5, <1>6, <1>7, <1>8, <1>9 DEF IInv

\* A server that was fed every kept piece holds the text.
LEMMA ResumeStep ==
  ASSUME IInv, Resume
  PROVE  IInv'
<1>1. /\ TypeOK /\ Places /\ Settled /\ Kept /\ Fed /\ Orphans /\ Tried /\ Counted
  BY DEF IInv
<1>2. /\ pc = "replay" /\ replayed = Len(hist) /\ opened' = TRUE /\ pc' = "send"
      /\ UNCHANGED <<sess, up, cand, dead, active, hist, cut, piece, failed, step,
                     replayed, polls, faults, lost, text, seen, outcome>>
  BY DEF Resume, recovery, textVars
<1>3. TypeOK'
  BY <1>1, <1>2 DEF TypeOK
<1>4. Places'
  BY <1>1, <1>2 DEF Places
<1>5. Settled' /\ Kept' /\ Fed' /\ Orphans' /\ Tried'
  BY <1>1, <1>2 DEF Settled, Kept, CanMove, Fed, Orphans, InUse, Used, Tried
<1>6. Use'
  <2>1. Tiles(hist, text)
    BY <1>1, <1>2 DEF Kept, Places
  <2>2. FedTo = Len(text)
    BY <1>1, <1>2, <2>1, Empty DEF FedTo, EndOf, Tiles, TypeOK
  <2>3. SubSeq(text, 1, Len(text)) = text
    BY <1>1 DEF TypeOK
  <2>4. Holds(sess[Used], text, NoCut)
    BY <1>1, <1>2, <2>2, <2>3 DEF Fed
  <2>5. Holds(sess[Used], text, piece.cut)
    BY <2>4 DEF Holds
  <2> QED BY <1>2, <2>5 DEF Use, Used
<1>7. Counted'
  BY <1>1, <1>2 DEF Counted, Faulty, Broken, InUse, Used, Places
<1> QED BY <1>3, <1>4, <1>5, <1>6, <1>7 DEF IInv

\* When every candidate was tried, every one was lost: a fault for each.
LEMMA ExhaustedStep ==
  ASSUME IInv, Exhausted
  PROVE  IInv'
<1>1. /\ TypeOK /\ Places /\ Settled /\ Kept /\ Orphans /\ Tried /\ Counted
  BY DEF IInv
<1>2. /\ pc = "try" /\ step > Len(cand)
      /\ \/ pc' = "close" /\ outcome' = "failed"
         \/ pc' = "wait" /\ Network /\ polls < MaxPolls /\ UNCHANGED outcome
      /\ UNCHANGED <<sess, up, cand, dead, active, opened, hist, cut, piece, failed,
                     step, replayed, polls, faults, lost, text, seen>>
  BY DEF Exhausted, Raise, recovery, textVars
<1>3. Len(cand) \in Nat \ {0} /\ failed \in 1..Len(cand) /\ step = Len(cand) + 1
  <2>1. Len(cand) \in Nat \ {0} /\ failed \in 1..Len(cand)
    BY <1>1, <1>2 DEF Places, TypeOK
  <2>2. step \in 0..Len(cand) + 1
    BY <1>1 DEF TypeOK
  <2> QED BY <1>2, <2>1, <2>2
<1>4. Len(cand) <= faults
  <2>1. ASSUME NEW i \in 1..Len(cand) PROVE cand[i] \in lost
    <3>1. PICK k \in 1..Len(cand) : ((failed - 1 + k) % Len(cand)) + 1 = i
      BY <1>3, Around
    <3>2. k \in 1..step - 1
      BY <1>3
    <3> QED BY <1>1, <1>2, <3>1, <3>2 DEF Tried
  <2>2. Faulty \subseteq Server /\ \A i \in 1..Len(cand) : cand[i] \in Faulty
    BY <1>1, <2>1 DEF Faulty, Broken, TypeOK
  <2>3. Len(cand) <= Cardinality(Faulty)
    BY <1>1, <2>2, FailoverAssumption, AsMany DEF TypeOK
  <2>4. Cardinality(Faulty) <= faults /\ Cardinality(Faulty) \in Nat /\ faults \in Nat
    BY <1>1, <2>2, FailoverAssumption, FS_Subset, FS_CardinalityType DEF Counted, TypeOK
  <2> QED BY <1>3, <2>3, <2>4
<1>5. TypeOK'
  BY <1>1, <1>2 DEF TypeOK
<1>6. Places'
  BY <1>1, <1>2, <1>3 DEF Places, CanMove
<1>7. Settled' /\ Kept' /\ Use' /\ Fed' /\ Orphans' /\ Tried'
  BY <1>1, <1>2 DEF Settled, Kept, CanMove, Use, Fed, Orphans, InUse, Used, Tried, Trying
<1>8. Counted'
  BY <1>1, <1>2, <1>4 DEF Counted, Faulty, Broken, InUse, Used
<1> QED BY <1>5, <1>6, <1>7, <1>8 DEF IInv

\* More candidates only ever join the end, so those tried stay where they were.
LEMMA AskStep ==
  ASSUME IInv, Ask
  PROVE  IInv'
<1>1. /\ TypeOK /\ Places /\ Settled /\ Kept /\ Orphans /\ Tried /\ Counted
  BY DEF IInv
<1>2. /\ pc = "wait" /\ Merge /\ polls' = polls + 1 /\ step' = 1 /\ pc' = "try"
      /\ UNCHANGED <<sess, up, active, opened, hist, cut, piece, failed, replayed,
                     faults, lost, text, seen, outcome>>
  BY DEF Ask, textVars
<1>3. /\ cand' \in Seq(Server) /\ IsInjective(cand') /\ Len(cand') >= Len(cand)
      /\ \A i \in 1..Len(cand) : cand'[i] = cand[i]
      /\ dead' \in [Server -> {"new", "old", "no"}]
      /\ \A s \in Server : dead'[s] # "no" => dead[s] # "no"
  BY <1>1, <1>2, MergeAdds
<1>4. /\ Len(cand) \in Nat \ {0} /\ failed \in 1..Len(cand) /\ active \in 0..Len(cand)
      /\ polls + 1 \in 0..MaxPolls /\ Len(cand') \in Nat \ {0}
  <2>1. Len(cand) \in Nat \ {0} /\ failed \in 1..Len(cand) /\ active \in 0..Len(cand)
    BY <1>1, <1>2 DEF Places, TypeOK
  <2>2. polls + 1 \in 0..MaxPolls
    BY <1>1, <1>2, FailoverAssumption DEF Places, TypeOK
  <2>3. Len(cand') \in Nat
    BY <1>3
  <2> QED BY <1>3, <2>1, <2>2, <2>3
<1>5. TypeOK'
  BY <1>1, <1>2, <1>3, <1>4 DEF TypeOK
<1>6. Network
  BY <1>1, <1>2 DEF Places
<1>7. Places'
  BY <1>1, <1>2, <1>3, <1>4, <1>6 DEF Places, CanMove
<1>8. Settled' /\ Use' /\ Fed' /\ Orphans'
  BY <1>1, <1>2 DEF Settled, Use, Fed, Orphans, InUse, Used
<1>9. Kept'
  BY <1>1, <1>2, <1>3, <1>7, CanMoveSame DEF Kept
<1>10. Tried'
  BY <1>1, <1>2, <1>3, <1>4 DEF Tried
<1>11. Counted'
  BY <1>1, <1>2 DEF Counted, Faulty, Broken, InUse, Used, Places
<1> QED BY <1>5, <1>7, <1>8, <1>9, <1>10, <1>11 DEF IInv

\* The loop is done.
LEMMA FinishStep ==
  ASSUME IInv, Finish
  PROVE  IInv'
<1>1. /\ TypeOK /\ Places /\ Settled /\ Kept /\ Orphans /\ Tried /\ Counted
  BY DEF IInv
<1>2. /\ pc = "idle" /\ text # <<>> /\ outcome' = "done" /\ pc' = "close"
      /\ UNCHANGED <<sess, up, cand, dead, active, opened, hist, cut, piece, failed,
                     step, replayed, polls, faults, lost, text, seen>>
  BY DEF Finish, recovery
<1>3. TypeOK'
  BY <1>1, <1>2 DEF TypeOK
<1>4. Places'
  BY <1>1, <1>2 DEF Places
<1>5. Settled' /\ Kept' /\ Use' /\ Fed' /\ Orphans' /\ Tried'
  BY <1>1, <1>2 DEF Settled, Kept, CanMove, Use, Fed, Orphans, InUse, Used, Tried, Trying
<1>6. Counted'
  <2>1. Faulty' \subseteq Faulty /\ Faulty \subseteq Server
    BY <1>1, <1>2 DEF Faulty, Broken, InUse, Used, TypeOK
  <2>2. Cardinality(Faulty') <= faults
    BY <1>1, <2>1, MoreFaulty
  <2> QED BY <1>2, <2>2 DEF Counted
<1> QED BY <1>3, <1>4, <1>5, <1>6 DEF IInv

\* The candidate a first open is sent to.
LEMMA FirstIsCandidate == ASSUME TypeOK, cand # <<>> PROVE FirstAlive \in 1..Len(cand)
<1> DEFINE live == {i \in DOMAIN cand : Alive(i)}
<1>1. DOMAIN cand = 1..Len(cand) /\ 1 \in 1..Len(cand) /\ live \subseteq Nat
  BY DEF TypeOK
<1>2. FirstAlive = IF live = {} THEN 1 ELSE CHOOSE i \in live : \A j \in live : i <= j
  BY DEF FirstAlive
<1>3. CASE live = {}
  BY <1>1, <1>2, <1>3
<1>4. CASE live # {}
  <2>1. \E i \in live : \A j \in live : i <= j
    BY <1>1, <1>4, Least
  <2>2. FirstAlive \in live
    BY <1>2, <1>4, <2>1
  <2> QED BY <1>1, <2>2
<1> QED BY <1>3, <1>4

\* A server that did not answer, or had lost the session, cost a fault.
LEMMA LostCount ==
  ASSUME TypeOK, Counted, NEW s \in Server,
         (faults' = faults /\ s \in Faulty) \/ faults' = faults + 1
  PROVE  /\ faults <= faults' /\ Cardinality(Faulty \cup {s}) <= faults'
         /\ Faulty' \subseteq Faulty \cup {s} => Cardinality(Faulty') <= faults'
<1>1. CASE faults' = faults /\ s \in Faulty
  <2>1. Faulty \cup {s} = Faulty
    BY <1>1
  <2>2. \A G : G \subseteq Faulty => Cardinality(G) <= faults
    BY MoreFaulty
  <2>3. Faulty' \subseteq Faulty \cup {s} => Cardinality(Faulty') <= faults
    BY <2>1, <2>2
  <2>4. faults <= faults'
    BY <1>1 DEF TypeOK
  <2> QED BY <1>1, <2>1, <2>2, <2>3, <2>4
<1>2. CASE faults' = faults + 1
  <2>1. \A G : G \subseteq Faulty \cup {s} => Cardinality(G) <= faults + 1
    BY MoreFaulty
  <2>2. faults <= faults'
    BY <1>2, FailoverAssumption DEF TypeOK
  <2> QED BY <1>2, <2>1, <2>2
<1> QED BY <1>1, <1>2

\* Without anywhere to move there is one candidate.
LEMMA OnlyOne ==
  ASSUME TypeOK, ~CanMove, NEW i \in 1..Len(cand), NEW F, F \subseteq Server, cand[i] \in F
  PROVE  Len(cand) <= Cardinality(F)
<1>1. \A j \in 1..Len(cand) : j = i
  BY DEF CanMove, TypeOK
<1> QED BY <1>1, FailoverAssumption, AsMany DEF TypeOK

\* The first open of the session: on a server that answers it is empty, and one
\* that does not answer is lost and cost a fault.
LEMMA OpenFirstStep ==
  ASSUME IInv, OpenFirst
  PROVE  IInv'
<1> DEFINE s == cand[FirstAlive]
           done == Handle(sess[s], OpenRequest)
<1>1. /\ TypeOK /\ Places /\ Settled /\ Kept /\ Orphans /\ Tried /\ Counted
  BY DEF IInv
<1>2. PICK status \in {200, Unreachable} :
       /\ Rpc(s, OpenRequest, status)
       /\ IF status = 200
          THEN /\ active' = FirstAlive /\ opened' = TRUE /\ pc' = "send"
               /\ UNCHANGED <<dead, lost, recovery, textVars>>
          ELSE /\ UNCHANGED <<active, opened>>
               /\ \/ CanMove /\ Recover(FirstAlive)
                  \/ /\ ~CanMove /\ Raise
                     /\ lost' = lost \cup {cand[FirstAlive]}
                     /\ UNCHANGED <<dead, recovery>>
  BY DEF OpenFirst
<1>3. pc = "open" /\ UNCHANGED <<up, cand, hist, cut, piece>>
  BY DEF OpenFirst
<1>4. /\ FirstAlive \in 1..Len(cand) /\ s \in Server /\ sess[s] \in Session
      /\ SettledSession(sess[s]) /\ Len(cand) \in Nat \ {0}
  <2>1. FirstAlive \in 1..Len(cand) /\ Len(cand) \in Nat \ {0}
    BY <1>1, FirstIsCandidate DEF Places, TypeOK
  <2>2. s \in Server
    BY <1>1, <2>1 DEF TypeOK
  <2> QED BY <1>1, <2>1, <2>2 DEF TypeOK, Settled
<1>5. /\ done.session \in Session /\ SettledSession(done.session)
      /\ done.session.open /\ done.answer.status = 200
  <2>1. Session = SessionOf(Token)
    BY DEF Session, SessionOf, Request, RequestOf
  <2> QED BY <1>4, <2>1, OthersSettled
<1>6. ~opened /\ active = 0 /\ text = <<>> /\ ~InUse
  BY <1>1, <1>3 DEF Places, InUse
<1> HIDE DEF done, s
<1>7. /\ sess' \in [Server -> Session] /\ Settled'
      /\ \A x \in Server \ {s} : sess'[x] = sess[x]
      /\ faults' \in 0..MaxFaults
      /\ \/ faults' = faults /\ status = 200 /\ sess'[s] = done.session
         \/ /\ status = Unreachable
            /\ (faults' = faults /\ s \notin up) \/ faults' = faults + 1
  <2>1. done.answer.status # Unreachable
    BY <1>5 DEF Unreachable
  <2> QED BY <1>1, <1>2, <1>4, <1>5, <2>1, RpcEffect DEF done
<1>8. \A x \in Server \ lost : ~sess[x].open
  BY <1>1, <1>6 DEF Orphans
<1>9. CASE status = 200
  <2>1. /\ active' = FirstAlive /\ opened' = TRUE /\ pc' = "send"
        /\ UNCHANGED <<dead, lost, failed, step, replayed, polls, text, seen, outcome>>
    BY <1>2, <1>9 DEF recovery, textVars
  <2>2. faults' = faults /\ sess'[s] = done.session
    BY <1>7, <1>9 DEF Unreachable
  <2>3. TypeOK'
    BY <1>1, <1>3, <1>4, <1>7, <2>1, <2>2 DEF TypeOK
  <2>4. Places' /\ Kept' /\ Fed' /\ Tried'
    BY <1>1, <1>3, <1>4, <1>6, <2>1 DEF Places, CanMove, Kept, Fed, Tried
  <2>5. Use'
    BY <1>6, <2>1 DEF Use, Holds
  <2>6. Used' = s
    BY <1>3, <2>1 DEF Used, s
  <2>7. Orphans'
    BY <1>4, <1>7, <1>8, <2>1, <2>6 DEF Orphans, InUse
  <2>8. Counted'
    <3>1. Faulty' \subseteq Faulty
      BY <1>3, <1>5, <2>1, <2>2, <2>6 DEF Faulty, Broken
    <3>2. Cardinality(Faulty') <= faults
      BY <1>1, <3>1, MoreFaulty
    <3> QED BY <1>1, <1>3, <2>1, <2>2, <3>2 DEF Counted
  <2> QED BY <1>7, <2>3, <2>4, <2>5, <2>7, <2>8 DEF IInv
<1>10. CASE status = Unreachable
  <2>1. status # 200 /\ ((faults' = faults /\ s \notin up) \/ faults' = faults + 1)
    BY <1>7, <1>10 DEF Unreachable
  <2>2. /\ UNCHANGED <<active, opened, text, seen>> /\ lost' = lost \cup {s}
        /\ \/ /\ CanMove /\ dead' = [dead EXCEPT ![s] = "new"] /\ failed' = FirstAlive
              /\ step' = 1 /\ replayed' = 0 /\ polls' = 0 /\ pc' = "try" /\ outcome' = outcome
           \/ /\ ~CanMove /\ outcome' = "failed" /\ pc' = "close"
              /\ UNCHANGED <<dead, failed, step, replayed, polls>>
    <3>1. CASE CanMove /\ Recover(FirstAlive)
      BY <1>2, <2>1, <3>1 DEF Recover, MarkDead, textVars, s
    <3>2. CASE /\ ~CanMove /\ Raise /\ lost' = lost \cup {cand[FirstAlive]}
               /\ UNCHANGED <<dead, recovery>>
      BY <1>2, <2>1, <3>2 DEF Raise, recovery, s
    <3> QED BY <1>2, <2>1, <3>1, <3>2
  <2>3. (faults' = faults /\ s \in Faulty) \/ faults' = faults + 1
    BY <1>4, <2>1 DEF Faulty
  <2>4. TypeOK'
    <3>1. failed' \in 0..Len(cand) /\ step' \in 0..Len(cand) + 1
          /\ replayed' \in 0..Len(hist) /\ polls' \in 0..MaxPolls
          /\ dead' \in [Server -> {"new", "old", "no"}]
      <4>1. 0 \in 0..Len(hist) /\ 0 \in 0..MaxPolls
        BY <1>1, FailoverAssumption DEF TypeOK
      <4>2. [dead EXCEPT ![s] = "new"] \in [Server -> {"new", "old", "no"}]
            /\ dead \in [Server -> {"new", "old", "no"}]
        BY <1>1 DEF TypeOK
      <4>3. FirstAlive \in 0..Len(cand) /\ 1 \in 0..Len(cand) + 1
        BY <1>4
      <4>4. /\ failed \in 0..Len(cand) /\ step \in 0..Len(cand) + 1
            /\ replayed \in 0..Len(hist) /\ polls \in 0..MaxPolls
        BY <1>1 DEF TypeOK
      <4> QED BY <2>2, <4>1, <4>2, <4>3, <4>4
    <3> QED BY <1>1, <1>3, <1>4, <1>7, <2>2, <3>1 DEF TypeOK
  <2>5. Places'
    BY <1>1, <1>3, <1>4, <1>6, <2>2 DEF Places, CanMove
  <2>6. Kept' /\ Use' /\ Fed'
    BY <1>1, <1>3, <2>2 DEF CanMove, Kept, Use, Fed
  <2>7. Orphans'
    BY <1>7, <1>8, <2>2 DEF Orphans
  <2>8. Tried'
    <3>1. \A x \in Server : dead'[x] # "no" => x \in lost'
      BY <1>1, <1>4, <2>2 DEF Tried, TypeOK
    <3>2. pc' = "try" => cand'[failed'] \in lost' /\ step' = 1
      BY <1>3, <2>2 DEF s
    <3> QED BY <2>2, <3>1, <3>2 DEF Tried
  <2>9. Faulty' \subseteq Faulty \cup {s}
    BY <1>3, <2>2 DEF Faulty, Broken, InUse
  <2>10. Counted'
    <3>1. Cardinality(Faulty') <= faults' /\ Cardinality(Faulty \cup {s}) <= faults' /\ faults' \in Nat
      BY <1>1, <1>4, <1>7, <2>3, <2>9, LostCount
    <3>2. CASE CanMove
      BY <1>1, <1>3, <2>2, <3>1, <3>2 DEF Counted, Places
    <3>3. CASE ~CanMove
      <4>1. Faulty \cup {s} \subseteq Server
        BY <1>1, <1>4 DEF Faulty, Broken, TypeOK
      <4>2. Len(cand) <= Cardinality(Faulty \cup {s})
        BY <1>1, <1>4, <3>3, <4>1, OnlyOne DEF s
      <4>3. Cardinality(Faulty \cup {s}) \in Nat
        BY <4>1, FailoverAssumption, FS_Subset, FS_CardinalityType
      <4>4. Len(cand) <= faults'
        BY <1>4, <3>1, <4>2, <4>3
      <4> QED BY <1>3, <3>1, <4>4 DEF Counted
    <3> QED BY <3>2, <3>3
  <2> QED BY <1>7, <2>4, <2>5, <2>6, <2>7, <2>8, <2>10 DEF IInv
<1> QED BY <1>9, <1>10

\* What the server in use makes of the piece: the text and the piece, or,
\* without the session, nothing.
LEMMA SendAnswer ==
  ASSUME TypeOK, Places, Settled, Use, pc = "send"
  PROVE  LET done == Handle(sess[Used], piece) IN
         /\ active \in 1..Len(cand) /\ Used \in Server
         /\ piece.toks \in Seq(Token) /\ piece.toks # <<>>
         /\ done.session \in Session /\ SettledSession(done.session)
         /\ sess[Used].open =>
              /\ done.answer = [status |-> 200, out |-> text \o piece.toks]
              /\ done.session.open /\ done.session.kv = text \o piece.toks
              /\ \A l \in done.session.last : l.key.start = Len(text)
         /\ ~sess[Used].open => done.session = sess[Used] /\ done.answer.status = 404
<1>1. active \in 1..Len(cand) /\ Used \in Server
  BY DEF Places, TypeOK, Used
<1>2. /\ piece.op = "forward" /\ piece.start = Len(text) /\ piece.toks \in Pieces
      /\ piece.cut \in {NoCut, Len(text)} /\ piece \in Request /\ text \in Seq(Token)
  BY DEF Places, TypeOK
<1>3. piece.toks \in Seq(Token) /\ piece.toks # <<>>
  BY <1>2, PieceTypes
<1>4. piece = ForwardRequest(Len(text), piece.toks, piece.cut)
  BY <1>2 DEF Request, ForwardRequest
<1>5. Session = SessionOf(Token)
  BY DEF Session, SessionOf, Request, RequestOf
<1>6. sess[Used] \in SessionOf(Token) /\ SettledSession(sess[Used])
  BY <1>1, <1>5 DEF TypeOK, Settled
<1>7. CASE sess[Used].open
  <2>1. Holds(sess[Used], text, piece.cut)
    BY DEF Use
  <2>2. Asked(Token, sess[Used], text, piece)
    BY <1>2, <1>3, <1>4, <1>6, <1>7, <2>1 DEF Asked
  <2>3. Grown(Token, Handle(sess[Used], piece), text, piece)
    BY <2>2, ForwardHeld
  <2> QED BY <1>1, <1>2, <1>3, <1>5, <1>7, <2>3 DEF Grown, Ran
<1>8. CASE ~sess[Used].open
  <2>1. Handle(sess[Used], piece).session = sess[Used]
        /\ Handle(sess[Used], piece).answer.status = 404
    <3>1. \A r : r.op = "forward" =>
              Handle(sess[Used], r).session = sess[Used] /\ Handle(sess[Used], r).answer.status = 404
      BY <1>6, <1>8, OthersSettled
    <3> QED BY <1>2, <3>1
  <2> QED BY <1>1, <1>3, <1>5, <1>6, <1>8, <2>1
<1> QED BY <1>7, <1>8

\* The piece is answered over the text and the piece, and kept as the loop keeps
\* it; or the server was lost, at the cost of a fault, and the search begins.
LEMMA SendPieceStep ==
  ASSUME IInv, SendPiece
  PROVE  IInv'
<1> DEFINE s == cand[active]
           done == Handle(sess[s], piece)
           full == text \o piece.toks
<1>1. /\ TypeOK /\ Places /\ Settled /\ Kept /\ Use /\ Orphans /\ Tried /\ Counted
  BY DEF IInv
<1>2. PICK status \in {200, 404, 500, Unreachable} :
       /\ Rpc(s, piece, status)
       /\ \/ status = 200 /\ \E n \in 1..MaxLen : Accept(n)
          \/ /\ status \in {404, Unreachable} /\ CanMove
             /\ Recover(active) /\ UNCHANGED <<hist, cut>>
          \/ /\ status = 500 \/ (status # 200 /\ ~CanMove)
             /\ Raise /\ UNCHANGED <<hist, cut, dead, lost, recovery>>
  BY DEF SendPiece
<1>3. pc = "send" /\ UNCHANGED <<up, cand, active, opened, piece>>
  BY DEF SendPiece
<1>4. /\ active \in 1..Len(cand) /\ s \in Server
      /\ piece.toks \in Seq(Token) /\ piece.toks # <<>>
      /\ done.session \in Session /\ SettledSession(done.session)
      /\ sess[s].open =>
           /\ done.answer = [status |-> 200, out |-> full]
           /\ done.session.open /\ done.session.kv = full
           /\ \A l \in done.session.last : l.key.start = Len(text)
      /\ ~sess[s].open => done.session = sess[s] /\ done.answer.status = 404
  BY <1>1, <1>3, SendAnswer DEF Used
<1>5. opened /\ active # 0 /\ outcome = "running" /\ Len(cand) \in Nat
  BY <1>1, <1>3 DEF Places, TypeOK
<1> HIDE DEF done, s, full
<1>6. /\ sess' \in [Server -> Session] /\ Settled'
      /\ \A x \in Server \ {s} : sess'[x] = sess[x]
      /\ faults' \in 0..MaxFaults
      /\ \/ faults' = faults /\ status = done.answer.status /\ status # Unreachable
            /\ sess'[s] = done.session
         \/ /\ status = Unreachable
            /\ (faults' = faults /\ s \notin up) \/ faults' = faults + 1
  <2>1. done.answer.status # Unreachable
    BY <1>4 DEF Unreachable
  <2> QED BY <1>1, <1>2, <1>4, <2>1, RpcEffect DEF done
<1>7. Used = s /\ Used' = s /\ InUse
  BY <1>3, <1>5 DEF Used, s, InUse
<1>8. \A x \in Server \ lost : sess[x].open => x = s
  BY <1>1, <1>7 DEF Orphans
<1>9. ASSUME status = 200, NEW n \in 1..MaxLen, Accept(n) PROVE IInv'
  <2>1. /\ n \in Len(text) + 1 .. Len(full) /\ text' = SubSeq(full, 1, n)
        /\ seen' = done.answer.out /\ pc' = "idle"
        /\ hist' = LET sent == IF CanMove THEN Append(hist, [start |-> piece.start, toks |-> piece.toks])
                               ELSE hist
                   IN IF n < Len(full) THEN CutHistory(sent, n) ELSE sent
        /\ cut' = IF n < Len(full) THEN n ELSE NoCut
        /\ UNCHANGED <<outcome, dead, lost, failed, step, replayed, polls>>
    BY <1>9 DEF Accept, recovery, full, done, s
  <2>2. faults' = faults /\ sess'[s] = done.session /\ sess[s].open
    BY <1>4, <1>6, <1>9 DEF Unreachable
  <2>3. /\ full \in Seq(Token) /\ text \in Seq(Token) /\ Len(full) = Len(text) + Len(piece.toks)
        /\ Len(text) \in Nat /\ Len(piece.toks) \in Nat \ {0}
    <3>1. text \in Seq(Token) /\ Len(text) \in Nat
      BY <1>1 DEF TypeOK
    <3>2. Len(piece.toks) \in Nat \ {0}
      BY <1>4
    <3> QED BY <1>4, <3>1, <3>2, ConcatProperties DEF full
  <2>4. n \in 1..Len(full) /\ n \in Nat /\ Len(text) < n
    BY <2>1, <2>3
  <2>5. /\ text' \in Seq(Token) /\ Len(text') = n
        /\ \A i \in 1..n : text'[i] = full[i]
    BY <2>1, <2>3, <2>4, Taken
  <2>6. /\ hist' \in Seq(Piece) /\ Len(hist') >= Len(hist)
        /\ CanMove => Tiles(hist', text')
        /\ ~CanMove => hist' = <<>>
    <3>1. CASE ~CanMove
      <4>1. hist = <<>>
        BY <1>1, <3>1 DEF Kept
      <4>2. CutHistory(<<>>, n) = <<>>
        BY CutNothing
      <4>3. hist' = <<>> /\ Len(hist) = 0 /\ Len(hist') = 0
        BY <2>1, <3>1, <4>1, <4>2
      <4> QED BY <3>1, <4>3
    <3>2. CASE CanMove
      <4> DEFINE p == [start |-> piece.start, toks |-> piece.toks]
                 sent == Append(hist, p)
      <4>1. p \in Piece /\ p.start = Len(text) /\ p.toks = piece.toks
        BY <1>1, <1>3, <1>4, <2>3 DEF Piece, Places
      <4>2. hist \in Seq(Piece) /\ Tiles(hist, text)
        BY <1>1, <1>3, <3>2 DEF Kept, TypeOK
      <4>3. hist' = IF n < Len(full) THEN CutHistory(sent, n) ELSE sent
        BY <2>1, <3>2
      <4> HIDE DEF p
      <4>4. sent \in Seq(Piece) /\ Len(sent) = Len(hist) + 1 /\ Tiles(sent, full)
        BY <1>4, <2>3, <4>1, <4>2, AppendTiles DEF full
      <4>5. CASE n < Len(full)
        <5>1. n \in 0..Len(full)
          BY <2>4
        <5>2. \A i \in 1..Len(sent) : sent[i].start < n
          <6>1. \A i \in 1..Len(hist) : hist[i].start < Len(text) /\ hist[i].start \in Nat
            BY <2>3, <4>2, TileBounds
          <6>2. \A i \in 1..Len(sent) : (i \in 1..Len(hist) /\ sent[i] = hist[i]) \/ sent[i] = p
            BY <4>2
          <6> QED BY <2>3, <2>4, <4>1, <6>1, <6>2
        <5> HIDE DEF sent
        <5>3. /\ CutHistory(sent, n) \in Seq(Piece) /\ Len(CutHistory(sent, n)) = Len(sent)
              /\ Tiles(CutHistory(sent, n), SubSeq(full, 1, n))
          BY <2>3, <4>4, <5>1, <5>2, CutTiles
        <5>4. Len(hist) + 1 >= Len(hist)
          BY <4>2
        <5> QED BY <2>1, <3>2, <4>3, <4>4, <4>5, <5>3, <5>4
      <4>6. CASE n = Len(full)
        <5>1. text' = full
          BY <2>1, <2>3, <4>6
        <5>2. Len(hist) + 1 >= Len(hist)
          BY <4>2
        <5> HIDE DEF sent
        <5> QED BY <3>2, <4>3, <4>4, <4>6, <5>1, <5>2
      <4> QED BY <2>4, <4>5, <4>6
    <3> QED BY <3>1, <3>2
  <2>7. TypeOK'
    <3>1. replayed' \in 0..Len(hist') /\ cut' \in Nat \cup {NoCut}
      BY <1>1, <2>1, <2>4, <2>6 DEF TypeOK
    <3>2. seen' = full
      BY <1>4, <2>1, <2>2
    <3> QED BY <1>1, <1>3, <1>6, <2>1, <2>3, <2>5, <2>6, <3>1, <3>2 DEF TypeOK
  <2>8. Places'
    BY <1>1, <1>3, <1>5, <2>1, <2>5 DEF Places, CanMove
  <2>9. Kept' /\ Fed' /\ Tried'
    BY <1>1, <1>3, <2>1, <2>6 DEF CanMove, Kept, Fed, Tried
  <2>10. Use'
    <3>1. Holds(sess'[s], text', cut')
      <4>1. sess'[s].kv = full /\ \A l \in sess'[s].last : l.key.start = Len(text)
        BY <1>4, <2>2
      <4>2. Len(text') <= Len(full) /\ \A i \in 1..Len(text') : full[i] = text'[i]
        BY <2>4, <2>5
      <4>3. cut' = NoCut => Len(full) = Len(text')
        BY <2>1, <2>4, <2>5 DEF NoCut
      <4>4. Len(text) < Len(text')
        BY <2>4, <2>5
      <4> QED BY <4>1, <4>2, <4>3, <4>4 DEF Holds
    <3> QED BY <1>7, <2>1, <3>1 DEF Use
  <2>11. Orphans'
    BY <1>3, <1>5, <1>6, <1>7, <1>8, <2>1 DEF Orphans, InUse
  <2>12. Counted'
    <3>1. Faulty' \subseteq Faulty
      BY <1>3, <1>4, <1>7, <2>1, <2>2 DEF Faulty, Broken
    <3>2. Cardinality(Faulty') <= faults
      BY <1>1, <3>1, MoreFaulty
    <3> QED BY <1>5, <2>1, <2>2, <3>2 DEF Counted
  <2> QED BY <1>6, <2>7, <2>8, <2>9, <2>10, <2>11, <2>12 DEF IInv
<1>10. status # 200 => (faults' = faults /\ s \in Faulty) \/ faults' = faults + 1
  <2> SUFFICES ASSUME status # 200
               PROVE  (faults' = faults /\ s \in Faulty) \/ faults' = faults + 1
    OBVIOUS
  <2>1. CASE faults' = faults /\ status = done.answer.status
    <3>1. ~sess[s].open
      BY <1>4, <2>1
    <3> QED BY <1>4, <1>7, <2>1, <3>1 DEF Faulty, Broken
  <2>2. CASE (faults' = faults /\ s \notin up) \/ faults' = faults + 1
    BY <1>4, <2>2 DEF Faulty
  <2> QED BY <1>6, <2>1, <2>2
<1>11. ASSUME status # 200, CanMove, Recover(active), UNCHANGED <<hist, cut>> PROVE IInv'
  <2>1. /\ lost' = lost \cup {s} /\ dead' = [dead EXCEPT ![s] = "new"] /\ failed' = active
        /\ step' = 1 /\ replayed' = 0 /\ polls' = 0 /\ pc' = "try"
        /\ UNCHANGED <<hist, cut, text, seen, outcome>>
    BY <1>11 DEF Recover, MarkDead, textVars, s
  <2>2. TypeOK'
    <3>1. /\ failed' \in 0..Len(cand) /\ step' \in 0..Len(cand) + 1
          /\ replayed' \in 0..Len(hist) /\ polls' \in 0..MaxPolls
      <4>1. 0 \in 0..Len(hist) /\ 0 \in 0..MaxPolls
        BY <1>1, FailoverAssumption DEF TypeOK
      <4> QED BY <1>4, <1>5, <2>1, <4>1
    <3>2. dead' \in [Server -> {"new", "old", "no"}]
      BY <1>1, <2>1 DEF TypeOK
    <3> QED BY <1>1, <1>3, <1>4, <1>6, <2>1, <3>1, <3>2 DEF TypeOK
  <2>3. Places'
    BY <1>1, <1>3, <1>4, <1>5, <1>11, <2>1 DEF Places, CanMove
  <2>4. Kept' /\ Use' /\ Fed'
    BY <1>1, <1>3, <2>1 DEF CanMove, Kept, Use, Fed
  <2>5. Orphans'
    BY <1>6, <1>8, <2>1 DEF Orphans
  <2>6. Tried'
    <3>1. \A x \in Server : dead'[x] # "no" => x \in lost'
      BY <1>1, <1>4, <2>1 DEF Tried, TypeOK
    <3>2. cand'[failed'] \in lost' /\ step' = 1
      BY <1>3, <2>1 DEF s
    <3> QED BY <2>1, <3>1, <3>2 DEF Tried
  <2>7. Counted'
    <3>1. Faulty' \subseteq Faulty \cup {s}
      BY <1>3, <2>1 DEF Faulty, Broken, InUse
    <3>2. Cardinality(Faulty') <= faults'
      BY <1>1, <1>4, <1>10, <1>11, <3>1, LostCount
    <3> QED BY <1>5, <2>1, <3>2 DEF Counted
  <2> QED BY <1>6, <2>2, <2>3, <2>4, <2>5, <2>6, <2>7 DEF IInv
<1>12. ASSUME status # 200, ~CanMove, Raise, UNCHANGED <<hist, cut, dead, lost, recovery>>
       PROVE  IInv'
  <2>1. /\ outcome' = "failed" /\ pc' = "close"
        /\ UNCHANGED <<hist, cut, dead, lost, failed, step, replayed, polls, text, seen>>
    BY <1>12 DEF Raise, recovery
  <2>2. TypeOK'
    BY <1>1, <1>3, <1>6, <2>1 DEF TypeOK
  <2>3. Places'
    BY <1>1, <1>3, <1>5, <2>1 DEF Places, CanMove
  <2>4. Kept' /\ Use' /\ Fed' /\ Tried'
    BY <1>1, <1>3, <2>1 DEF CanMove, Kept, Use, Fed, Tried
  <2>5. Orphans'
    BY <1>3, <1>5, <1>6, <1>7, <1>8, <2>1 DEF Orphans
  <2>6. Counted'
    <3>1. Faulty' \subseteq Faulty
      BY <1>3, <2>1 DEF Faulty, Broken, InUse
    <3>2. Faulty' \subseteq Faulty \cup {s}
      BY <3>1
    <3>3. /\ Cardinality(Faulty') <= faults' /\ Cardinality(Faulty \cup {s}) <= faults'
          /\ faults' \in Nat
      <4>1. faults' \in Nat
        BY <1>6
      <4> QED BY <1>1, <1>4, <1>10, <1>12, <3>2, <4>1, LostCount
    <3>4. Faulty \cup {s} \subseteq Server
      BY <1>1, <1>4 DEF Faulty, Broken, TypeOK
    <3>5. Len(cand) <= Cardinality(Faulty \cup {s})
      BY <1>1, <1>4, <1>12, <3>4, OnlyOne DEF s
    <3>6. Cardinality(Faulty \cup {s}) \in Nat
      BY <3>4, FailoverAssumption, FS_Subset, FS_CardinalityType
    <3>7. Len(cand) <= faults'
      BY <1>5, <3>3, <3>5, <3>6
    <3> QED BY <1>3, <3>3, <3>7 DEF Counted
  <2> QED BY <1>6, <2>2, <2>3, <2>4, <2>5, <2>6 DEF IInv
<1>13. status # 500
  BY <1>4, <1>6 DEF Unreachable
<1>14. CASE status = 200 /\ \E n \in 1..MaxLen : Accept(n)
  BY <1>9, <1>14
<1>15. CASE status \in {404, Unreachable} /\ CanMove /\ Recover(active) /\ UNCHANGED <<hist, cut>>
  BY <1>11, <1>15 DEF Unreachable
<1>16. CASE /\ status = 500 \/ (status # 200 /\ ~CanMove)
            /\ Raise /\ UNCHANGED <<hist, cut, dead, lost, recovery>>
  BY <1>12, <1>13, <1>16
<1> QED BY <1>2, <1>14, <1>15, <1>16

\* The next candidate is tried after one that was lost.
LEMMA NextTried ==
  ASSUME TypeOK, Tried, pc \in {"try", "replay"}, step \in 1..Len(cand), pc' = "try",
         step' = step + 1, failed' = failed, cand' = cand, lost' = lost \cup {cand[Trying]},
         dead' = [dead EXCEPT ![cand[Trying]] = "new"]
  PROVE  Tried'
<1>1. \A x \in Server : dead'[x] # "no" => x \in lost'
  BY DEF Tried, TypeOK
<1>2. cand[failed] \in lost'
  BY DEF Tried
<1>3. ASSUME NEW k \in 1..step' - 1
      PROVE  cand[((failed - 1 + k) % Len(cand)) + 1] \in lost'
  <2>1. CASE k = step
    BY <2>1 DEF Trying
  <2>2. CASE k # step
    <3>1. k \in 1..step - 1
      BY <2>2
    <3> QED BY <3>1 DEF Tried
  <2> QED BY <2>1, <2>2
<1> QED BY <1>1, <1>2, <1>3 DEF Tried

\* The next candidate is opened, to be fed from the first piece, or is lost.
LEMMA OpenNextStep ==
  ASSUME IInv, OpenNext
  PROVE  IInv'
<1> DEFINE s == cand[Trying]
           done == Handle(sess[s], OpenRequest)
<1>1. /\ TypeOK /\ Places /\ Settled /\ Kept /\ Orphans /\ Tried /\ Counted
  BY DEF IInv
<1>2. PICK status \in {200, Unreachable} :
       /\ Rpc(s, OpenRequest, status)
       /\ IF status = 200
          THEN /\ active' = Trying /\ pc' = "replay"
               /\ UNCHANGED <<dead, lost, failed, step, polls>>
          ELSE MarkDead(Trying) /\ NextCandidate /\ UNCHANGED active
  BY DEF OpenNext
<1>3. /\ pc = "try" /\ step <= Len(cand) /\ replayed' = 0
      /\ UNCHANGED <<up, cand, opened, hist, cut, piece, text, seen, outcome>>
  BY DEF OpenNext, textVars
<1>4. /\ Len(cand) \in Nat \ {0} /\ failed \in 1..Len(cand) /\ step \in 1..Len(cand)
      /\ Trying \in 1..Len(cand) /\ s \in Server /\ sess[s] \in Session
      /\ SettledSession(sess[s])
  <2>1. Len(cand) \in Nat \ {0} /\ failed \in 1..Len(cand) /\ step \in 1..Len(cand)
    BY <1>1, <1>3 DEF Places, TypeOK
  <2>2. Trying \in 1..Len(cand)
    BY <2>1, Around DEF Trying
  <2>3. s \in Server
    BY <1>1, <2>2 DEF TypeOK
  <2> QED BY <1>1, <2>1, <2>2, <2>3 DEF TypeOK, Settled
<1>5. /\ done.session \in Session /\ SettledSession(done.session)
      /\ done.session.open /\ done.answer.status = 200
  <2>1. Session = SessionOf(Token)
    BY DEF Session, SessionOf, Request, RequestOf
  <2> QED BY <1>4, <2>1, OthersSettled
<1> HIDE DEF done, s
<1>6. /\ sess' \in [Server -> Session] /\ Settled'
      /\ \A x \in Server \ {s} : sess'[x] = sess[x]
      /\ faults' \in 0..MaxFaults
      /\ \/ faults' = faults /\ status = 200 /\ sess'[s] = done.session
         \/ /\ status = Unreachable
            /\ (faults' = faults /\ s \notin up) \/ faults' = faults + 1
  <2>1. done.answer.status # Unreachable
    BY <1>5 DEF Unreachable
  <2> QED BY <1>1, <1>2, <1>4, <1>5, <2>1, RpcEffect DEF done
<1>7. \A x \in Server \ lost : ~sess[x].open
  BY <1>1, <1>3 DEF Orphans, InUse
<1>8. outcome = "running" /\ CanMove /\ CanMove' /\ 0 \in 0..Len(hist)
  BY <1>1, <1>3 DEF Places, CanMove, TypeOK
<1>9. CASE status = 200
  <2>1. /\ active' = Trying /\ pc' = "replay"
        /\ UNCHANGED <<dead, lost, failed, step, polls>>
    BY <1>2, <1>9
  <2>2. faults' = faults /\ sess'[s] = done.session
    BY <1>6, <1>9 DEF Unreachable
  <2>3. TypeOK'
    BY <1>1, <1>3, <1>4, <1>6, <1>8, <2>1, <2>2 DEF TypeOK
  <2>4. Places'
    BY <1>1, <1>3, <1>4, <1>8, <2>1 DEF Places
  <2>5. Kept' /\ Use'
    BY <1>1, <1>3, <1>8, <2>1 DEF Kept, Use
  <2>6. Used' = s
    BY <1>3, <2>1 DEF Used, s
  <2>7. Fed'
    <3>1. FedTo' = 0 /\ SubSeq(text, 1, 0) = <<>>
      BY <1>1, <1>3 DEF FedTo, EndOf, TypeOK
    <3> QED BY <1>3, <3>1 DEF Fed, Holds
  <2>8. Orphans'
    BY <1>4, <1>6, <1>7, <2>1, <2>6 DEF Orphans, InUse
  <2>9. Tried'
    <3>1. Trying' = Trying
      BY <1>3, <2>1 DEF Trying
    <3> QED BY <1>1, <1>3, <2>1, <3>1 DEF Tried
  <2>10. Counted'
    <3>1. Faulty' \subseteq Faulty
      BY <1>3, <1>5, <2>1, <2>2, <2>6 DEF Faulty, Broken
    <3>2. Cardinality(Faulty') <= faults
      BY <1>1, <3>1, MoreFaulty
    <3> QED BY <1>1, <1>3, <1>8, <2>2, <3>2 DEF Counted
  <2> QED BY <1>6, <2>3, <2>4, <2>5, <2>7, <2>8, <2>9, <2>10 DEF IInv
<1>10. CASE status = Unreachable
  <2>1. status # 200 /\ ((faults' = faults /\ s \notin up) \/ faults' = faults + 1)
    BY <1>6, <1>10 DEF Unreachable
  <2>2. /\ lost' = lost \cup {s} /\ dead' = [dead EXCEPT ![s] = "new"]
        /\ step' = step + 1 /\ pc' = "try" /\ UNCHANGED <<failed, polls, active>>
    BY <1>2, <2>1 DEF MarkDead, NextCandidate, s
  <2>3. (faults' = faults /\ s \in Faulty) \/ faults' = faults + 1
    BY <1>4, <2>1 DEF Faulty
  <2>4. TypeOK'
    <3>1. dead' \in [Server -> {"new", "old", "no"}] /\ step' \in 0..Len(cand) + 1
      BY <1>1, <1>4, <2>2 DEF TypeOK
    <3> QED BY <1>1, <1>3, <1>4, <1>6, <1>8, <2>2, <3>1 DEF TypeOK
  <2>5. Places'
    BY <1>1, <1>3, <1>4, <1>8, <2>2 DEF Places
  <2>6. Kept' /\ Use' /\ Fed'
    BY <1>1, <1>3, <1>8, <2>2 DEF Kept, Use, Fed
  <2>7. Orphans'
    BY <1>6, <1>7, <2>2 DEF Orphans
  <2>8. Tried'
    BY <1>1, <1>3, <1>4, <2>2, NextTried DEF s
  <2>9. Counted'
    <3>1. Faulty' \subseteq Faulty \cup {s}
      BY <1>3, <2>2 DEF Faulty, Broken, InUse
    <3>2. Cardinality(Faulty') <= faults'
      BY <1>1, <1>4, <2>3, <3>1, LostCount
    <3> QED BY <1>3, <1>8, <3>2 DEF Counted
  <2> QED BY <1>6, <2>4, <2>5, <2>6, <2>7, <2>8, <2>9 DEF IInv
<1> QED BY <1>9, <1>10

\* The next kept piece is fed to the new server, which then holds the text so far.
LEMMA ReplayStep ==
  ASSUME IInv, Replay
  PROVE  IInv'
<1> DEFINE s == cand[active]
           p == hist[replayed + 1]
           r == ForwardRequest(p.start, p.toks, NoCut)
           done == Handle(sess[s], r)
           front == SubSeq(text, 1, FedTo)
<1>1. /\ TypeOK /\ Places /\ Settled /\ Kept /\ Fed /\ Orphans /\ Tried /\ Counted
  BY DEF IInv
<1>2. PICK status \in {200, 404, 500, Unreachable} :
       /\ Rpc(s, r, status)
       /\ IF status = 200
          THEN replayed' = replayed + 1 /\ UNCHANGED <<pc, dead, lost, failed, step, polls>>
          ELSE MarkDead(active) /\ NextCandidate /\ UNCHANGED replayed
  BY DEF Replay
<1>3. /\ pc = "replay" /\ replayed < Len(hist)
      /\ UNCHANGED <<up, cand, active, opened, hist, cut, piece, text, seen, outcome>>
  BY DEF Replay, textVars
<1>4. /\ Len(cand) \in Nat \ {0} /\ active \in 1..Len(cand) /\ s \in Server
      /\ failed \in 1..Len(cand) /\ step \in 1..Len(cand)
      /\ sess[s] \in Session /\ SettledSession(sess[s]) /\ Used = s /\ Used' = s /\ InUse
      /\ active = Trying /\ outcome = "running" /\ CanMove /\ CanMove'
  <2>1. /\ Len(cand) \in Nat \ {0} /\ active \in 1..Len(cand) /\ active # 0
        /\ failed \in 1..Len(cand) /\ step \in 1..Len(cand)
    BY <1>1, <1>3 DEF Places, TypeOK
  <2>2. s \in Server
    BY <1>1, <2>1 DEF TypeOK
  <2>3. active = Trying /\ outcome = "running" /\ CanMove /\ CanMove'
    BY <1>1, <1>3 DEF Tried, Places, CanMove
  <2> QED BY <1>1, <1>3, <2>1, <2>2, <2>3 DEF TypeOK, Settled, Used, InUse
<1>5. /\ text \in Seq(Token) /\ hist \in Seq(Piece) /\ Tiles(hist, text)
      /\ replayed \in Nat /\ replayed + 1 \in 1..Len(hist)
  BY <1>1, <1>3, <1>4 DEF TypeOK, Kept
<1>6. /\ p.toks \in Seq(Token) /\ p.toks # <<>> /\ p.start = FedTo /\ FedTo \in 0..Len(text)
      /\ FedTo < FedTo + Len(p.toks) /\ FedTo + Len(p.toks) \in 0..Len(text)
      /\ front \o p.toks = SubSeq(text, 1, FedTo + Len(p.toks))
  <2>1. /\ EndOf(hist, replayed) \in 0..Len(text) /\ p.start = EndOf(hist, replayed)
        /\ p.toks \in Seq(Token) /\ p.toks # <<>>
        /\ EndOf(hist, replayed + 1) = EndOf(hist, replayed) + Len(p.toks)
        /\ EndOf(hist, replayed + 1) \in 0..Len(text)
        /\ SubSeq(text, 1, EndOf(hist, replayed)) \o p.toks = SubSeq(text, 1, EndOf(hist, replayed + 1))
    BY <1>5, NextPiece
  <2>2. Len(p.toks) \in Nat \ {0}
    BY <2>1
  <2> HIDE DEF p
  <2> QED BY <2>1, <2>2 DEF FedTo
<1>7. /\ front \in Seq(Token) /\ Len(front) = FedTo
      /\ \A j \in 1..FedTo : front[j] = text[j]
  BY <1>5, <1>6, Taken
<1>8. front \o p.toks = SubSeq(text, 1, FedTo + Len(p.toks))
  BY <1>6
<1>9. /\ r.op = "forward" /\ r.start = FedTo /\ r.toks = p.toks /\ r.cut = NoCut
      /\ r = ForwardRequest(Len(front), r.toks, r.cut)
  BY <1>6, <1>7 DEF ForwardRequest
<1>10. Session = SessionOf(Token)
  BY DEF Session, SessionOf, Request, RequestOf
<1> HIDE DEF r, p, front, s
<1>11. /\ done.session \in Session /\ SettledSession(done.session)
       /\ sess[s].open =>
            /\ done.answer.status = 200 /\ done.session.open
            /\ done.session.kv = front \o p.toks
            /\ \A l \in done.session.last : l.key.start = FedTo
       /\ ~sess[s].open => done.session = sess[s] /\ done.answer.status = 404
  <2>1. CASE sess[s].open
    <3>1. Holds(sess[s], front, NoCut)
      BY <1>1, <1>3, <1>4 DEF Fed, front
    <3>2. Asked(Token, sess[s], front, r)
      BY <1>4, <1>6, <1>7, <1>9, <1>10, <2>1, <3>1 DEF Asked
    <3>3. Grown(Token, done, front, r)
      BY <3>2, ForwardHeld
    <3> HIDE DEF done
    <3> QED BY <1>7, <1>9, <1>10, <2>1, <3>3 DEF Grown, Ran
  <2>2. CASE ~sess[s].open
    <3> DEFINE se == sess[s]
    <3>0. se \in SessionOf(Token) /\ SettledSession(se) /\ ~se.open
      BY <1>4, <1>10, <2>2
    <3> HIDE DEF se
    <3>1. \A rq : rq.op = "forward" =>
            Handle(se, rq).session = se /\ Handle(se, rq).answer.status = 404
      BY <3>0, OthersSettled
    <3>2. done.session = sess[s] /\ done.answer.status = 404
      BY <1>9, <3>1 DEF se
    <3> HIDE DEF done
    <3> QED BY <1>4, <2>2, <3>2
  <2> QED BY <2>1, <2>2
<1>12. /\ sess' \in [Server -> Session] /\ Settled'
       /\ \A x \in Server \ {s} : sess'[x] = sess[x]
       /\ faults' \in 0..MaxFaults
       /\ \/ faults' = faults /\ status = done.answer.status /\ status # Unreachable
             /\ sess'[s] = done.session
          \/ /\ status = Unreachable
             /\ (faults' = faults /\ s \notin up) \/ faults' = faults + 1
  <2>1. done.answer.status # Unreachable
    BY <1>11 DEF Unreachable
  <2>2. Rpc(s, r, status)
    BY <1>2 DEF s
  <2> QED BY <1>1, <1>4, <1>11, <2>1, <2>2, RpcEffect
<1> HIDE DEF done
<1>13. \A x \in Server \ lost : sess[x].open => x = s
  BY <1>1, <1>4 DEF Orphans
<1>14. CASE status = 200
  <2>1. replayed' = replayed + 1 /\ UNCHANGED <<pc, dead, lost, failed, step, polls>>
    BY <1>2, <1>14
  <2>2. faults' = faults /\ sess'[s] = done.session /\ sess[s].open
    BY <1>11, <1>12, <1>14 DEF Unreachable
  <2>3. TypeOK'
    <3>1. replayed' \in 0..Len(hist)
      BY <1>5, <2>1
    <3> QED BY <1>1, <1>3, <1>12, <2>1, <2>2, <3>1 DEF TypeOK
  <2>4. Places' /\ Kept' /\ Use'
    BY <1>1, <1>3, <1>4, <2>1 DEF Places, Kept, Use
  <2>5. Tried'
    <3>1. Trying' = Trying
      BY <1>3, <2>1 DEF Trying
    <3> QED BY <1>1, <1>3, <2>1, <3>1 DEF Tried
  <2>6. Fed'
    <3> DEFINE b == FedTo + Len(p.toks)
               t == SubSeq(text, 1, b)
    <3>1. FedTo' = b
      BY <1>3, <1>5, <1>6, <2>1 DEF FedTo, EndOf, p
    <3>2. t \in Seq(Token) /\ Len(t) = b
      BY <1>5, <1>6, Taken
    <3>3. sess'[s].kv = t /\ \A l \in sess'[s].last : l.key.start = FedTo
      BY <1>8, <1>11, <2>2
    <3>4. FedTo < b
      BY <1>6
    <3> HIDE DEF b, t
    <3>5. Holds(sess'[s], t, NoCut)
      BY <3>2, <3>3, <3>4 DEF Holds
    <3> QED BY <1>3, <1>4, <3>1, <3>5 DEF Fed, t
  <2>7. Orphans'
    BY <1>3, <1>4, <1>12, <1>13, <2>1 DEF Orphans, InUse
  <2>8. Counted'
    <3>1. Faulty' \subseteq Faulty
      BY <1>3, <1>4, <1>11, <2>1, <2>2 DEF Faulty, Broken
    <3>2. Cardinality(Faulty') <= faults
      BY <1>1, <3>1, MoreFaulty
    <3> QED BY <1>3, <1>4, <2>2, <3>2 DEF Counted
  <2> QED BY <1>12, <2>3, <2>4, <2>5, <2>6, <2>7, <2>8 DEF IInv
<1>15. CASE status # 200
  <2>1. /\ lost' = lost \cup {s} /\ dead' = [dead EXCEPT ![s] = "new"]
        /\ step' = step + 1 /\ pc' = "try" /\ UNCHANGED <<failed, polls, replayed>>
    BY <1>2, <1>15 DEF MarkDead, NextCandidate, s
  <2>2. (faults' = faults /\ s \in Faulty) \/ faults' = faults + 1
    <3>1. CASE faults' = faults /\ status = done.answer.status
      <4>1. ~sess[s].open
        BY <1>11, <1>15, <3>1
      <4> QED BY <1>4, <3>1, <4>1 DEF Faulty, Broken
    <3>2. CASE (faults' = faults /\ s \notin up) \/ faults' = faults + 1
      BY <1>4, <3>2 DEF Faulty
    <3> QED BY <1>12, <3>1, <3>2
  <2>3. TypeOK'
    <3>1. dead' \in [Server -> {"new", "old", "no"}] /\ step' \in 0..Len(cand) + 1
      BY <1>1, <1>4, <2>1 DEF TypeOK
    <3> QED BY <1>1, <1>3, <1>4, <1>12, <2>1, <3>1 DEF TypeOK
  <2>4. Places'
    BY <1>1, <1>3, <1>4, <2>1 DEF Places
  <2>5. Kept' /\ Use' /\ Fed'
    BY <1>1, <1>3, <1>4, <2>1 DEF Kept, Use, Fed
  <2>6. Orphans'
    BY <1>12, <1>13, <2>1 DEF Orphans
  <2>7. Tried'
    BY <1>1, <1>3, <1>4, <2>1, NextTried DEF s
  <2>8. Counted'
    <3>1. Faulty' \subseteq Faulty \cup {s}
      BY <1>3, <2>1 DEF Faulty, Broken, InUse
    <3>2. Cardinality(Faulty') <= faults'
      BY <1>1, <1>4, <2>2, <3>1, LostCount
    <3> QED BY <1>3, <1>4, <3>2 DEF Counted
  <2> QED BY <1>12, <2>3, <2>4, <2>5, <2>6, <2>7, <2>8 DEF IInv
<1> QED BY <1>14, <1>15

\* close: the server in use loses its session, or missed the close.
LEMMA CloseStep ==
  ASSUME IInv, Close
  PROVE  IInv'
<1> DEFINE s == cand[active]
           done == Handle(sess[s], CloseRequest)
<1>1. /\ TypeOK /\ Places /\ Settled /\ Kept /\ Orphans /\ Tried /\ Counted
  BY DEF IInv
<1>2. /\ pc = "close" /\ opened' = FALSE /\ hist' = <<>> /\ cut' = NoCut /\ active' = 0
      /\ replayed' = 0 /\ pc' = "over"
      /\ UNCHANGED <<up, cand, dead, piece, failed, step, polls, text, seen, outcome>>
  BY DEF Close, textVars
<1>3. \/ ~opened /\ UNCHANGED <<sess, faults, lost>>
      \/ /\ opened
         /\ \E status \in {200, Unreachable} :
              /\ Rpc(s, CloseRequest, status)
              /\ lost' = IF status = 200 THEN lost ELSE lost \cup {s}
  BY DEF Close, ToClose
<1>4. /\ sess' \in [Server -> Session] /\ Settled' /\ faults' \in 0..MaxFaults
      /\ faults <= faults' /\ lost' \subseteq Server /\ lost \subseteq lost'
      /\ \A x \in Server \ lost' : ~sess'[x].open
      /\ Cardinality(Faulty') <= faults'
  <2>1. CASE ~opened /\ UNCHANGED <<sess, faults, lost>>
    <3>1. Faulty' \subseteq Faulty
      BY <1>2, <2>1 DEF Faulty, Broken, InUse
    <3>2. \A x \in Server \ lost : ~sess[x].open
      BY <1>1, <1>2, <2>1 DEF Orphans, InUse
    <3>3. Cardinality(Faulty') <= faults
      BY <1>1, <3>1, MoreFaulty
    <3>4. faults <= faults
      BY <1>1 DEF TypeOK
    <3> QED BY <1>1, <2>1, <3>2, <3>3, <3>4 DEF TypeOK, Settled
  <2>2. CASE /\ opened
             /\ \E status \in {200, Unreachable} :
                  /\ Rpc(s, CloseRequest, status)
                  /\ lost' = IF status = 200 THEN lost ELSE lost \cup {s}
    <3>1. PICK status \in {200, Unreachable} :
            /\ Rpc(s, CloseRequest, status)
            /\ lost' = IF status = 200 THEN lost ELSE lost \cup {s}
      BY <2>2
    <3>2. active \in 1..Len(cand) /\ s \in Server
      BY <1>1, <2>2 DEF Places, TypeOK
    <3>3. /\ done.session = NoSession /\ NoSession \in Session /\ SettledSession(NoSession)
          /\ done.answer.status = 200
      <4>1. Session = SessionOf(Token)
        BY DEF Session, SessionOf, Request, RequestOf
      <4>2. sess[s] \in SessionOf(Token) /\ SettledSession(sess[s])
        BY <1>1, <3>2, <4>1 DEF TypeOK, Settled
      <4> QED BY <4>1, <4>2, OthersSettled
    <3> HIDE DEF done, s
    <3>4. /\ sess' \in [Server -> Session] /\ Settled'
          /\ \A x \in Server \ {s} : sess'[x] = sess[x]
          /\ faults' \in 0..MaxFaults
          /\ \/ faults' = faults /\ status = 200 /\ sess'[s] = NoSession
             \/ /\ status = Unreachable
                /\ (faults' = faults /\ s \notin up) \/ faults' = faults + 1
      <4>1. done.answer.status # Unreachable
        BY <3>3 DEF Unreachable
      <4> QED BY <1>1, <3>1, <3>2, <3>3, <4>1, RpcEffect DEF done
    <3>5. \A x \in Server \ lost : sess[x].open => x = s
      BY <1>1 DEF Orphans, Used, s
    <3>6. CASE status = 200
      <4>1. faults' = faults /\ sess'[s] = NoSession /\ lost' = lost
        BY <3>1, <3>4, <3>6 DEF Unreachable
      <4>2. Faulty' \subseteq Faulty
        BY <1>2, <4>1 DEF Faulty, Broken, InUse
      <4>3. Cardinality(Faulty') <= faults /\ faults <= faults
        BY <1>1, <4>2, MoreFaulty DEF TypeOK
      <4>4. \A x \in Server \ lost' : ~sess'[x].open
        BY <3>4, <3>5, <4>1 DEF NoSession
      <4> QED BY <1>1, <3>4, <4>1, <4>3, <4>4 DEF TypeOK
    <3>7. CASE status = Unreachable
      <4>1. lost' = lost \cup {s} /\ ((faults' = faults /\ s \notin up) \/ faults' = faults + 1)
        BY <3>1, <3>4, <3>7 DEF Unreachable
      <4>2. (faults' = faults /\ s \in Faulty) \/ faults' = faults + 1
        BY <3>2, <4>1 DEF Faulty
      <4>3. Faulty' \subseteq Faulty \cup {s}
        BY <1>2, <4>1 DEF Faulty, Broken, InUse
      <4>4. Cardinality(Faulty') <= faults' /\ faults <= faults'
        BY <1>1, <3>2, <4>2, <4>3, LostCount
      <4>5. \A x \in Server \ lost' : ~sess'[x].open
        BY <3>4, <3>5, <4>1
      <4>6. lost' \subseteq Server
        BY <1>1, <3>2, <4>1 DEF TypeOK
      <4> QED BY <3>4, <4>1, <4>4, <4>5, <4>6
    <3> QED BY <3>6, <3>7
  <2> QED BY <1>3, <2>1, <2>2
<1>5. TypeOK'
  <2>1. <<>> \in Seq(Piece) /\ 0 \in 0..Len(<<>>) /\ 0 \in 0..Len(cand)
    BY <1>1 DEF TypeOK
  <2> QED BY <1>1, <1>2, <1>4, <2>1 DEF TypeOK
<1>6. Places'
  BY <1>1, <1>2 DEF Places
<1>7. Kept' /\ Use' /\ Fed' /\ Orphans'
  BY <1>1, <1>2, <1>4 DEF Kept, Use, Fed, Orphans
<1>8. Tried'
  BY <1>1, <1>2, <1>4 DEF Tried
<1>9. Counted'
  <2>1. outcome = "failed" => Len(cand) <= faults'
    <3>1. Len(cand) \in Nat /\ faults \in Nat /\ faults' \in Nat
      BY <1>1, <1>4 DEF TypeOK
    <3> QED BY <1>1, <1>4, <3>1 DEF Counted
  <2> QED BY <1>2, <1>4, <2>1 DEF Counted
<1> QED BY <1>4, <1>5, <1>6, <1>7, <1>8, <1>9 DEF IInv

-----------------------------------------------------------------------------
\* The world's steps.

\* A server that goes down is a fault.
LEMMA GoDownStep ==
  ASSUME IInv, NEW s \in Server, GoDown(s)
  PROVE  IInv'
<1>1. /\ TypeOK /\ Places /\ Settled /\ Kept /\ Use /\ Fed /\ Orphans /\ Tried /\ Counted
  BY DEF IInv
<1>2. /\ faults < MaxFaults /\ faults' = faults + 1 /\ pc # "over" /\ up' = up \ {s}
      /\ UNCHANGED <<sess, cand, dead, active, opened, hist, cut, pc, piece, failed, step,
                     replayed, polls, lost, text, seen, outcome>>
  BY DEF GoDown, Fault, Others, recovery, textVars
<1>3. faults \in Nat /\ faults + 1 \in 0..MaxFaults
  BY <1>1, <1>2, FailoverAssumption DEF TypeOK
<1>4. TypeOK'
  BY <1>1, <1>2, <1>3 DEF TypeOK
<1>5. Places' /\ Settled' /\ Kept' /\ Use' /\ Fed' /\ Orphans' /\ Tried'
  BY <1>1, <1>2 DEF Places, CanMove, Settled, Kept, Use, Fed, FedTo, EndOf, Orphans, InUse, Used, Tried, Trying
<1>6. Counted'
  <2>1. Faulty' \subseteq Faulty \cup {s} /\ Faulty \subseteq Server
    BY <1>1, <1>2 DEF Faulty, Broken, InUse, Used, TypeOK
  <2>2. Cardinality(Faulty') <= faults + 1
    BY <1>1, <2>1, MoreFaulty
  <2> QED BY <1>1, <1>2, <1>3, <2>2 DEF Counted, TypeOK
<1> QED BY <1>1, <1>4, <1>5, <1>6 DEF IInv

\* A server that comes up again is as it was, but reachable.
LEMMA ComeUpStep ==
  ASSUME IInv, NEW s \in Server, ComeUp(s)
  PROVE  IInv'
<1>1. /\ TypeOK /\ Places /\ Settled /\ Kept /\ Use /\ Fed /\ Orphans /\ Tried /\ Counted
  BY DEF IInv
<1>2. /\ up' = up \cup {s}
      /\ UNCHANGED <<sess, cand, dead, active, opened, hist, cut, pc, piece, failed, step,
                     replayed, polls, faults, lost, text, seen, outcome>>
  BY DEF ComeUp, Others, recovery, textVars
<1>3. TypeOK'
  BY <1>1, <1>2 DEF TypeOK
<1>4. Places' /\ Settled' /\ Kept' /\ Use' /\ Fed' /\ Orphans' /\ Tried'
  BY <1>1, <1>2 DEF Places, CanMove, Settled, Kept, Use, Fed, FedTo, EndOf, Orphans, InUse, Used, Tried, Trying
<1>5. Counted'
  <2>1. Faulty' \subseteq Faulty /\ Faulty \subseteq Server
    BY <1>1, <1>2 DEF Faulty, Broken, InUse, Used, TypeOK
  <2>2. Cardinality(Faulty') <= faults
    BY <1>1, <2>1, MoreFaulty
  <2> QED BY <1>1, <1>2, <2>2 DEF Counted
<1> QED BY <1>1, <1>3, <1>4, <1>5 DEF IInv

\* A server that restarts has lost the session, at the cost of a fault.
LEMMA RestartStep ==
  ASSUME IInv, NEW s \in Server, Restart(s)
  PROVE  IInv'
<1>1. /\ TypeOK /\ Places /\ Settled /\ Kept /\ Use /\ Fed /\ Orphans /\ Tried /\ Counted
  BY DEF IInv
<1>2. /\ faults < MaxFaults /\ faults' = faults + 1 /\ pc # "over"
      /\ sess' = [sess EXCEPT ![s] = NoSession]
      /\ UNCHANGED <<up, cand, dead, active, opened, hist, cut, pc, piece, failed, step,
                     replayed, polls, lost, text, seen, outcome>>
  BY DEF Restart, Fault, Others, recovery, textVars
<1>3. /\ faults \in Nat /\ faults + 1 \in 0..MaxFaults
      /\ NoSession \in Session /\ SettledSession(NoSession) /\ ~NoSession.open
  BY <1>1, <1>2, FailoverAssumption, RequestTypes DEF TypeOK, NoSession, SettledSession
<1>4. /\ sess' \in [Server -> Session]
      /\ \A x \in Server : sess'[x] = IF x = s THEN NoSession ELSE sess[x]
  BY <1>1, <1>2, <1>3 DEF TypeOK
<1>5. TypeOK'
  BY <1>1, <1>2, <1>3, <1>4 DEF TypeOK
<1>6. Places' /\ Kept' /\ Tried'
  BY <1>1, <1>2 DEF Places, CanMove, Kept, Tried, Trying
<1>7. Settled' /\ Orphans'
  BY <1>1, <1>2, <1>3, <1>4 DEF Settled, Orphans, InUse, Used
<1>8. Use' /\ Fed'
  <2>1. \A t, c : Holds(NoSession, t, c)
    BY <1>3 DEF Holds
  <2>2. active # 0 => Used \in Server
    BY <1>1 DEF TypeOK, Used
  <2>3. active # 0 => \A t, c : Holds(sess[Used], t, c) => Holds(sess'[Used], t, c)
    BY <1>4, <2>1, <2>2
  <2>4. /\ (pc = "idle" /\ opened) \/ pc = "send" \/ pc = "replay" => active # 0
        /\ Used' = Used /\ FedTo' = FedTo
    BY <1>1, <1>2 DEF Places, Used, FedTo, EndOf
  <2> QED BY <1>1, <1>2, <2>3, <2>4 DEF Use, Fed
<1>9. Counted'
  <2>1. Faulty' \subseteq Faulty \cup {s} /\ Faulty \subseteq Server
    BY <1>1, <1>2, <1>4 DEF Faulty, Broken, InUse, Used, TypeOK
  <2>2. Cardinality(Faulty') <= faults + 1
    BY <1>1, <2>1, MoreFaulty
  <2> QED BY <1>1, <1>2, <1>3, <2>2 DEF Counted, TypeOK
<1> QED BY <1>5, <1>6, <1>7, <1>8, <1>9 DEF IInv

\* A mark that ages still means a server that was lost.
LEMMA AgeStep ==
  ASSUME IInv, NEW s \in Server, Age(s)
  PROVE  IInv'
<1>1. /\ TypeOK /\ Places /\ Settled /\ Kept /\ Use /\ Fed /\ Orphans /\ Tried /\ Counted
  BY DEF IInv
<1>2. /\ dead[s] # "no" /\ dead' = [dead EXCEPT ![s] = IF @ = "new" THEN "old" ELSE "no"]
      /\ UNCHANGED <<sess, up, cand, active, opened, hist, cut, pc, piece, failed, step,
                     replayed, polls, faults, lost, text, seen, outcome>>
  BY DEF Age, Others, recovery, textVars
<1>3. TypeOK'
  BY <1>1, <1>2 DEF TypeOK
<1>4. Places' /\ Settled' /\ Kept' /\ Use' /\ Fed' /\ Orphans'
  BY <1>1, <1>2 DEF Places, CanMove, Settled, Kept, Use, Fed, FedTo, EndOf, Orphans, InUse, Used
<1>5. Tried'
  BY <1>1, <1>2 DEF Tried, Trying, TypeOK
<1>6. Counted'
  BY <1>1, <1>2 DEF Counted, Faulty, Broken, InUse, Used
<1> QED BY <1>1, <1>3, <1>4, <1>5, <1>6 DEF IInv

-----------------------------------------------------------------------------
\* The theorems.

\* Every step of the transport, of a server or of the clock keeps the invariant.
LEMMA NextInv == IInv /\ [Next]_vars => IInv'
<1> SUFFICES ASSUME IInv, [Next]_vars PROVE IInv'
  OBVIOUS
<1>1. CASE Transport
  <2>1. CASE \E toks \in Pieces : Begin(toks)
    BY <2>1, BeginStep
  <2>2. CASE OpenFirst
    BY <2>2, OpenFirstStep
  <2>3. CASE SendPiece
    BY <2>3, SendPieceStep
  <2>4. CASE Skip
    BY <2>4, SkipStep
  <2>5. CASE OpenNext
    BY <2>5, OpenNextStep
  <2>6. CASE Replay
    BY <2>6, ReplayStep
  <2>7. CASE Resume
    BY <2>7, ResumeStep
  <2>8. CASE Exhausted
    BY <2>8, ExhaustedStep
  <2>9. CASE Ask
    BY <2>9, AskStep
  <2>10. CASE Finish
    BY <2>10, FinishStep
  <2>11. CASE Close
    BY <2>11, CloseStep
  <2> QED BY <1>1, <2>1, <2>2, <2>3, <2>4, <2>5, <2>6, <2>7, <2>8, <2>9, <2>10, <2>11
      DEF Transport
<1>2. CASE World
  <2>1. PICK s \in Server : GoDown(s) \/ ComeUp(s) \/ Restart(s) \/ Age(s)
    BY <1>2 DEF World
  <2> QED BY <2>1, GoDownStep, ComeUpStep, RestartStep, AgeStep
<1>3. CASE UNCHANGED vars
  BY <1>3 DEF vars, recovery, textVars, IInv, TypeOK, Places, CanMove, Settled, Kept, Use,
       Fed, FedTo, EndOf, Orphans, InUse, Used, Tried, Trying, Counted, Faulty, Broken
<1> QED BY <1>1, <1>2, <1>3 DEF Next

\* The inductive invariant holds at every moment of every behaviour.
THEOREM Invariant == Spec => []IInv
<1>1. Init => IInv
  BY InitInv
<1>2. IInv /\ [Next]_vars => IInv'
  BY NextInv
<1> QED BY <1>1, <1>2, PTL DEF Spec

\* The invariant says what the transport and its servers promise.
LEMMA InvSound == IInv => FailoverSound
<1> SUFFICES ASSUME IInv PROVE FailoverSound
  OBVIOUS
<1>1. TypeOK /\ Places /\ Settled /\ Kept /\ Use /\ Fed /\ Orphans /\ Counted
  BY DEF IInv
<1>2. HistoryIsText
  <2> SUFFICES ASSUME CanMove, opened
               PROVE  /\ FlattenSeq([i \in DOMAIN hist |-> hist[i].toks]) = text
                      /\ \A i \in DOMAIN hist :
                           hist[i].start = Len(FlattenSeq([j \in 1 .. i - 1 |-> hist[j].toks]))
    BY DEF HistoryIsText
  <2>1. hist \in Seq(Piece) /\ text \in Seq(Token) /\ Tiles(hist, text)
    BY <1>1 DEF Kept, Places, TypeOK
  <2> QED BY <2>1, TilesFlatten
<1>3. ReplayExact
  <2> SUFFICES ASSUME pc = "replay", replayed = Len(hist), hist # <<>>, sess[cand[active]].open
               PROVE  sess[cand[active]].kv = text
    BY DEF ReplayExact
  <2>1. /\ hist \in Seq(Piece) /\ text \in Seq(Token) /\ Tiles(hist, text)
        /\ Len(hist) \in Nat \ {0} /\ active \in 1..Len(cand) /\ Used \in Server
    BY <1>1 DEF Kept, Places, TypeOK, Used
  <2>2. FedTo = Len(text)
    BY <2>1 DEF FedTo, EndOf, Tiles
  <2>3. SubSeq(text, 1, Len(text)) = text /\ Len(text) \in Nat
    BY <2>1
  <2>4. text # <<>>
    <3>1. hist[1].start < Len(text) /\ hist[1].start \in Nat
      BY <2>1, TileBounds
    <3> QED BY <2>3, <3>1
  <2>5. Holds(sess[Used], text, NoCut)
    BY <1>1, <2>2, <2>3 DEF Fed
  <2>6. /\ Len(sess[Used].kv) = Len(text)
        /\ \A i \in 1..Len(text) : sess[Used].kv[i] = text[i]
    BY <2>4, <2>5 DEF Holds, Used
  <2>7. sess[Used].kv \in Seq(Token)
    BY <1>1, <2>1 DEF TypeOK, Session
  <2>8. sess[Used].kv = text
    BY <2>1, <2>6, <2>7, SameSeq
  <2> QED BY <2>8 DEF Used
<1>4. NeverRefused
  <2> SUFFICES ASSUME pc = "send"
               PROVE  Handle(sess[cand[active]], piece).answer.status # 500
    BY DEF NeverRefused
  <2>1. /\ sess[Used].open =>
             Handle(sess[Used], piece).answer = [status |-> 200, out |-> text \o piece.toks]
        /\ ~sess[Used].open => Handle(sess[Used], piece).answer.status = 404
    BY <1>1, SendAnswer
  <2>2. Handle(sess[Used], piece).answer.status \in {200, 404}
    BY <2>1
  <2> QED BY <2>2 DEF Used
<1>5. FaultsSurvived
  <2>1. Len(cand) \in Nat /\ faults \in Nat
    BY <1>1 DEF TypeOK
  <2> QED BY <1>1, <2>1 DEF Counted, FaultsSurvived
<1>6. OrphansWereLost
  BY <1>1 DEF Orphans, OrphansWereLost
<1> QED BY <1>1, <1>2, <1>3, <1>4, <1>5, <1>6 DEF FailoverSound

\* Whatever goes down, restarts or does not answer, and whatever the network
\* lists: the kept pieces are the text, a replay is exact, no server refuses a
\* piece for its position, a request with more candidates than faults does not
\* fail, and only a server that was lost keeps a session after the request.
THEOREM Sound == Spec => []FailoverSound
<1>1. IInv => FailoverSound
  BY InvSound
<1> QED BY <1>1, Invariant, PTL

\* A step of the endpoint is a step of one block that never fails, or nothing.
LEMMA LoopStep ==
  ASSUME IInv, [Next]_vars
  PROVE  [Loop!Next]_(Loop!vars)
<1>1. TypeOK /\ Places /\ Settled /\ Use
  BY DEF IInv
<1>2. CASE SendPiece
  <2>1. pc = "send" /\ outcome = "running"
    BY <1>1, <1>2 DEF SendPiece, Places
  <2>2. PICK status \in {200, 404, 500, Unreachable} :
         /\ Rpc(cand[active], piece, status)
         /\ \/ status = 200 /\ \E n \in 1..MaxLen : Accept(n)
            \/ UNCHANGED textVars
            \/ Raise
    BY <1>2 DEF SendPiece, Recover
  <2>3. ASSUME status = 200, NEW n \in 1..MaxLen, Accept(n) PROVE Loop!Next
    <3> DEFINE done == Handle(sess[Used], piece)
    <3>1. /\ Used \in Server /\ piece.toks \in Pieces /\ piece.toks \in Seq(Token)
          /\ piece.toks # <<>> /\ text \in Seq(Token)
          /\ sess[Used].open => done.answer = [status |-> 200, out |-> text \o piece.toks]
          /\ ~sess[Used].open => done.answer.status = 404
      BY <1>1, <2>1, SendAnswer DEF Places, TypeOK
    <3>2. /\ n \in Len(text) + 1 .. Len(text \o piece.toks)
          /\ text' = SubSeq(text \o piece.toks, 1, n) /\ seen' = done.answer.out
          /\ outcome' = outcome
      BY <2>3 DEF Accept, Used
    <3>3. sess[Used].open
      <4>1. done.answer.status = 200
        BY <2>2, <2>3 DEF Rpc, Unreachable, Used
      <4> QED BY <3>1, <4>1
    <3>4. seen' = text \o piece.toks
      BY <3>1, <3>2, <3>3
    <3>5. Len(text \o piece.toks) = Len(text) + Len(piece.toks) /\ Len(text) \in Nat
      BY <3>1, Joined
    <3>6. n \in 1 .. Len(text) + Len(piece.toks)
      BY <3>2, <3>5
    <3>7. Loop!Step(piece.toks, n)
      BY <2>1, <3>2, <3>4, <3>5 DEF Loop!Step
    <3> QED BY <3>1, <3>6, <3>7 DEF Loop!Next
  <2>4. CASE UNCHANGED textVars
    BY <2>4 DEF textVars, Loop!vars
  <2>5. CASE Raise
    BY <2>1, <2>5 DEF Raise, Loop!Next, Loop!End
  <2> QED BY <2>2, <2>3, <2>4, <2>5
<1>3. CASE OpenFirst \/ Exhausted
  <2>1. outcome = "running" /\ (UNCHANGED textVars \/ Raise)
    BY <1>1, <1>3 DEF OpenFirst, Exhausted, Places, Recover, textVars
  <2> QED BY <2>1 DEF Raise, textVars, Loop!Next, Loop!End, Loop!vars
<1>4. CASE Finish
  BY <1>1, <1>4 DEF Finish, Places, Loop!Next, Loop!End
<1>5. CASE (\E toks \in Pieces : Begin(toks)) \/ Skip \/ OpenNext \/ Replay \/ Resume \/ Ask \/ Close
  BY <1>5 DEF Begin, Skip, OpenNext, Replay, Resume, Ask, Close, textVars, Loop!vars
<1>6. CASE World
  BY <1>6 DEF World, GoDown, ComeUp, Restart, Age, Others, textVars, Loop!vars
<1>7. CASE UNCHANGED vars
  BY <1>7 DEF vars, textVars, Loop!vars
<1> QED BY <1>2, <1>3, <1>4, <1>5, <1>6, <1>7 DEF Next, Transport

\* The endpoint keeps the promise of Decoding: every reply the loop accepts was
\* computed over the kept text and the piece it sent, as if one server had held
\* the session all along.
THEOREM KeepsPromise == Spec => LoopSpec
<1>1. Init => Loop!Init
  BY DEF Init, Loop!Init
<1>2. IInv /\ [Next]_vars => [Loop!Next]_(Loop!vars)
  BY LoopStep
<1> QED BY <1>1, <1>2, Invariant, PTL DEF Spec, LoopSpec, Loop!Spec
=============================================================================
