---------------------------- MODULE RequestProofs ----------------------------
(***************************************************************************)
(* What the proofs about a request share: sequences, the handlers of       *)
(* BlockServer, and the pieces a transport keeps to replay.                *)
(***************************************************************************)
EXTENDS History, SequencesExt, SequenceTheorems, WellFoundedInduction, TLAPS

\* What joining two sequences gives, position by position.
LEMMA Joined ==
  ASSUME NEW S, NEW s \in Seq(S), NEW t \in Seq(S)
  PROVE  /\ s \o t \in Seq(S) /\ Len(s \o t) = Len(s) + Len(t)
         /\ \A i \in 1..Len(s) : (s \o t)[i] = s[i]
         /\ \A i \in 1..Len(t) : (s \o t)[Len(s) + i] = t[i]
  OBVIOUS

\* Two successive parts of a text joined are its front.
LEMMA JoinedText ==
  ASSUME NEW S, NEW t \in Seq(S), NEW a \in Nat, NEW b \in a..Len(t),
         NEW u \in Seq(S), Len(u) = a, \A j \in 1..a : u[j] = t[j],
         NEW q \in Seq(S), Len(q) = b - a, \A j \in 1..b - a : q[j] = t[a + j]
  PROVE  u \o q = SubSeq(t, 1, b)
<1>1. /\ u \o q \in Seq(S) /\ Len(u \o q) = b
      /\ \A j \in 1..a : (u \o q)[j] = u[j]
      /\ \A j \in 1..b - a : (u \o q)[a + j] = q[j]
  <2>1. u \o q \in Seq(S) /\ Len(u \o q) = Len(u) + Len(q)
    BY ConcatProperties
  <2>3. \A i \in 1..Len(u) : (u \o q)[i] = u[i]
    BY ConcatProperties
  <2>4. \A i \in 1..Len(q) : (u \o q)[Len(u) + i] = q[i]
    BY ConcatProperties
  <2>2. Len(u) + Len(q) = b
    OBVIOUS
  <2> QED BY <2>1, <2>2, <2>3, <2>4
<1>2. ASSUME NEW j \in 1..b PROVE (u \o q)[j] = t[j]
  <2>1. CASE j <= a
    BY <1>1, <2>1
  <2>2. CASE j > a
    <3>1. j - a \in 1..b - a /\ a + (j - a) = j
      BY <2>2
    <3> QED BY <1>1, <3>1
  <2> QED BY <2>1, <2>2
<1>3. /\ SubSeq(t, 1, b) \in Seq(S) /\ Len(SubSeq(t, 1, b)) = b
      /\ \A j \in 1..b : SubSeq(t, 1, b)[j] = t[j]
  OBVIOUS
<1> QED BY <1>1, <1>2, <1>3, SeqEqual

\* u is the first a tokens of the text t, and q the next, up to b.
Parts(T, t, a, b, u, q) ==
  /\ t \in Seq(T) /\ a \in Nat /\ b \in a..Len(t)
  /\ u \in Seq(T) /\ Len(u) = a /\ \A j \in 1..a : u[j] = t[j]
  /\ q \in Seq(T) /\ Len(q) = b - a /\ \A j \in 1..b - a : q[j] = t[a + j]

\* They make the front of t up to b.
Joint(t, b, u, q) == u \o q = SubSeq(t, 1, b)

\* Two successive parts of a text joined are its front.
LEMMA JoinedParts ==
  ASSUME NEW T, NEW t, NEW a, NEW b, NEW u, NEW q, Parts(T, t, a, b, u, q)
  PROVE  Joint(t, b, u, q)
<1>1. /\ t \in Seq(T) /\ a \in Nat /\ b \in a..Len(t)
      /\ u \in Seq(T) /\ Len(u) = a /\ \A j \in 1..a : u[j] = t[j]
      /\ q \in Seq(T) /\ Len(q) = b - a /\ \A j \in 1..b - a : q[j] = t[a + j]
  BY DEF Parts
<1> QED BY <1>1, JoinedText DEF Joint

\* Two sequences of one length with the same elements are one sequence.
LEMMA SameSeq ==
  ASSUME NEW S, NEW s \in Seq(S), NEW t \in Seq(S), Len(s) = Len(t),
         \A i \in 1..Len(s) : s[i] = t[i]
  PROVE  s = t
  OBVIOUS

\* What a prefix taken with SubSeq is.
LEMMA Taken ==
  ASSUME NEW S, NEW s \in Seq(S), NEW n \in 0..Len(s)
  PROVE  /\ SubSeq(s, 1, n) \in Seq(S) /\ Len(SubSeq(s, 1, n)) = n
         /\ \A i \in 1..n : SubSeq(s, 1, n)[i] = s[i]
  OBVIOUS

\* A sequence is empty when its length is zero.
LEMMA Empty ==
  ASSUME NEW S, NEW s \in Seq(S)
  PROVE  s = <<>> <=> Len(s) = 0
  OBVIOUS

\* What is left after a prefix.
LEMMA Rest ==
  ASSUME NEW S, NEW s \in Seq(S), NEW n \in 0..Len(s)
  PROVE  SubSeq(s, n + 1, Len(s)) = <<>> <=> n = Len(s)
<1> DEFINE rest == SubSeq(s, n + 1, Len(s))
<1>1. Len(rest) = Len(s) - n
  OBVIOUS
<1>2. rest \in Seq(S)
  OBVIOUS
<1> HIDE DEF rest
<1>3. rest = <<>> <=> n = Len(s)
  BY <1>1, <1>2, Empty
<1> QED BY <1>3 DEF rest

\* BlockRange.truncate keeps the front of the cache.
LEMMA CutBackPrefix ==
  ASSUME NEW T, NEW s \in Seq(T), NEW n \in Nat
  PROVE  /\ CutBack(s, n) \in Seq(T) /\ Len(CutBack(s, n)) <= Len(s)
         /\ Len(CutBack(s, n)) <= n
         /\ Len(s) >= n => Len(CutBack(s, n)) = n
         /\ \A i \in 1..Len(CutBack(s, n)) : CutBack(s, n)[i] = s[i]
  BY Taken, n \in 0..Len(s) \/ n > Len(s) DEF CutBack

-----------------------------------------------------------------------------
\* Requests and answers are well formed.

\* Every request the client makes is well formed.
LEMMA RequestTypes ==
  /\ OpenRequest \in Request /\ CloseRequest \in Request
  /\ NoSession \in Session
  /\ \A start \in Nat, toks \in Seq(Token), c \in Nat \cup {NoCut} :
       ForwardRequest(start, toks, c) \in Request
  BY DEF OpenRequest, CloseRequest, ForwardRequest, Request, NoSession, Session

\* The requests and sessions of a cache of T.
RequestOf(T) == [op : {"open", "forward", "close"}, start : Nat, toks : Seq(T),
                 cut : Nat \cup {NoCut}]
SessionOf(T) == [open : BOOLEAN, kv : Seq(T), last : SUBSET [key : RequestOf(T), out : Seq(T)]]

\* A handler leaves a session and an answer, whatever it is asked; a forward
\* closes no session, and is answered only for one that is open.
LEMMA HandleTypeOf ==
  ASSUME NEW T, NEW s \in SessionOf(T), NEW r \in RequestOf(T)
  PROVE  /\ Handle(s, r).session \in SessionOf(T)
         /\ Handle(s, r).answer \in [status : {200, 404, 500}, out : Seq(T)]
         /\ r.op = "forward" /\ (s.open \/ Handle(s, r).answer.status = 200)
              => Handle(s, r).session.open
<1>1. CASE r.op = "open"
  <2>1. Handle(s, r) = OpenSession(s)
    BY <1>1 DEF Handle
  <2> QED BY <1>1, <2>1 DEF OpenSession, Reply, SessionOf
<1>2. CASE r.op = "close"
  <2>1. Handle(s, r) = CloseSession(s)
    BY <1>2 DEF Handle
  <2> QED BY <1>2, <2>1 DEF CloseSession, Reply, SessionOf, NoSession
<1>3. CASE r.op = "forward"
  <2>1. Handle(s, r) = ForwardSession(s, r)
    BY <1>3 DEF Handle
  <2>2. CASE ~s.open
    BY <2>1, <2>2 DEF ForwardSession, Reply, SessionOf
  <2>3. CASE s.open /\ Saved(s, r) # {}
    <3>1. (CHOOSE l \in Saved(s, r) : TRUE) \in s.last
      BY <2>3 DEF Saved
    <3> QED BY <2>1, <2>3, <3>1 DEF ForwardSession, Reply, SessionOf
  <2>4. CASE s.open /\ Saved(s, r) = {}
    <3> DEFINE kv == IF r.cut = NoCut THEN s.kv ELSE CutBack(s.kv, r.cut)
               out == BlockWrite(kv, r)
    <3>1. kv \in Seq(T)
      BY CutBackPrefix DEF SessionOf, RequestOf
    <3>2. out \in Seq(T)
      BY <3>1, Joined DEF BlockWrite, RequestOf
    <3>3. Handle(s, r) = IF BlockAccepts(kv, r.start)
            THEN Reply([open |-> TRUE, kv |-> out, last |-> {[key |-> r, out |-> out]}], 200, out)
            ELSE Reply([open |-> s.open, kv |-> kv, last |-> s.last], 500, <<>>)
      BY <2>1, <2>4 DEF ForwardSession, RunForward
    <3> HIDE DEF kv, out
    <3>4. CASE BlockAccepts(kv, r.start)
      BY <3>2, <3>3, <3>4 DEF Reply, SessionOf
    <3>5. CASE ~BlockAccepts(kv, r.start)
      BY <2>4, <3>1, <3>3, <3>5 DEF Reply, SessionOf
    <3> QED BY <3>4, <3>5
  <2> QED BY <2>2, <2>3, <2>4
<1> QED BY <1>1, <1>2, <1>3 DEF RequestOf

\* The same of a cache of tokens.
LEMMA HandleType ==
  ASSUME NEW s \in Session, NEW r \in Request
  PROVE  Handle(s, r).session \in Session /\ Handle(s, r).answer \in Answer
<1>1. Session = SessionOf(Token) /\ Request = RequestOf(Token)
      /\ Answer = [status : {200, 404, 500}, out : Seq(Token)]
  BY DEF Session, SessionOf, Request, RequestOf, Answer
<1> QED BY <1>1, HandleTypeOf

-----------------------------------------------------------------------------
\* A server that is asked for what comes next.

\* With its last reply a server keeps what the session became by it.
SettledSession(s) ==
  /\ ~s.open => s = NoSession
  /\ s.last = {} => s.kv = <<>>
  /\ \A l, m \in s.last : l = m
  /\ \A l \in s.last :
       /\ l.out = s.kv /\ l.key.op = "forward"
       /\ Len(l.out) = l.key.start + Len(l.key.toks)
       /\ \A i \in 1..Len(l.key.toks) : l.out[l.key.start + i] = l.key.toks[i]

\* s is the session of a request whose text is t, but for a cut c still to come.
Holds(s, t, c) ==
  s.open /\ t # <<>> =>
    /\ Len(t) <= Len(s.kv) /\ \A i \in 1..Len(t) : s.kv[i] = t[i]
    /\ c = NoCut => Len(s.kv) = Len(t)
    /\ \A l \in s.last : l.key.start < Len(t)

\* s is the session of a request whose text is t, and has run the piece r after it.
Ran(s, t, r) == s.open => /\ s.kv = t \o r.toks /\ s.last # {}
                          /\ \A l \in s.last : l.key = r

\* An open, a close, and a forward of a session the server does not have.
LEMMA OthersSettled ==
  ASSUME NEW T, NEW s \in SessionOf(T), SettledSession(s)
  PROVE  /\ Handle(s, OpenRequest).session \in SessionOf(T)
         /\ SettledSession(Handle(s, OpenRequest).session)
         /\ Handle(s, OpenRequest).session.open /\ Handle(s, OpenRequest).answer.status = 200
         /\ Handle(s, CloseRequest).session = NoSession /\ NoSession \in SessionOf(T)
         /\ SettledSession(NoSession) /\ Handle(s, CloseRequest).answer.status = 200
         /\ \A r : r.op = "forward" /\ ~s.open =>
              Handle(s, r).session = s /\ Handle(s, r).answer.status = 404
<1> DEFINE empty == [open |-> TRUE, kv |-> <<>>, last |-> {}]
<1>1. Handle(s, OpenRequest) = OpenSession(s)
  BY DEF Handle, OpenRequest
<1>2. Handle(s, CloseRequest) = CloseSession(s)
  BY DEF Handle, CloseRequest
<1>3. empty \in SessionOf(T) /\ SettledSession(empty) /\ empty.open
  BY DEF SessionOf, SettledSession
<1>4. NoSession \in SessionOf(T) /\ SettledSession(NoSession)
  BY DEF NoSession, SessionOf, SettledSession
<1>5. /\ OpenSession(s).session = IF s.open THEN s ELSE empty
      /\ OpenSession(s).answer.status = 200
  BY DEF OpenSession, Reply
<1>6. CloseSession(s).session = NoSession /\ CloseSession(s).answer.status = 200
  BY DEF CloseSession, Reply
<1>7. ASSUME NEW r, r.op = "forward", ~s.open
      PROVE  Handle(s, r).session = s /\ Handle(s, r).answer.status = 404
  BY <1>7 DEF Handle, ForwardSession, Reply
<1> HIDE DEF empty
<1> QED BY <1>1, <1>2, <1>3, <1>4, <1>5, <1>6, <1>7

\* The session s of the text t is asked by r for the piece after t.
Asked(T, s, t, r) ==
  /\ s \in SessionOf(T) /\ SettledSession(s) /\ s.open
  /\ t \in Seq(T) /\ r.toks \in Seq(T) /\ r.toks # <<>>
  /\ r.cut \in {NoCut, Len(t)} /\ Holds(s, t, r.cut)
  /\ r = ForwardRequest(Len(t), r.toks, r.cut)

\* What was done is what a block does that held the session all along.
Grown(T, done, t, r) ==
  /\ done.answer = [status |-> 200, out |-> t \o r.toks]
  /\ done.session \in SessionOf(T) /\ SettledSession(done.session)
  /\ Ran(done.session, t, r) /\ done.session.open

\* A session asked for the piece after its text answers with the text and the
\* piece, whether it runs the piece or has its reply saved.
LEMMA ForwardHeld ==
  ASSUME NEW T, NEW s, NEW t, NEW r, Asked(T, s, t, r)
  PROVE  Grown(T, Handle(s, r), t, r)
<1> DEFINE toks == r.toks
           c == r.cut
<1>0. /\ s \in SessionOf(T) /\ SettledSession(s) /\ s.open
      /\ t \in Seq(T) /\ toks \in Seq(T) /\ toks # <<>>
      /\ c \in {NoCut, Len(t)} /\ Holds(s, t, c)
      /\ r = ForwardRequest(Len(t), toks, c)
  BY DEF Asked
<1> HIDE DEF toks, c
<1> SUFFICES /\ Handle(s, r).answer = [status |-> 200, out |-> t \o toks]
             /\ Handle(s, r).session \in SessionOf(T) /\ SettledSession(Handle(s, r).session)
             /\ Handle(s, r).session.open /\ Handle(s, r).session.kv = t \o toks
             /\ Handle(s, r).session.last # {}
             /\ \A l \in Handle(s, r).session.last : l.key = r
  BY DEF Grown, Ran, toks
<1> USE <1>0
<1>1. /\ r \in RequestOf(T) /\ r.op = "forward" /\ r.start = Len(t) /\ r.toks = toks
      /\ r.cut = c
  BY DEF ForwardRequest, RequestOf, NoCut
<1>2. s.kv \in Seq(T) /\ s.last \in SUBSET [key : RequestOf(T), out : Seq(T)]
  BY DEF SessionOf
<1>3. Handle(s, r) = IF Saved(s, r) # {}
                     THEN Reply(s, 200, (CHOOSE l \in Saved(s, r) : TRUE).out)
                     ELSE RunForward(s, r)
  BY <1>1 DEF Handle, ForwardSession
<1>4. /\ t \o toks \in Seq(T) /\ Len(t \o toks) = Len(t) + Len(toks)
      /\ \A i \in 1..Len(t) : (t \o toks)[i] = t[i]
      /\ \A i \in 1..Len(toks) : (t \o toks)[Len(t) + i] = toks[i]
      /\ (t = <<>> => t \o toks = toks)
  <2>1. t \o toks \in Seq(T) /\ Len(t \o toks) = Len(t) + Len(toks)
        /\ (t = <<>> => t \o toks = toks)
    OBVIOUS
  <2>2. \A i \in 1..Len(t) : (t \o toks)[i] = t[i]
    OBVIOUS
  <2>3. \A i \in 1..Len(toks) : (t \o toks)[Len(t) + i] = toks[i]
    OBVIOUS
  <2> QED BY <2>1, <2>2, <2>3
<1>5. CASE Saved(s, r) # {}
  <2>1. PICK l \in s.last : l.key = r /\ (CHOOSE k \in Saved(s, r) : TRUE) = l
    BY <1>5 DEF Saved
  <2>2. t = <<>>
    BY <1>1, <2>1 DEF Holds
  <2>3. /\ l.out = s.kv /\ Len(l.out) = 0 + Len(toks) /\ l.out \in Seq(T)
        /\ \A i \in 1..Len(toks) : l.out[0 + i] = toks[i]
    BY <1>1, <1>2, <2>1, <2>2 DEF SettledSession
  <2>4. l.out = toks
    BY <2>3, SeqEqual
  <2>5. /\ Handle(s, r).session = s
        /\ Handle(s, r).answer = [status |-> 200, out |-> l.out]
    <3>1. Handle(s, r) = Reply(s, 200, l.out)
      BY <1>3, <1>5, <2>1, Zenon
    <3> QED BY <3>1 DEF Reply
  <2>6. s.last # {} /\ \A k \in s.last : k.key = r
    BY <2>1 DEF SettledSession
  <2> QED BY <1>4, <2>2, <2>3, <2>4, <2>5, <2>6
<1>6. CASE Saved(s, r) = {}
  <2> DEFINE kv == IF r.cut = NoCut THEN s.kv ELSE CutBack(s.kv, r.cut)
             out == BlockWrite(kv, r)
             done == [open |-> TRUE, kv |-> out, last |-> {[key |-> r, out |-> out]}]
  <2>1. Handle(s, r) = IF BlockAccepts(kv, r.start)
          THEN Reply(done, 200, out)
          ELSE Reply([open |-> s.open, kv |-> kv, last |-> s.last], 500, <<>>)
    BY <1>3, <1>6 DEF RunForward
  <2>2. BlockAccepts(kv, r.start) /\ out = t \o toks
    <3>1. CASE t = <<>>
      BY <1>1, <1>4, <3>1 DEF BlockAccepts, BlockWrite
    <3>2. CASE t # <<>>
      <4>1. Len(t) \in Nat \ {0}
        BY <3>2
      <4>2. /\ Len(t) <= Len(s.kv) /\ \A i \in 1..Len(t) : s.kv[i] = t[i]
            /\ c = NoCut => Len(s.kv) = Len(t)
        BY <3>2 DEF Holds
      <4>3. kv \in Seq(T) /\ Len(kv) = Len(t) /\ \A i \in 1..Len(t) : kv[i] = t[i]
        <5>1. CASE c = NoCut
          BY <1>1, <1>2, <4>2, <5>1
        <5>2. CASE c # NoCut
          <6>1. c = Len(t) /\ kv = CutBack(s.kv, Len(t))
            BY <1>1, <5>2
          <6> HIDE DEF kv
          <6> DEFINE w == s.kv
                     n == Len(t)
          <6>2. w \in Seq(T) /\ n \in Nat /\ n <= Len(w) /\ kv = CutBack(w, n)
            BY <1>2, <4>1, <4>2, <6>1
          <6>3. \A i \in 1..n : w[i] = t[i]
            BY <4>2
          <6> HIDE DEF w, n
          <6>4. kv \in Seq(T) /\ Len(kv) = n /\ \A i \in 1..n : kv[i] = w[i]
            BY <6>2, CutBackPrefix
          <6> QED BY <6>3, <6>4 DEF n
        <5> QED BY <5>1, <5>2
      <4> HIDE DEF kv
      <4>4. kv = t
        BY <4>3, SeqEqual
      <4> QED BY <1>1, <4>1, <4>4 DEF BlockAccepts, BlockWrite
    <3> QED BY <3>1, <3>2
  <2> HIDE DEF kv, out
  <2>3. done \in SessionOf(T)
    BY <1>1, <1>4, <2>2 DEF SessionOf
  <2>4. SettledSession(done)
    <3>1. done.open /\ done.last # {} /\ done.kv = out /\ \A l, m \in done.last : l = m
      OBVIOUS
    <3>2. \A l \in done.last : l.out = out /\ l.key = r
      OBVIOUS
    <3> HIDE DEF done
    <3>3. Len(out) = r.start + Len(r.toks) /\ \A i \in 1..Len(r.toks) : out[r.start + i] = r.toks[i]
      BY <1>1, <1>4, <2>2
    <3>4. ASSUME NEW l \in done.last
          PROVE  /\ l.out = done.kv /\ l.key.op = "forward"
                 /\ Len(l.out) = l.key.start + Len(l.key.toks)
                 /\ \A i \in 1..Len(l.key.toks) : l.out[l.key.start + i] = l.key.toks[i]
      <4>1. l.out = out /\ l.key = r
        BY <3>2
      <4> QED BY <1>1, <3>1, <3>3, <4>1
    <3> QED BY <3>1, <3>4, Zenon DEF SettledSession
  <2>5. Handle(s, r).session = done /\ Handle(s, r).answer = [status |-> 200, out |-> out]
    BY <2>1, <2>2 DEF Reply
  <2>6. done.last # {} /\ \A l \in done.last : l.key = r
    <3>1. done.last = {[key |-> r, out |-> out]}
      OBVIOUS
    <3> HIDE DEF done
    <3> QED BY <3>1
  <2>7. done.open /\ done.kv = out
    OBVIOUS
  <2> HIDE DEF done
  <2> QED BY <2>2, <2>3, <2>4, <2>5, <2>6, <2>7
<1> QED BY <1>5, <1>6

\* The session s that has run the piece r after the text t is asked by r again.
AskedAgain(T, s, t, r) ==
  /\ s \in SessionOf(T) /\ SettledSession(s) /\ s.open /\ Ran(s, t, r)
  /\ r.op = "forward"

\* A session asked for a piece it has run answers with the reply it saved.
LEMMA ForwardAgain ==
  ASSUME NEW T, NEW s, NEW t, NEW r, AskedAgain(T, s, t, r)
  PROVE  Grown(T, Handle(s, r), t, r)
<1>1. /\ s \in SessionOf(T) /\ SettledSession(s) /\ s.open /\ Ran(s, t, r)
      /\ s.kv = t \o r.toks /\ s.last # {} /\ \A l \in s.last : l.key = r
      /\ r.op = "forward"
  BY DEF AskedAgain, Ran
<1>2. Saved(s, r) # {} /\ (CHOOSE l \in Saved(s, r) : TRUE) \in s.last
  BY <1>1 DEF Saved
<1>3. (CHOOSE l \in Saved(s, r) : TRUE).out = s.kv
  BY <1>1, <1>2 DEF SettledSession
<1>4. Handle(s, r) = Reply(s, 200, s.kv)
  <2>1. Handle(s, r) = ForwardSession(s, r)
    BY <1>1 DEF Handle
  <2> QED BY <1>1, <1>2, <1>3, <2>1 DEF ForwardSession
<1>5. Handle(s, r).session = s /\ Handle(s, r).answer = [status |-> 200, out |-> s.kv]
  BY <1>4 DEF Reply
<1> DEFINE done == Handle(s, r)
<1>6. done.session = s /\ done.answer = [status |-> 200, out |-> t \o r.toks]
  BY <1>1, <1>5
<1> HIDE DEF done
<1>7. Grown(T, done, t, r)
  BY <1>1, <1>6 DEF Grown
<1> QED BY <1>7 DEF done

-----------------------------------------------------------------------------
\* Induction and recursion.

\* The order of the naturals is well founded.
LEMMA NatOrder == \E R : /\ IsWellFoundedOn(R, Nat)
                         /\ \A y, x \in Nat : y < x => <<y, x>> \in R
<1>1. IsWellFoundedOn(OpToRel(<, Nat), Nat)
  BY NatLessThanWellFounded
<1>2. \A y, x \in Nat : y < x => <<y, x>> \in OpToRel(<, Nat)
  BY DEF OpToRel
<1> QED BY <1>1, <1>2, Zenon

\* A set of naturals has a least element: what stands for induction below.
LEMMA Least ==
  ASSUME NEW T, T \subseteq Nat, T # {}
  PROVE  \E x \in T : \A y \in T : x <= y
<1>1. PICK R : /\ IsWellFoundedOn(R, Nat)
               /\ \A y, x \in Nat : y < x => <<y, x>> \in R
  BY NatOrder
<1>2. IsWellFoundedOn(R, Nat)
  BY <1>1
<1>3. PICK x \in T : \A y \in T : ~ (<<y, x>> \in R)
  BY <1>2, WFMin
<1>4. \A y \in T : x \in Nat /\ y \in Nat /\ ~ (y < x)
  BY <1>1, <1>3
<1>5. \A y \in T : x <= y
  BY <1>4
<1> QED BY <1>5

\* f is what step makes of first, one index of 1..N after the other.
Iterates(f, S, first, N, step) ==
  f \in [0..N -> S] /\ f[0] = first /\ \A i \in 1..N : f[i] = step[<<f[i - 1], i>>]

\* A function defined by recursion on its index exists.
LEMMA Recursion ==
  ASSUME NEW S, NEW first \in S, NEW N \in Nat, NEW step \in [S \X (1..N) -> S]
  PROVE  \E f : Iterates(f, S, first, N, step)
<1> DEFINE Upto(n, f) == f[0] = first /\ \A i \in 1..n : f[i] = step[<<f[i - 1], i>>]
           Bad == {n \in 0..N : ~\E f \in [0..n -> S] : Upto(n, f)}
<1>1. Bad = {}
  <2> SUFFICES ASSUME Bad # {} PROVE FALSE
    OBVIOUS
  <2>1. Bad \subseteq Nat
    OBVIOUS
  <2>2. PICK x \in Bad : \A y \in Bad : x <= y
    BY <2>1, Least
  <2>3. CASE x = 0
    <3>1. [i \in 0..0 |-> first] \in [0..0 -> S] /\ Upto(0, [i \in 0..0 |-> first])
      OBVIOUS
    <3> QED BY <2>2, <2>3, <3>1
  <2>4. CASE x # 0
    <3>0. x \in 1..N /\ x - 1 \in 0..N /\ ~(x <= x - 1)
      BY <2>4
    <3>1. x - 1 \in 0..N /\ x - 1 \notin Bad /\ x \in 1..N
      <4> HIDE DEF Bad
      <4> QED BY <2>2, <3>0
    <3>2. PICK f \in [0..x - 1 -> S] : Upto(x - 1, f)
      BY <3>1
    <3> DEFINE g == [i \in 0..x |-> IF i = x THEN step[<<f[x - 1], x>>] ELSE f[i]]
    <3>3. f[x - 1] \in S
      BY <3>1
    <3>4. step[<<f[x - 1], x>>] \in S
      BY <3>1, <3>3
    <3>5. g \in [0..x -> S]
      BY <3>1, <3>4
    <3>6. Upto(x, g)
      <4>1. g[0] = first
        BY <3>0, <3>2
      <4>2. ASSUME NEW i \in 1..x PROVE g[i] = step[<<g[i - 1], i>>]
        <5>1. i - 1 \in 0..x - 1 /\ g[i - 1] = f[i - 1]
          BY <3>0
        <5>2. CASE i = x
          BY <3>0, <5>1, <5>2
        <5>3. CASE i # x
          BY <3>0, <3>2, <5>1, <5>3
        <5> QED BY <5>2, <5>3
      <4> QED BY <4>1, <4>2
    <3> QED BY <2>2, <3>5, <3>6
  <2> QED BY <2>3, <2>4
<1>2. N \in 0..N
  OBVIOUS
<1>3. PICK f \in [0..N -> S] : Upto(N, f)
  BY <1>1, <1>2
<1> QED BY <1>3 DEF Iterates

-----------------------------------------------------------------------------
\* The kept pieces.

\* A piece kept after the others.
LEMMA AppendTiles ==
  ASSUME NEW h \in Seq(Piece), NEW t \in Seq(Token), Tiles(h, t),
         NEW p \in Piece, p.start = Len(t), p.toks # <<>>
  PROVE  /\ Append(h, p) \in Seq(Piece) /\ Len(Append(h, p)) = Len(h) + 1
         /\ Tiles(Append(h, p), t \o p.toks)
<1> DEFINE g == Append(h, p)
           u == t \o p.toks
<1>1. /\ g \in Seq(Piece) /\ Len(g) = Len(h) + 1 /\ g # <<>> /\ g[Len(h) + 1] = p
      /\ \A i \in 1..Len(h) : g[i] = h[i]
  OBVIOUS
<1>2. /\ u \in Seq(Token) /\ Len(u) = Len(t) + Len(p.toks) /\ p.toks \in Seq(Token)
      /\ \A i \in 1..Len(t) : u[i] = t[i]
      /\ \A i \in 1..Len(p.toks) : u[Len(t) + i] = p.toks[i]
  BY Joined DEF Piece
<1>3. Len(h) \in Nat /\ Len(t) \in Nat /\ (h # <<>> <=> Len(h) # 0) /\ Len(p.toks) \in Nat
  BY <1>2
<1>4. \A i \in 1..Len(h) : h[i].start \in Nat /\ h[i].toks \in Seq(Token)
  <2>1. \A i \in 1..Len(h) : h[i] \in Piece
    OBVIOUS
  <2> QED BY <2>1 DEF Piece
<1> HIDE DEF g, u
<1>5. g[1].start = 0
  <2>1. CASE h = <<>>
    BY <1>1, <1>3, <2>1 DEF Tiles
  <2>2. CASE h # <<>>
    BY <1>1, <1>3, <2>2 DEF Tiles
  <2> QED BY <2>1, <2>2
<1>6. ASSUME NEW i \in 1 .. Len(g) - 1 PROVE g[i + 1].start = g[i].start + Len(g[i].toks)
  <2>1. CASE i = Len(h)
    BY <1>1, <1>3, <2>1 DEF Tiles
  <2>2. CASE i # Len(h)
    <3>1. i \in 1 .. Len(h) - 1 /\ i \in 1..Len(h) /\ i + 1 \in 1..Len(h)
      BY <1>1, <1>3, <2>2
    <3> QED BY <1>1, <3>1 DEF Tiles
  <2> QED BY <2>1, <2>2
<1>7. ASSUME NEW i \in 1 .. Len(g)
      PROVE  /\ g[i].toks # <<>> /\ g[i].start + Len(g[i].toks) <= Len(u)
             /\ \A j \in 1 .. Len(g[i].toks) : g[i].toks[j] = u[g[i].start + j]
  <2>1. CASE i = Len(h) + 1
    <3>1. g[i] = p
      BY <1>1, <2>1
    <3>2. p.toks # <<>> /\ p.start + Len(p.toks) <= Len(u)
      BY <1>2, <1>3
    <3>3. \A j \in 1 .. Len(p.toks) : p.toks[j] = u[p.start + j]
      BY <1>2
    <3> QED BY <3>1, <3>2, <3>3
  <2>2. CASE i # Len(h) + 1
    <3>1. i \in 1..Len(h) /\ g[i] = h[i]
      BY <1>1, <1>3, <2>2
    <3>2. /\ h[i].toks # <<>> /\ h[i].start + Len(h[i].toks) <= Len(t)
          /\ \A j \in 1 .. Len(h[i].toks) : h[i].toks[j] = t[h[i].start + j]
      BY <3>1 DEF Tiles
    <3>3. h[i].start \in Nat /\ Len(h[i].toks) \in Nat
      BY <1>4, <3>1
    <3>4. ASSUME NEW j \in 1 .. Len(h[i].toks) PROVE h[i].toks[j] = u[h[i].start + j]
      <4>1. h[i].start + j \in 1..Len(t)
        BY <1>3, <3>2, <3>3
      <4> QED BY <1>2, <3>2, <4>1
    <3>5. h[i].start + Len(h[i].toks) <= Len(u)
      <4>1. Len(t) <= Len(u) /\ Len(u) \in Nat
        BY <1>2, <1>3
      <4>2. h[i].start + Len(h[i].toks) <= Len(t) /\ h[i].start + Len(h[i].toks) \in Nat
        BY <3>2, <3>3
      <4> HIDE <1>2, <3>2
      <4> QED BY <1>3, <4>1, <4>2
    <3> QED BY <3>1, <3>2, <3>4, <3>5
  <2> QED BY <2>1, <2>2
<1>8. Tiles(g, u)
  BY <1>1, <1>2, <1>3, <1>5, <1>6, <1>7 DEF Tiles
<1> QED BY <1>1, <1>8 DEF g, u

\* Where the pieces end.
LEMMA TileBounds ==
  ASSUME NEW h \in Seq(Piece), NEW t \in Seq(Token), Tiles(h, t), NEW i \in 1..Len(h)
  PROVE  /\ h[i] \in Piece /\ h[i].start \in Nat /\ h[i].toks \in Seq(Token)
         /\ Len(h[i].toks) \in Nat \ {0} /\ h[i].start < Len(t)
         /\ h[i].start + Len(h[i].toks) \in 1..Len(t)
         /\ h[i].start = IF i = 1 THEN 0 ELSE h[i - 1].start + Len(h[i - 1].toks)
<1>0. h[i] \in Piece /\ Len(t) \in Nat
  OBVIOUS
<1>1. h[i] \in Piece /\ h[i].start \in Nat /\ h[i].toks \in Seq(Token) /\ Len(t) \in Nat
  BY <1>0 DEF Piece
<1>2. h[i].toks # <<>> /\ h[i].start + Len(h[i].toks) <= Len(t) /\ h # <<>>
  BY DEF Tiles
<1>3. Len(h[i].toks) \in Nat \ {0}
  BY <1>1, <1>2
<1>4. h[i].start = IF i = 1 THEN 0 ELSE h[i - 1].start + Len(h[i - 1].toks)
  <2>1. CASE i = 1
    BY <1>2, <2>1 DEF Tiles
  <2>2. CASE i # 1
    <3>1. i - 1 \in 1 .. Len(h) - 1 /\ (i - 1) + 1 = i
      BY <2>2
    <3>2. h[(i - 1) + 1].start = h[i - 1].start + Len(h[i - 1].toks)
      BY <3>1 DEF Tiles
    <3> QED BY <2>2, <3>1, <3>2
  <2> QED BY <2>1, <2>2
<1> QED BY <1>1, <1>2, <1>3, <1>4

\* Where the first k kept pieces end.
EndOf(h, k) == IF k = 0 THEN 0 ELSE h[k].start + Len(h[k].toks)

\* The next kept piece starts where those before it end, and with them is the
\* front of the text up to its own end.
LEMMA NextPiece ==
  ASSUME NEW h \in Seq(Piece), NEW t \in Seq(Token), Tiles(h, t),
         NEW k \in Nat, k + 1 \in 1..Len(h)
  PROVE  /\ EndOf(h, k) \in 0..Len(t) /\ h[k + 1].start = EndOf(h, k)
         /\ h[k + 1].toks \in Seq(Token) /\ h[k + 1].toks # <<>>
         /\ EndOf(h, k + 1) = EndOf(h, k) + Len(h[k + 1].toks) /\ EndOf(h, k + 1) \in 0..Len(t)
         /\ SubSeq(t, 1, EndOf(h, k)) \o h[k + 1].toks = SubSeq(t, 1, EndOf(h, k + 1))
<1> DEFINE p == h[k + 1]
           a == EndOf(h, k)
           b == a + Len(p.toks)
           u == SubSeq(t, 1, a)
           q == p.toks
<1>1. /\ p.start \in Nat /\ p.toks \in Seq(Token) /\ Len(p.toks) \in Nat \ {0}
      /\ p.start < Len(t) /\ p.start + Len(p.toks) \in 1..Len(t)
      /\ p.start = IF k = 0 THEN 0 ELSE h[k].start + Len(h[k].toks)
  <2> DEFINE i == k + 1
  <2>1. i \in 1..Len(h) /\ (i = 1 <=> k = 0) /\ i - 1 = k
    OBVIOUS
  <2> HIDE DEF i
  <2>2. /\ h[i].start \in Nat /\ h[i].toks \in Seq(Token)
        /\ Len(h[i].toks) \in Nat \ {0} /\ h[i].start < Len(t)
        /\ h[i].start + Len(h[i].toks) \in 1..Len(t)
        /\ h[i].start = IF i = 1 THEN 0 ELSE h[i - 1].start + Len(h[i - 1].toks)
    BY <2>1, TileBounds
  <2> QED BY <2>1, <2>2 DEF i
<1>2. p.start = a
  BY <1>1 DEF EndOf
<1>3. \A j \in 1..Len(q) : q[j] = t[a + j]
  BY <1>2 DEF Tiles
<1>4. EndOf(h, k + 1) = b
  BY <1>1, <1>2 DEF EndOf
<1>5. Len(t) \in Nat /\ a \in 0..Len(t) /\ b \in 0..Len(t) /\ q \in Seq(Token) /\ q # <<>>
  BY <1>1, <1>2
<1>6. u \in Seq(Token) /\ Len(u) = a /\ \A j \in 1..a : u[j] = t[j]
  BY <1>5, Taken
<1>7. Parts(Token, t, a, b, u, q)
  <2> HIDE DEF a, u, q
  <2>1. b = a + Len(q) /\ Len(q) \in Nat
    BY <1>5 DEF q
  <2> HIDE DEF b
  <2> QED BY <2>1, <1>3, <1>5, <1>6 DEF Parts
<1> HIDE DEF u, q, a, b
<1>8. u \o q = SubSeq(t, 1, b)
  <2>1. Joint(t, b, u, q)
    BY <1>7, JoinedParts
  <2> QED BY <2>1 DEF Joint
<1> QED BY <1>2, <1>4, <1>5, <1>8 DEF u, q, a, b

\* Nothing kept is nothing cut.
LEMMA CutNothing == \A n : CutHistory(<<>>, n) = <<>>
<1> SUFFICES ASSUME NEW n PROVE CutHistory(<<>>, n) = <<>>
  OBVIOUS
<1> DEFINE h == <<>>
           body(f) == [i \in 0..Len(h) |->
                         IF i = 0 THEN <<>>
                         ELSE IF h[i].start >= n THEN f[i - 1]
                         ELSE Append(f[i - 1], [h[i] EXCEPT !.toks = CutBack(@, n - h[i].start)])]
           kept == CHOOSE f : f = body(f)
           none == [i \in 0..Len(h) |-> <<>>]
<1>1. CutHistory(h, n) = kept[Len(h)]
  BY DEF CutHistory
<1>2. Len(h) = 0
  OBVIOUS
<1> HIDE DEF h
<1>3. \A i \in 0..Len(h) : i = 0
  BY <1>2
<1>4. none = body(none)
  BY <1>3
<1>5. kept = body(kept)
  <2> HIDE DEF none
  <2> QED BY <1>4
<1>6. kept[0] = <<>>
  BY <1>2, <1>5
<1> QED BY <1>1, <1>2, <1>6 DEF h

\* What the kept pieces of a text are after the text is cut to n tokens: the
\* cut text, in as many pieces as started before n.
LEMMA CutTiles ==
  ASSUME NEW h \in Seq(Piece), NEW t \in Seq(Token), Tiles(h, t), NEW n \in 0..Len(t)
  PROVE  /\ CutHistory(h, n) \in Seq(Piece)
         /\ Tiles(CutHistory(h, n), SubSeq(t, 1, n))
         /\ (\A i \in 1..Len(h) : h[i].start < n) => Len(CutHistory(h, n)) = Len(h)
<1> DEFINE cutTo(p) == [p EXCEPT !.toks = CutBack(@, n - p.start)]
           step == [x \in Seq(Piece) \X (1..Len(h)) |->
                      IF h[x[2]].start >= n THEN x[1] ELSE Append(x[1], cutTo(h[x[2]]))]
           body(f) == [i \in 0..Len(h) |->
                         IF i = 0 THEN <<>>
                         ELSE IF h[i].start >= n THEN f[i - 1]
                         ELSE Append(f[i - 1], cutTo(h[i]))]
           kept == CHOOSE f : f = body(f)
           reach(i) == IF i = 0 THEN 0
                       ELSE IF h[i].start + Len(h[i].toks) < n
                            THEN h[i].start + Len(h[i].toks) ELSE n
<1>1. CutHistory(h, n) = kept[Len(h)]
  BY DEF CutHistory
<1>2. ASSUME NEW i \in 1..Len(h), h[i].start < n
      PROVE  cutTo(h[i]) \in Piece /\ cutTo(h[i]).start = h[i].start
             /\ cutTo(h[i]).toks = CutBack(h[i].toks, n - h[i].start)
  <2>1. h[i] \in Piece /\ h[i].start \in Nat /\ h[i].toks \in Seq(Token) /\ n - h[i].start \in Nat
    BY <1>2, TileBounds
  <2>2. CutBack(h[i].toks, n - h[i].start) \in Seq(Token)
    BY <2>1, CutBackPrefix
  <2> QED BY <2>1, <2>2 DEF Piece
<1> HIDE DEF cutTo
<1>3. kept = body(kept)
  <2>1. <<>> \in Seq(Piece) /\ Len(h) \in Nat
    OBVIOUS
  <2>2. step \in [Seq(Piece) \X (1..Len(h)) -> Seq(Piece)]
    <3>1. ASSUME NEW x \in Seq(Piece) \X (1..Len(h)) PROVE step[x] \in Seq(Piece)
      <4>1. x[1] \in Seq(Piece) /\ x[2] \in 1..Len(h) /\ h[x[2]].start \in Nat
        BY TileBounds
      <4>2. CASE h[x[2]].start >= n
        BY <4>1, <4>2
      <4>3. CASE h[x[2]].start < n
        <5>1. cutTo(h[x[2]]) \in Piece
          BY <1>2, <4>1, <4>3
        <5>2. \A q \in Piece : Append(x[1], q) \in Seq(Piece)
          BY <4>1
        <5> QED BY <4>1, <4>3, <5>1, <5>2
      <4> QED BY <4>1, <4>2, <4>3
    <3> QED BY <3>1
  <2> HIDE DEF step
  <2>3. PICK f \in [0..Len(h) -> Seq(Piece)] :
          f[0] = <<>> /\ \A i \in 1..Len(h) : f[i] = step[<<f[i - 1], i>>]
    <3> HIDE DEF kept, body, reach
    <3>1. PICK f : Iterates(f, Seq(Piece), <<>>, Len(h), step)
      BY <2>1, <2>2, Recursion
    <3> QED BY <3>1 DEF Iterates
  <2>4. ASSUME NEW i \in 0..Len(h) PROVE f[i] = body(f)[i]
    <3>1. CASE i = 0
      BY <2>3, <3>1
    <3>2. CASE i # 0
      <4>1. i \in 1..Len(h) /\ f[i - 1] \in Seq(Piece)
        BY <3>2
      <4>2. step[<<f[i - 1], i>>]
              = IF h[i].start >= n THEN f[i - 1] ELSE Append(f[i - 1], cutTo(h[i]))
        BY <4>1 DEF step
      <4> QED BY <2>3, <3>2, <4>1, <4>2
    <3> QED BY <3>1, <3>2
  <2>5. f = body(f)
    BY <2>4
  <2> QED BY <2>5
<1>4. \A i \in 0..Len(h) : kept[i] = IF i = 0 THEN <<>>
                                     ELSE IF h[i].start >= n THEN kept[i - 1]
                                     ELSE Append(kept[i - 1], cutTo(h[i]))
  BY <1>3
<1> HIDE DEF kept, body
<1> DEFINE Good(i) == /\ kept[i] \in Seq(Piece) /\ Tiles(kept[i], SubSeq(t, 1, reach(i)))
                      /\ (\A j \in 1..i : h[j].start < n) => Len(kept[i]) = i
           Bad == {i \in 0..Len(h) : ~Good(i)}
<1>5. \A i \in 1..Len(h) : reach(i) \in 0..Len(t) /\ reach(i - 1) \in 0..Len(t)
                           /\ reach(i - 1) = IF h[i].start < n THEN h[i].start ELSE n
  <2> TAKE i \in 1..Len(h)
  <2>1. h[i].start \in Nat /\ Len(h[i].toks) \in Nat /\ h[i].start + Len(h[i].toks) \in 1..Len(t)
        /\ h[i].start = IF i = 1 THEN 0 ELSE h[i - 1].start + Len(h[i - 1].toks)
    BY TileBounds
  <2> QED BY <2>1
<1>6. ASSUME NEW i \in 1..Len(h), Good(i - 1) PROVE Good(i)
  <2>1. /\ h[i].start \in Nat /\ h[i].toks \in Seq(Token) /\ Len(h[i].toks) \in Nat \ {0}
        /\ h[i].start + Len(h[i].toks) \in 1..Len(t) /\ h[i] \in Piece
    BY TileBounds
  <2>2. CASE h[i].start >= n
    <3>1. kept[i] = kept[i - 1]
      BY <1>4, <2>2
    <3>2. reach(i) = reach(i - 1)
      BY <1>5, <2>1, <2>2
    <3>3. ~ \A j \in 1..i : h[j].start < n
      BY <2>1, <2>2
    <3> HIDE DEF reach
    <3> QED BY <1>6, <3>1, <3>2, <3>3
  <2>3. CASE h[i].start < n
    <3>0. kept[i] = Append(kept[i - 1], cutTo(h[i]))
      <4>1. i \in 0..Len(h) /\ i # 0 /\ ~(h[i].start >= n)
        BY <2>1, <2>3
      <4> HIDE DEF step, reach, Good, Bad
      <4> QED BY <1>4, <4>1
    <3> DEFINE p == cutTo(h[i])
               a == h[i].start
               b == reach(i)
               u == SubSeq(t, 1, a)
    <3>1. kept[i] = Append(kept[i - 1], p)
      BY <3>0
    <3>2. reach(i - 1) = a /\ a \in 0..Len(t) /\ b \in 0..Len(t)
      BY <1>5, <2>1, <2>3
    <3>3. u \in Seq(Token) /\ Len(u) = a /\ \A j \in 1..a : u[j] = t[j]
      BY <3>2, Taken
    <3>4. p \in Piece /\ p.start = a /\ p.toks = CutBack(h[i].toks, n - a)
      BY <1>2, <2>3
    <3>5. /\ p.toks \in Seq(Token) /\ Len(p.toks) = b - a /\ Len(p.toks) # 0 /\ b - a \in Nat
          /\ \A j \in 1..Len(p.toks) : p.toks[j] = t[a + j]
      <4>1. n - a \in Nat /\ n - a # 0
        BY <2>1, <2>3
      <4>2. b = IF a + Len(h[i].toks) < n THEN a + Len(h[i].toks) ELSE n
        OBVIOUS
      <4>3. \A j \in 1..Len(h[i].toks) : h[i].toks[j] = t[a + j]
        BY DEF Tiles
      <4>4. n - a \in Nat \ {0} /\ h[i].toks \in Seq(Token) /\ Len(h[i].toks) \in Nat \ {0}
            /\ p.toks = CutBack(h[i].toks, n - a) /\ a \in Nat /\ n \in Nat
        BY <2>1, <3>4, <4>1
      <4> DEFINE w == h[i].toks
                 m == n - a
                 q == p.toks
      <4>5. q = CutBack(w, m) /\ w \in Seq(Token) /\ m \in Nat \ {0} /\ Len(w) \in Nat \ {0}
            /\ a \in Nat /\ n \in Nat
        BY <4>4
      <4>6. b = IF a + Len(w) < n THEN a + Len(w) ELSE n
        BY <4>2
      <4>7. \A j \in 1..Len(w) : w[j] = t[a + j]
        BY <4>3
      <4>8. m = n - a
        OBVIOUS
      <4> HIDE DEF p, b, w, m, q
      <4>9. /\ q \in Seq(Token) /\ Len(q) = IF Len(w) >= m THEN m ELSE Len(w)
            /\ Len(q) \in Nat /\ Len(q) <= Len(w) /\ \A j \in 1..Len(q) : q[j] = w[j]
        <5>1. /\ q \in Seq(Token) /\ Len(q) <= Len(w) /\ \A j \in 1..Len(q) : q[j] = w[j]
              /\ Len(w) >= m => Len(q) = m
          <6>1. /\ CutBack(w, m) \in Seq(Token) /\ Len(CutBack(w, m)) <= Len(w)
                /\ Len(w) >= m => Len(CutBack(w, m)) = m
                /\ \A j \in 1..Len(CutBack(w, m)) : CutBack(w, m)[j] = w[j]
            BY <4>5, CutBackPrefix
          <6> QED BY <4>5, <6>1, Zenon
        <5>2. Len(w) <= m => q = w
          BY <4>5 DEF CutBack
        <5>3. Len(q) \in Nat
          BY <5>1
        <5> QED BY <4>5, <5>1, <5>2, <5>3
      <4>10. Len(q) = b - a
        BY <4>5, <4>6, <4>8, <4>9
      <4>11. \A j \in 1..Len(q) : q[j] = t[a + j]
        BY <4>5, <4>7, <4>9
      <4>12. Len(q) # 0
        BY <4>5, <4>9
      <4> QED BY <4>9, <4>10, <4>11, <4>12 DEF q
    <3>6. kept[i - 1] \in Seq(Piece) /\ Tiles(kept[i - 1], u)
      BY <1>6, <3>2
    <3>7. p.toks # <<>>
      BY <3>5
    <3> HIDE DEF p, u, a, b
    <3>8. /\ kept[i] \in Seq(Piece) /\ Len(kept[i]) = Len(kept[i - 1]) + 1
          /\ Tiles(kept[i], u \o p.toks)
      BY <3>1, <3>3, <3>4, <3>6, <3>7, AppendTiles
    <3>9. u \o p.toks = SubSeq(t, 1, b)
      <4> HIDE DEF step, reach, Good, Bad
      <4>1. a \in Nat /\ b \in a..Len(t) /\ \A j \in 1..b - a : p.toks[j] = t[a + j]
        BY <3>2, <3>5
      <4>2. u \in Seq(Token) /\ Len(u) = a /\ \A j \in 1..a : u[j] = t[j]
        BY <3>3
      <4>3. p.toks \in Seq(Token) /\ Len(p.toks) = b - a
        BY <3>5
      <4>4. Parts(Token, t, a, b, u, p.toks)
        BY <4>1, <4>2, <4>3 DEF Parts
      <4>5. Joint(t, b, u, p.toks)
        BY <4>4, JoinedParts
      <4> QED BY <4>5 DEF Joint
    <3>10. (\A j \in 1..i : h[j].start < n) => Len(kept[i]) = i
      <4>1. (\A j \in 1..i : h[j].start < n) => (\A j \in 1..i - 1 : h[j].start < n)
        OBVIOUS
      <4> QED BY <1>6, <3>8, <4>1
    <3> QED BY <3>8, <3>9, <3>10 DEF b
  <2> QED BY <2>1, <2>2, <2>3
<1>7. Good(0)
  <2>1. kept[0] = <<>>
    BY <1>4
  <2>2. Tiles(<<>>, SubSeq(t, 1, 0))
    BY DEF Tiles
  <2> QED BY <2>1, <2>2
<1> HIDE DEF Good
<1>8. Bad = {}
  <2> SUFFICES ASSUME Bad # {} PROVE FALSE
    OBVIOUS
  <2>1. PICK x \in Bad : \A y \in Bad : x <= y
    <3>1. Bad \subseteq Nat
      OBVIOUS
    <3> QED BY <3>1, Least
  <2>2. x \in 1..Len(h) /\ x - 1 \in 0..Len(h) /\ ~(x <= x - 1)
    BY <1>7, <2>1
  <2>3. x - 1 \notin Bad
    <3> HIDE DEF Bad
    <3> QED BY <2>1, <2>2
  <2> QED BY <1>6, <2>1, <2>2, <2>3
<1>9. Good(Len(h))
  BY <1>8
<1>10. reach(Len(h)) = n
  <2>1. CASE h = <<>>
    BY <2>1 DEF Tiles
  <2>2. CASE h # <<>>
    <3>1. Len(h) \in 1..Len(h) /\ Len(h) # 0
      BY <2>2
    <3>2. h[Len(h)].start + Len(h[Len(h)].toks) = Len(t)
      BY <2>2 DEF Tiles
    <3> QED BY <3>1, <3>2
  <2> QED BY <2>1, <2>2
<1> QED BY <1>1, <1>9, <1>10 DEF Good

-----------------------------------------------------------------------------
\* What FlattenSeq makes of the kept pieces.

\* Parts of a text that end where the next begins join to the text.
LEMMA Flattened ==
  ASSUME NEW S, NEW t \in Seq(S), NEW N \in Nat, NEW ss \in [1..N -> Seq(S)],
         NEW e \in [0..N -> 0..Len(t)], e[0] = 0, e[N] = Len(t),
         \A i \in 1..N : /\ e[i] = e[i - 1] + Len(ss[i])
                         /\ \A j \in 1..Len(ss[i]) : ss[i][j] = t[e[i - 1] + j]
  PROVE  FlattenSeq(ss) = t
<1> DEFINE body(f) == [i \in 1..Len(ss) |-> IF i = 1 THEN ss[i] ELSE f[i - 1] \o ss[i]]
           flat == CHOOSE f : f = body(f)
           upto == [i \in 1..N |-> SubSeq(t, 1, e[i])]
           Bad == {i \in 1..N : flat[i] # SubSeq(t, 1, e[i])}
<1>1. ss \in Seq(Seq(S)) /\ Len(ss) = N
  OBVIOUS
<1>2. FlattenSeq(ss) = IF Len(ss) = 0 THEN ss ELSE flat[Len(ss)]
  BY DEF FlattenSeq
<1>3. CASE N = 0
  <2>1. ss = <<>> /\ Len(t) = 0
    BY <1>3
  <2>2. t = <<>>
    BY <2>1, Empty
  <2> QED BY <1>1, <1>2, <1>3, <2>1, <2>2
<1>4. CASE N # 0
  <2>1. ASSUME NEW i \in 1..N
        PROVE  /\ i = 1 => ss[i] = SubSeq(t, 1, e[i])
               /\ i # 1 => /\ i - 1 \in 1..N
                           /\ SubSeq(t, 1, e[i - 1]) \o ss[i] = SubSeq(t, 1, e[i])
    <3>1. /\ ss[i] \in Seq(S) /\ i - 1 \in 0..N /\ e[i] \in 0..Len(t) /\ e[i - 1] \in 0..Len(t)
          /\ e[i] = e[i - 1] + Len(ss[i])
          /\ \A j \in 1..Len(ss[i]) : ss[i][j] = t[e[i - 1] + j]
      OBVIOUS
    <3>2. Len(ss[i]) \in Nat
      BY <3>1
    <3>3. CASE i = 1
      <4>1. e[i - 1] = 0
        BY <3>3
      <4>2. /\ SubSeq(t, 1, e[i]) \in Seq(S) /\ Len(SubSeq(t, 1, e[i])) = e[i]
            /\ \A j \in 1..e[i] : SubSeq(t, 1, e[i])[j] = t[j]
        BY <3>1, Taken
      <4>3. \A j \in 1..Len(ss[i]) : ss[i][j] = t[j]
        BY <3>1, <3>2, <4>1
      <4>4. Len(ss[i]) = Len(SubSeq(t, 1, e[i]))
        BY <3>1, <3>2, <4>1, <4>2
      <4>5. ss[i] = SubSeq(t, 1, e[i])
        <5> DEFINE q == ss[i]
                   w == SubSeq(t, 1, e[i])
        <5>1. q \in Seq(S) /\ w \in Seq(S) /\ Len(q) = Len(w) /\ \A j \in 1..Len(q) : q[j] = w[j]
          BY <3>1, <4>2, <4>3, <4>4
        <5> HIDE DEF q, w
        <5>2. q = w
          BY <5>1, SeqEqual
        <5> QED BY <5>2 DEF q, w
      <4> QED BY <3>3, <4>5
    <3>4. CASE i # 1
      <4>0. i - 1 \in 1..N
        BY <3>4
      <4> DEFINE a == e[i - 1]
                 b == e[i]
                 u == SubSeq(t, 1, a)
                 q == ss[i]
      <4>1. a \in Nat /\ b \in a..Len(t)
        BY <3>1, <3>2
      <4>2. u \in Seq(S) /\ Len(u) = a /\ \A j \in 1..a : u[j] = t[j]
        BY <3>1, Taken
      <4>3. q \in Seq(S) /\ Len(q) = b - a /\ \A j \in 1..b - a : q[j] = t[a + j]
        BY <3>1, <3>2
      <4> HIDE DEF a, b, u, q
      <4>4. u \o q = SubSeq(t, 1, b)
        <5>1. Parts(S, t, a, b, u, q)
          BY <4>1, <4>2, <4>3 DEF Parts
        <5>2. Joint(t, b, u, q)
          BY <5>1, JoinedParts
        <5> QED BY <5>2 DEF Joint
      <4> QED BY <3>4, <4>0, <4>4 DEF a, b, u, q
    <3> QED BY <3>3, <3>4
  <2>2. upto = body(upto)
    <3>1. ASSUME NEW i \in 1..N PROVE upto[i] = IF i = 1 THEN ss[i] ELSE upto[i - 1] \o ss[i]
      <4>1. upto[i] = SubSeq(t, 1, e[i])
        OBVIOUS
      <4>2. i # 1 => upto[i - 1] = SubSeq(t, 1, e[i - 1])
        BY <2>1
      <4> HIDE DEF upto
      <4> QED BY <2>1, <4>1, <4>2
    <3>2. body(upto) = upto
      BY <1>1, <3>1
    <3> QED BY <3>2
  <2>3. flat = body(flat)
    <3> HIDE DEF upto
    <3> QED BY <2>2
  <2>4. \A i \in 1..N : flat[i] = IF i = 1 THEN ss[i] ELSE flat[i - 1] \o ss[i]
    BY <1>1, <2>3
  <2> HIDE DEF flat, body, upto
  <2>5. Bad = {}
    <3> SUFFICES ASSUME Bad # {} PROVE FALSE
      OBVIOUS
    <3>1. PICK x \in Bad : \A y \in Bad : x <= y
      <4>1. Bad \subseteq Nat
        OBVIOUS
      <4> QED BY <4>1, Least
    <3>2. x \in 1..N /\ flat[x] # SubSeq(t, 1, e[x])
      BY <3>1
    <3>3. CASE x = 1
      BY <2>1, <2>4, <3>2, <3>3
    <3>4. CASE x # 1
      <4>1. x - 1 \in 1..N /\ ~(x <= x - 1)
        BY <3>2, <3>4
      <4>2. x - 1 \notin Bad
        <5> HIDE DEF Bad
        <5> QED BY <3>1, <4>1
      <4>3. flat[x - 1] = SubSeq(t, 1, e[x - 1])
        BY <4>1, <4>2
      <4> QED BY <2>1, <2>4, <3>2, <3>4, <4>3
    <3> QED BY <3>3, <3>4
  <2>6. N \in 1..N
    BY <1>4
  <2>7. flat[N] = SubSeq(t, 1, Len(t))
    BY <2>5, <2>6
  <2>8. SubSeq(t, 1, Len(t)) = t
    OBVIOUS
  <2> QED BY <1>1, <1>2, <1>4, <2>7, <2>8
<1> QED BY <1>3, <1>4

\* The kept pieces of a text join to it, and each starts where those before it end.
LEMMA TilesFlatten ==
  ASSUME NEW h \in Seq(Piece), NEW t \in Seq(Token), Tiles(h, t)
  PROVE  /\ FlattenSeq([i \in DOMAIN h |-> h[i].toks]) = t
         /\ \A i \in DOMAIN h :
              h[i].start = Len(FlattenSeq([j \in 1..i - 1 |-> h[j].toks]))
<1>1. DOMAIN h = 1..Len(h) /\ Len(h) \in Nat /\ Len(t) \in Nat
  OBVIOUS
<1>2. ASSUME NEW N \in 0..Len(h)
      PROVE  LET b == IF N = 0 THEN 0 ELSE h[N].start + Len(h[N].toks)
             IN b \in 0..Len(t) /\ FlattenSeq([j \in 1..N |-> h[j].toks]) = SubSeq(t, 1, b)
  <2> DEFINE end(i) == IF i = 0 THEN 0 ELSE h[i].start + Len(h[i].toks)
             b == end(N)
             u == SubSeq(t, 1, b)
             e == [i \in 0..N |-> end(i)]
             ss == [j \in 1..N |-> h[j].toks]
  <2>1. ASSUME NEW i \in 1..Len(h)
        PROVE  /\ end(i) \in 0..Len(t) /\ h[i].toks \in Seq(Token) /\ Len(h[i].toks) \in Nat
               /\ h[i].start \in Nat /\ h[i].start = end(i - 1)
               /\ end(i) = h[i].start + Len(h[i].toks)
    BY TileBounds
  <2> HIDE DEF end
  <2>2. end(0) = 0
    BY DEF end
  <2>3. ASSUME NEW i \in 0..N PROVE end(i) \in 0..b /\ b \in 0..Len(t)
    <3> DEFINE Bad == {k \in 0..Len(h) : k >= i /\ end(i) > end(k)}
    <3>1. Bad = {}
      <4> SUFFICES ASSUME Bad # {} PROVE FALSE
        OBVIOUS
      <4>1. PICK x \in Bad : \A y \in Bad : x <= y
        <5>1. Bad \subseteq Nat
          OBVIOUS
        <5> QED BY <5>1, Least
      <4>2. i \in 0..Len(h) /\ end(i) \in Nat
        BY <2>1, <2>2, i = 0 \/ i \in 1..Len(h)
      <4>3. x \in 1..Len(h) /\ x > i /\ x - 1 \in 0..Len(h) /\ x - 1 >= i /\ ~(x <= x - 1)
        BY <4>1, <4>2
      <4>4. x - 1 \notin Bad
        <5> HIDE DEF Bad
        <5> QED BY <4>1, <4>3
      <4>5. end(i) <= end(x - 1)
        <5>1. end(x - 1) \in Nat
          BY <2>1, <2>2, <4>3, x - 1 = 0 \/ x - 1 \in 1..Len(h)
        <5> QED BY <4>2, <4>3, <4>4, <5>1
      <4>6. end(x) = end(x - 1) + Len(h[x].toks) /\ Len(h[x].toks) \in Nat /\ end(x) \in Nat
        BY <2>1, <4>3
      <4>7. end(x - 1) \in Nat
        BY <2>1, <2>2, <4>3, x - 1 = 0 \/ x - 1 \in 1..Len(h)
      <4> QED BY <4>1, <4>2, <4>5, <4>6, <4>7
    <3>2. b \in 0..Len(t) /\ end(i) \in Nat
      BY <2>1, <2>2, <1>1, N = 0 \/ N \in 1..Len(h), i = 0 \/ i \in 1..Len(h)
    <3>3. N \notin Bad /\ N \in 0..Len(h) /\ N >= i
      BY <3>1
    <3> QED BY <3>2, <3>3
  <2>4. N \in 0..N
    OBVIOUS
  <2>5. b \in 0..Len(t)
    BY <2>3, <2>4
  <2> HIDE DEF b
  <2>6. u \in Seq(Token) /\ Len(u) = b /\ \A j \in 1..b : u[j] = t[j]
    BY <2>5, Taken
  <2> HIDE DEF u
  <2>7. e \in [0..N -> 0..Len(u)] /\ e[0] = 0 /\ e[N] = Len(u)
    BY <2>2, <2>3, <2>6, <2>4 DEF b
  <2>8. ss \in [1..N -> Seq(Token)]
    BY <2>1
  <2>9. ASSUME NEW i \in 1..N
        PROVE  /\ e[i] = e[i - 1] + Len(ss[i])
               /\ \A j \in 1..Len(ss[i]) : ss[i][j] = u[e[i - 1] + j]
    <3>1. i \in 1..Len(h) /\ i \in 0..N /\ i - 1 \in 0..N
      OBVIOUS
    <3>2. e[i] = end(i) /\ e[i - 1] = h[i].start /\ ss[i] = h[i].toks
      BY <2>1, <3>1
    <3>3. end(i) = h[i].start + Len(h[i].toks) /\ h[i].start \in Nat /\ Len(h[i].toks) \in Nat
          /\ end(i) \in 0..b /\ b \in Nat
      BY <2>1, <2>3, <2>5, <3>1
    <3>4. \A j \in 1..Len(h[i].toks) : h[i].toks[j] = t[h[i].start + j]
      BY <3>1 DEF Tiles
    <3> HIDE DEF e, ss
    <3>5. ASSUME NEW j \in 1..Len(h[i].toks) PROVE h[i].toks[j] = u[h[i].start + j]
      <4>1. h[i].start + j \in 1..b
        BY <3>3
      <4> QED BY <2>6, <3>4, <4>1
    <3> QED BY <3>2, <3>3, <3>5
  <2> HIDE DEF e, ss
  <2>10. FlattenSeq(ss) = u
    <3>1. N \in Nat
      BY <1>1
    <3> QED BY <2>6, <2>7, <2>8, <2>9, <3>1, Flattened
  <2> QED BY <2>5, <2>10 DEF ss, u, b, end
<1>3. FlattenSeq([i \in 1..Len(h) |-> h[i].toks]) = t
  <2> DEFINE N == Len(h)
             b == IF N = 0 THEN 0 ELSE h[N].start + Len(h[N].toks)
  <2>1. N \in 0..Len(h) /\ (N = 0 <=> h = <<>>)
    BY <1>1, Empty
  <2>2. b = Len(t)
    BY <2>1 DEF Tiles
  <2>3. FlattenSeq([j \in 1..N |-> h[j].toks]) = SubSeq(t, 1, b)
    BY <1>2, <2>1
  <2>4. SubSeq(t, 1, Len(t)) = t
    OBVIOUS
  <2> QED BY <2>2, <2>3, <2>4
<1>4. ASSUME NEW i \in 1..Len(h)
      PROVE  h[i].start = Len(FlattenSeq([j \in 1..i - 1 |-> h[j].toks]))
  <2> DEFINE N == i - 1
             b == IF N = 0 THEN 0 ELSE h[N].start + Len(h[N].toks)
  <2>1. N \in 0..Len(h) /\ h[i].start = b
    BY TileBounds
  <2>2. b \in 0..Len(t) /\ FlattenSeq([j \in 1..N |-> h[j].toks]) = SubSeq(t, 1, b)
    BY <1>2, <2>1
  <2> HIDE DEF N, b
  <2>3. Len(SubSeq(t, 1, b)) = b
    BY <2>2, Taken
  <2> QED BY <2>1, <2>2, <2>3 DEF N
<1> QED BY <1>1, <1>3, <1>4
=============================================================================
