------------------------- MODULE ForwardRetryProofs -------------------------
(***************************************************************************)
(* What ForwardRetry shows on small instances, for every value of its      *)
(* constants: the type invariant, the two inductive invariants, and that   *)
(* every accepted reply is faithful in plain decoding whatever runs late,  *)
(* and in speculative decoding while nothing does.                         *)
(***************************************************************************)
EXTENDS ForwardRetry, RequestProofs, FiniteSetTheorems

\* A step is a non-empty sequence of tokens.
LEMMA PieceIsSeq ==
  ASSUME NEW p \in Pieces
  PROVE  p \in Seq(Token) /\ Len(p) \in Nat \ {0} /\ Len(p) <= MaxPiece
<1>1. PICK n \in 1..MaxPiece : p \in [1..n -> Token]
  BY DEF Pieces
<1>2. n \in Nat
  BY RetryAssumption
<1>3. Len(p) = n /\ p \in Seq(Token)
  BY <1>1, <1>2
<1> QED BY <1>1, <1>2, <1>3, RetryAssumption

-----------------------------------------------------------------------------
\* The type invariant.

\* Every variable keeps its type, whatever is lost, late, repeated or restarted.
THEOREM TypeCorrect == Spec => []TypeOK
<1>1. Init => TypeOK
  BY RequestTypes, RetryAssumption DEF Init, TypeOK, Answer
<1>2. TypeOK /\ [Next]_vars => TypeOK'
  <2> SUFFICES ASSUME TypeOK, [Next]_vars PROVE TypeOK'
    OBVIOUS
  <2> USE DEF TypeOK
  <2>0. ASSUME NEW kept \in Seq(Token), NEW refused, Feed(kept, refused)
        PROVE  req' \in Request /\ sends' = 0 /\ wait' = "idle" /\ outcome' = "running"
    <3>1. PICK toks \in Pieces :
            Call(ForwardRequest(Len(kept), toks, IF refused = <<>> THEN NoCut ELSE Len(kept)))
      BY <2>0 DEF Feed
    <3>2. Len(kept) \in Nat /\ toks \in Seq(Token)
      BY PieceIsSeq
    <3>3. req' \in Request
      BY <3>1, <3>2, RequestTypes DEF Call
    <3> QED BY <2>0, <3>1, <3>3 DEF Feed, Call
  <2>1. ASSUME NEW how, Stop(how)
        PROVE  req' \in Request /\ sends' = 0 /\ wait' = "idle" /\ outcome' = how
    BY <2>1, RequestTypes DEF Stop, Call
  <2>2. CASE Send
    BY <2>2, RetryAssumption DEF Send, netVars, textVars
  <2>3. CASE Serve
    BY <2>3, HandleType DEF Serve, netVars, textVars
  <2>4. CASE Lose
    BY <2>4 DEF Lose, netVars, textVars
  <2>5. CASE TimeOut
    BY <2>5 DEF TimeOut, textVars
  <2>6. CASE Crash
    BY <2>6, RequestTypes, RetryAssumption DEF Crash, textVars
  <2>7. ASSUME NEW m \in late, ServeLate(m) PROVE TypeOK'
    BY <2>7, HandleType DEF ServeLate, textVars
  <2>8. CASE Opened
    BY <2>8, <2>0, RetryAssumption DEF Opened, netVars
  <2>9. ASSUME NEW n \in 1..MaxLen, Accept(n) PROVE TypeOK'
    <3> DEFINE full == text \o req.toks
    <3>1. full \in Seq(Token)
      BY Joined DEF Request
    <3>2. n \in 0..Len(full)
      BY <2>9 DEF Accept
    <3>3. SubSeq(full, 1, n) \in Seq(Token)
      BY <3>1, <3>2, Taken
    <3>4. req' \in Request /\ sends' = 0 /\ wait' = "idle" /\ outcome' \in {"running", "done"}
      BY <2>9, <2>0, <2>1, <3>3 DEF Accept
    <3>5. text' \in Seq(Token) /\ seen' \in Seq(Token)
      BY <2>9, <3>3 DEF Accept, Answer
    <3> QED BY <2>9, <3>4, <3>5, RetryAssumption DEF Accept, netVars
  <2>10. CASE Fail
    BY <2>10, <2>1, RetryAssumption DEF Fail, netVars
  <2>11. CASE Closed
    BY <2>11 DEF Closed, netVars, textVars
  <2>12. CASE UNCHANGED vars
    BY <2>12 DEF vars, netVars, textVars
  <2> QED BY <2>2, <2>3, <2>4, <2>5, <2>6, <2>7, <2>8, <2>9, <2>10, <2>11, <2>12
      DEF Next, Client
<1> QED BY <1>1, <1>2, PTL DEF Spec

-----------------------------------------------------------------------------
\* Plain decoding.

\* What is in its place stays so as the text grows.
LEMMA GrowingText ==
  ASSUME NEW f \in Seq(Token), NEW g \in Seq(Token), Prefix(f, g)
  PROVE  /\ \A r \in Request : InPlace(r, f) => InPlace(r, g)
         /\ \A s \in Session : InStep(s, f) => InStep(s, g)
<1>1. \A p \in Seq(Token) : Prefix(p, f) => Prefix(p, g)
  BY DEF Prefix
<1>2. ASSUME NEW r \in Request, InPlace(r, f) PROVE InPlace(r, g)
  <2>1. SUFFICES ASSUME r.op = "forward"
                 PROVE  /\ r.cut = NoCut /\ r.start + Len(r.toks) <= Len(g)
                        /\ \A i \in 1..Len(r.toks) : r.toks[i] = g[r.start + i]
    BY DEF InPlace
  <2>2. r.start \in Nat /\ Len(r.toks) \in Nat /\ Len(f) <= Len(g)
    BY DEF Request, Prefix
  <2>3. r.cut = NoCut /\ r.start + Len(r.toks) <= Len(f)
    BY <1>2, <2>1 DEF InPlace
  <2>4. ASSUME NEW i \in 1..Len(r.toks) PROVE r.toks[i] = g[r.start + i]
    <3>1. r.start + i \in 1..Len(f)
      BY <2>2, <2>3
    <3> QED BY <1>2, <2>1, <3>1 DEF InPlace, Prefix
  <2> QED BY <2>2, <2>3, <2>4
<1>3. ASSUME NEW s \in Session, InStep(s, f) PROVE InStep(s, g)
  <2>1. Prefix(s.kv, g)
    BY <1>1, <1>3 DEF InStep, Session
  <2>2. ASSUME NEW l \in s.last
        PROVE  /\ l.key.op = "forward" /\ InPlace(l.key, g)
               /\ Len(l.out) = l.key.start + Len(l.key.toks) /\ Prefix(l.out, g)
    <3>1. l.key \in Request /\ l.out \in Seq(Token)
      BY DEF Session
    <3> QED BY <1>1, <1>2, <1>3, <3>1 DEF InStep
  <2> QED BY <2>1, <2>2 DEF InStep
<1> QED BY <1>2, <1>3

\* A handler given a request in its place keeps the session in step, and
\* answers a forward over the text up to the end of its step.
LEMMA HandleInStep ==
  ASSUME NEW s \in Session, NEW r \in Request, NEW f \in Seq(Token),
         InPlace(r, f), InStep(s, f)
  PROVE  /\ InStep(Handle(s, r).session, f)
         /\ r.op = "forward" /\ Handle(s, r).answer.status = 200
            => /\ Prefix(Handle(s, r).answer.out, f)
               /\ Len(Handle(s, r).answer.out) = r.start + Len(r.toks)
<1>1. CASE r.op = "open"
  <2>1. Handle(s, r) = OpenSession(s)
    BY <1>1 DEF Handle
  <2>2. InStep([open |-> TRUE, kv |-> <<>>, last |-> {}], f)
    BY DEF InStep, Prefix
  <2> QED BY <1>1, <2>1, <2>2 DEF OpenSession, Reply
<1>2. CASE r.op = "close"
  <2>1. Handle(s, r) = CloseSession(s)
    BY <1>2 DEF Handle
  <2>2. InStep(NoSession, f)
    BY DEF InStep, Prefix, NoSession
  <2> QED BY <1>2, <2>1, <2>2 DEF CloseSession, Reply
<1>3. CASE r.op = "forward"
  <2>1. Handle(s, r) = ForwardSession(s, r)
    BY <1>3 DEF Handle
  <2>2. CASE ~s.open
    BY <2>1, <2>2 DEF ForwardSession, Reply
  <2>3. CASE s.open /\ Saved(s, r) # {}
    <3> DEFINE l == CHOOSE x \in Saved(s, r) : TRUE
    <3>1. l \in s.last /\ l.key = r
      BY <2>3 DEF Saved
    <3>2. Handle(s, r) = Reply(s, 200, l.out)
      BY <2>1, <2>3 DEF ForwardSession
    <3> HIDE DEF l
    <3> QED BY <3>1, <3>2 DEF InStep, Reply
  <2>4. CASE s.open /\ Saved(s, r) = {}
    <3> DEFINE out == BlockWrite(s.kv, r)
    <3>1. Handle(s, r) = IF BlockAccepts(s.kv, r.start)
            THEN Reply([open |-> TRUE, kv |-> out, last |-> {[key |-> r, out |-> out]}], 200, out)
            ELSE Reply([open |-> s.open, kv |-> s.kv, last |-> s.last], 500, <<>>)
      BY <1>3, <2>1, <2>4 DEF ForwardSession, RunForward, InPlace
    <3>2. CASE BlockAccepts(s.kv, r.start)
      <4> DEFINE base == IF r.start = 0 THEN <<>> ELSE s.kv
      <4>1. base \in Seq(Token) /\ Len(base) = r.start /\ r.toks \in Seq(Token)
        BY <3>2 DEF BlockAccepts, Session, Request
      <4>2. \A i \in 1..Len(base) : base[i] = f[i]
        BY DEF InStep, Prefix
      <4>3. out = base \o r.toks
        BY DEF BlockWrite
      <4> HIDE DEF base, out
      <4>4. /\ out \in Seq(Token) /\ Len(out) = r.start + Len(r.toks)
            /\ \A i \in 1..Len(base) : out[i] = base[i]
            /\ \A i \in 1..Len(r.toks) : out[Len(base) + i] = r.toks[i]
        <5>1. /\ base \o r.toks \in Seq(Token)
              /\ Len(base \o r.toks) = Len(base) + Len(r.toks)
              /\ \A i \in 1..Len(base) : (base \o r.toks)[i] = base[i]
              /\ \A i \in 1..Len(r.toks) : (base \o r.toks)[Len(base) + i] = r.toks[i]
          <6>1. \A p, t \in Seq(Token) :
                  /\ p \o t \in Seq(Token) /\ Len(p \o t) = Len(p) + Len(t)
                  /\ \A i \in 1..Len(p) : (p \o t)[i] = p[i]
                  /\ \A i \in 1..Len(t) : (p \o t)[Len(p) + i] = t[i]
            BY Joined
          <6> QED BY <4>1, <6>1
        <5> QED BY <4>1, <4>3, <5>1
      <4>5. Prefix(out, f)
        <5>1. Len(out) <= Len(f)
          BY <1>3, <4>4 DEF InPlace
        <5>2. ASSUME NEW i \in 1..Len(out) PROVE out[i] = f[i]
          <6>1. CASE i <= Len(base)
            BY <4>1, <4>2, <4>4, <6>1
          <6>2. CASE i > Len(base)
            <7>1. i - Len(base) \in 1..Len(r.toks)
              BY <4>1, <4>4, <6>2
            <7>2. out[Len(base) + (i - Len(base))] = r.toks[i - Len(base)]
              BY <4>4, <7>1
            <7>3. r.toks[i - Len(base)] = f[r.start + (i - Len(base))]
              BY <1>3, <7>1 DEF InPlace
            <7> QED BY <4>1, <4>4, <7>2, <7>3
          <6> QED BY <4>1, <4>4, <6>1, <6>2
        <5> QED BY <5>1, <5>2 DEF Prefix
      <4>6. InStep([open |-> TRUE, kv |-> out, last |-> {[key |-> r, out |-> out]}], f)
        BY <1>3, <4>4, <4>5 DEF InStep
      <4> QED BY <3>1, <3>2, <4>4, <4>5, <4>6 DEF Reply
    <3>3. CASE ~BlockAccepts(s.kv, r.start)
      <4>1. InStep([open |-> s.open, kv |-> s.kv, last |-> s.last], f)
        BY DEF InStep
      <4> HIDE DEF out
      <4> QED BY <3>1, <3>3, <4>1 DEF Reply
    <3> QED BY <3>2, <3>3
  <2> QED BY <2>2, <2>3, <2>4
<1> QED BY <1>1, <1>2, <1>3 DEF Request

\* What the loop feeds next.
LEMMA Fed ==
  ASSUME NEW kept \in Seq(Token), NEW refused, Feed(kept, refused)
  PROVE  /\ \E toks \in Pieces :
              req' = ForwardRequest(Len(kept), toks,
                                    IF refused = <<>> THEN NoCut ELSE Len(kept))
         /\ sends' = 0 /\ wait' = "idle" /\ outcome' = "running"
  BY DEF Feed, Call

\* Feeding the next piece with nothing dropped keeps everything in its place.
LEMMA FedInPlace ==
  ASSUME NEW f \in Seq(Token), text' = f, Feed(f, <<>>),
         \A m \in late : m.req \in Request /\ InPlace(m.req, f),
         srv \in Session, InStep(srv, f),
         UNCHANGED <<late, srv>>
  PROVE  PlainInv'
<1>1. PICK toks \in Pieces : req' = ForwardRequest(Len(f), toks, NoCut)
  BY Fed
<1>2. toks \in Seq(Token)
  BY PieceIsSeq
<1> DEFINE g == f \o toks
<1>3. g = (text \o req.toks)'
  BY <1>1 DEF ForwardRequest
<1>4. g \in Seq(Token) /\ Prefix(f, g) /\ Len(g) = Len(f) + Len(toks)
      /\ \A i \in 1..Len(toks) : toks[i] = g[Len(f) + i]
  BY <1>2, Joined DEF Prefix
<1>5. InPlace(req', g)
  BY <1>1, <1>2, <1>4 DEF InPlace, ForwardRequest
<1> HIDE DEF g
<1>6. \A m \in late' : InPlace(m.req, g)
  BY <1>4, GrowingText
<1>7. InStep(srv', g)
  BY <1>4, GrowingText
<1>8. wait' = "idle" /\ outcome' = "running"
  BY Fed
<1>9. req'.op = "forward" /\ req'.start = Len(text') /\ req'.toks \in Pieces
  BY <1>1 DEF ForwardRequest
<1> QED BY <1>3, <1>5, <1>6, <1>7, <1>8, <1>9 DEF PlainInv, AcceptedFaithful, Answered

\* The mode of a request is chosen once.
LEMMA SameMode ==
  ASSUME [Next]_vars
  PROVE  mode' = mode
BY DEF Next, Client, Send, Opened, Accept, Fail, Closed, Serve, Lose, TimeOut, Crash,
   ServeLate, vars, netVars

\* PlainInv is inductive in plain decoding.
LEMMA PlainStep ==
  ASSUME ~mode.drafts, TypeOK, PlainInv, [Next]_vars
  PROVE  PlainInv'
<1> USE DEF PlainInv
<1> DEFINE full == text \o req.toks
<1>1. full \in Seq(Token) /\ Len(full) = Len(text) + Len(req.toks)
  BY Joined DEF TypeOK, Request
<1>2. CASE outcome # "running"
  <2>1. req'.op = "close" /\ outcome' # "running"
    BY <1>2 DEF TypeOK, Next, Client, Send, Serve, Lose, TimeOut, Crash, ServeLate,
       Opened, Accept, Fail, Closed, vars, netVars, textVars
  <2> QED BY <2>1
<1>3. CASE outcome = "running"
  <2> USE <1>3
  <2>1. CASE Send
    BY <2>1 DEF Send, netVars, textVars, AcceptedFaithful, Answered
  <2>2. CASE Serve
    <3>1. InPlace(req, full) /\ InStep(srv, full)
      OBVIOUS
    <3> HIDE DEF full
    <3>2. /\ InStep(srv', full)
          /\ req.op = "forward" /\ answer'.status = 200
             => Prefix(answer'.out, full) /\ Len(answer'.out) = req.start + Len(req.toks)
      BY <1>1, <2>2, <3>1, HandleInStep DEF Serve, TypeOK
    <3>3. answer'.out \in Seq(Token)
      BY <2>2, HandleType DEF Serve, TypeOK, Answer
    <3>4. req.op = "forward" /\ answer'.status = 200 => answer'.out = full
      BY <1>1, <3>2, <3>3, SameSeq DEF Prefix
    <3>5. full' = full
      BY <2>2 DEF Serve, textVars, full
    <3> QED BY <2>2, <3>2, <3>4, <3>5
        DEF Serve, netVars, textVars, AcceptedFaithful, Answered, full
  <2>3. CASE Lose
    BY <2>3 DEF Lose, netVars, textVars, AcceptedFaithful, Answered
  <2>4. CASE TimeOut
    BY <2>4 DEF TimeOut, textVars, AcceptedFaithful, Answered
  <2>5. ASSUME NEW m \in late, ServeLate(m) PROVE PlainInv'
    <3>1. InPlace(m.req, full) /\ InStep(srv, full)
      OBVIOUS
    <3> HIDE DEF full
    <3>2. InStep(srv', full)
      BY <1>1, <2>5, <3>1, HandleInStep DEF ServeLate, TypeOK
    <3> QED BY <2>5, <3>2 DEF ServeLate, textVars, AcceptedFaithful, Answered, full
  <2>6. CASE Crash
    <3>1. InStep(srv', full)
      BY <1>1, <2>6 DEF Crash, InStep, NoSession, Prefix
    <3> QED BY <2>6, <3>1 DEF Crash, textVars, AcceptedFaithful, Answered
  <2>7. CASE Opened
    <3>1. text = <<>> /\ full = text
      BY <2>7, <1>1 DEF Opened, OpenRequest, TypeOK
    <3>2. \A m \in late : m.req \in Request /\ InPlace(m.req, text)
      BY <3>1 DEF TypeOK
    <3>3. InStep(srv, text)
      BY <3>1
    <3> QED BY <2>7, <3>2, <3>3, FedInPlace DEF Opened, netVars, TypeOK
  <2>8. ASSUME NEW n \in 1..MaxLen, Accept(n) PROVE PlainInv'
    <3>1. n = Len(full)
      BY <1>1, <2>8 DEF Accept
    <3>2. SubSeq(full, 1, n) = full /\ SubSeq(full, n + 1, Len(full)) = <<>>
      BY <1>1, <3>1
    <3>3. text' = full /\ (Feed(full, <<>>) \/ Stop("done")) /\ UNCHANGED <<late, srv>>
      BY <2>8, <3>2 DEF Accept, netVars
    <3>4. CASE Feed(full, <<>>)
      <4>1. \A m \in late : m.req \in Request /\ InPlace(m.req, full)
        BY DEF TypeOK
      <4>2. InStep(srv, full)
        OBVIOUS
      <4> HIDE DEF full, PlainInv
      <4> QED BY <1>1, <3>3, <3>4, <4>1, <4>2, FedInPlace DEF TypeOK
    <3>5. CASE Stop("done")
      BY <3>5 DEF Stop, Call, CloseRequest
    <3> QED BY <3>3, <3>4, <3>5
  <2>9. CASE Fail
    BY <2>9 DEF Fail, Stop, Call, CloseRequest
  <2>10. CASE Closed
    BY <2>10 DEF Closed
  <2>11. CASE UNCHANGED vars
    BY <2>11 DEF vars, netVars, textVars, AcceptedFaithful, Answered
  <2> QED BY <2>1, <2>2, <2>3, <2>4, <2>5, <2>6, <2>7, <2>8, <2>9, <2>10, <2>11
      DEF Next, Client
<1> QED BY <1>2, <1>3

\* Without drafts PlainInv is an invariant of the whole request.
LEMMA PlainAlways == Spec => [](~mode.drafts => PlainInv)
<1>1. Init => PlainInv
  <2> SUFFICES ASSUME Init PROVE PlainInv
    OBVIOUS
  <2>1. text \o req.toks = <<>>
    BY DEF Init, OpenRequest
  <2>2. InStep(srv, <<>>)
    BY DEF Init, InStep, NoSession, Prefix
  <2> QED BY <2>1, <2>2 DEF Init, PlainInv, OpenRequest, InPlace, AcceptedFaithful, Answered
<1>2. TypeOK /\ (~mode.drafts => PlainInv) /\ [Next]_vars
      => (~mode.drafts => PlainInv)'
  BY PlainStep, SameMode
<1> QED BY <1>1, <1>2, TypeCorrect, PTL DEF Spec

-----------------------------------------------------------------------------
\* Attempts served in the order they were sent, with drafts.

\* The cut that rides on a step leaves the cache at the text it was cut to.
LEMMA CutToText ==
  ASSUME TypeOK, Before, req.op = "forward", req.cut \in {NoCut, Len(text)}
  PROVE  (IF req.cut = NoCut THEN srv.kv ELSE CutBack(srv.kv, req.cut)) = text
<1> DEFINE kv == IF req.cut = NoCut THEN srv.kv ELSE CutBack(srv.kv, req.cut)
<1>1. srv.kv \in Seq(Token) /\ text \in Seq(Token) /\ Len(text) \in Nat
  BY DEF TypeOK, Session
<1>2. CASE req.cut = NoCut
  BY <1>1, <1>2, SameSeq DEF Before, Prefix
<1>3. CASE req.cut # NoCut
  <2>1. kv = CutBack(srv.kv, Len(text)) /\ Len(srv.kv) >= Len(text)
    BY <1>1, <1>3 DEF Before, Prefix
  <2>2. /\ kv \in Seq(Token) /\ Len(kv) = Len(text)
        /\ \A i \in 1..Len(kv) : kv[i] = srv.kv[i]
    <3>1. \A c \in Seq(Token) : \A k \in Nat : Len(c) >= k =>
            /\ CutBack(c, k) \in Seq(Token) /\ Len(CutBack(c, k)) = k
            /\ \A i \in 1..Len(CutBack(c, k)) : CutBack(c, k)[i] = c[i]
      BY CutBackPrefix
    <3> HIDE DEF kv
    <3> QED BY <1>1, <2>1, <3>1
  <2>3. \A i \in 1..Len(text) : srv.kv[i] = text[i]
    BY DEF Before, Prefix
  <2> HIDE DEF kv
  <2>4. kv = text
    BY <1>1, <2>2, <2>3, SameSeq
  <2> QED BY <2>4 DEF kv
<1> QED BY <1>2, <1>3

\* Before the step or after it, a forward that finds its session leaves it
\* after the step, with the faithful reply.
LEMMA ServeForward ==
  ASSUME TypeOK, req.op = "forward", req.start = Len(text),
         req.cut \in {NoCut, Len(text)}, srv.open, Before \/ After
  PROVE  /\ Handle(srv, req).session.open
         /\ Handle(srv, req).session.last = {[key |-> req, out |-> text \o req.toks]}
         /\ Handle(srv, req).session.kv = text \o req.toks
         /\ Handle(srv, req).answer = [status |-> 200, out |-> text \o req.toks]
<1> DEFINE full == text \o req.toks
<1> HIDE DEF full
<1>0. SUFFICES /\ Handle(srv, req).session.open
               /\ Handle(srv, req).session.last = {[key |-> req, out |-> full]}
               /\ Handle(srv, req).session.kv = full
               /\ Handle(srv, req).answer = [status |-> 200, out |-> full]
  BY DEF full
<1>1. Handle(srv, req) = ForwardSession(srv, req)
  BY DEF Handle
<1>2. CASE After
  <2>1. Saved(srv, req) = {[key |-> req, out |-> full]}
    BY <1>2 DEF After, Saved, full
  <2>2. srv.last = {[key |-> req, out |-> full]} /\ srv.kv = full
    BY <1>2 DEF After, full
  <2>3. Handle(srv, req) = Reply(srv, 200, full)
    <3> DEFINE l == CHOOSE x \in Saved(srv, req) : TRUE
    <3>1. l \in Saved(srv, req)
      BY <2>1
    <3>2. l.out = full
      BY <2>1, <3>1
    <3>3. Handle(srv, req) = Reply(srv, 200, l.out)
      BY <1>1, <2>1 DEF ForwardSession
    <3> QED BY <3>2, <3>3
  <2> QED BY <2>2, <2>3 DEF Reply
<1>3. CASE Before
  <2>1. Saved(srv, req) = {}
    BY <1>3 DEF Before, Saved
  <2>2. (IF req.cut = NoCut THEN srv.kv ELSE CutBack(srv.kv, req.cut)) = text
    BY <1>3, CutToText
  <2>3. text \in Seq(Token) /\ req.toks \in Seq(Token) /\ req.start = Len(text)
    BY DEF TypeOK, Request
  <2>4. BlockAccepts(text, req.start) /\ BlockWrite(text, req) = full
    <3>1. req.start = 0 => text = <<>>
      BY <2>3, Empty
    <3> QED BY <2>3, <3>1 DEF BlockAccepts, BlockWrite, full
  <2>5. Handle(srv, req)
          = Reply([open |-> TRUE, kv |-> full,
                   last |-> {[key |-> req, out |-> full]}],
                  200, full)
    BY <1>1, <2>1, <2>2, <2>4 DEF ForwardSession, RunForward
  <2> QED BY <2>5 DEF Reply
<1> QED BY <1>2, <1>3

\* InOrderInv is inductive while no abandoned attempt runs.
LEMMA InOrderStep ==
  ASSUME ~mode.late, TypeOK, InOrderInv, [Next]_vars
  PROVE  InOrderInv'
<1> DEFINE full == text \o req.toks
<1>0. full \in Seq(Token) /\ Len(full) = Len(text) + Len(req.toks)
      /\ text \in Seq(Token) /\ Len(text) \in Nat
  BY Joined DEF TypeOK, Request
<1>1. CASE Send
  BY <1>1 DEF Send, netVars, textVars, InOrderInv, RetriesNeverBreak,
     ClosedLeavesNothing, AcceptedFaithful, Answered, Before, After
<1>2. CASE Serve
  <2> USE <1>2 DEF Serve
  <2>1. UNCHANGED <<late, text, outcome, req>> /\ late = {}
    BY DEF netVars, textVars, InOrderInv
  <2>2. CASE req.op = "open"
    <3>1. Handle(srv, req) = OpenSession(srv)
      BY <2>2 DEF Handle
    <3>2. /\ srv'.open /\ answer'.status = 200
          /\ srv.kv = <<>> /\ srv.last = {} => srv'.kv = <<>> /\ srv'.last = {}
      BY <3>1 DEF OpenSession, Reply
    <3> QED BY <2>1, <2>2, <3>2 DEF InOrderInv, RetriesNeverBreak, ClosedLeavesNothing,
            AcceptedFaithful, Answered
  <2>3. CASE req.op = "close"
    <3>1. Handle(srv, req) = CloseSession(srv)
      BY <2>3 DEF Handle
    <3>2. srv' = NoSession /\ answer'.status = 200
      BY <3>1 DEF CloseSession, Reply
    <3> QED BY <2>1, <2>3, <3>2 DEF InOrderInv, RetriesNeverBreak, ClosedLeavesNothing,
            AcceptedFaithful, Answered
  <2>4. CASE req.op = "forward"
    <3>1. outcome = "running"
      BY <2>4 DEF InOrderInv
    <3>2. /\ req.start = Len(text) /\ req.toks \in Pieces
          /\ req.cut \in {NoCut, Len(text)} /\ (srv.open => Before \/ After)
      BY <2>4, <3>1 DEF InOrderInv
    <3>3. CASE ~srv.open
      <4>1. Handle(srv, req) = Reply(srv, 404, <<>>)
        BY <2>4, <3>3 DEF Handle, ForwardSession
      <4>2. srv' = srv /\ answer'.status = 404
        BY <4>1 DEF Reply
      <4> QED BY <2>1, <2>4, <3>1, <3>2, <3>3, <4>2 DEF InOrderInv, RetriesNeverBreak,
              ClosedLeavesNothing, AcceptedFaithful, Answered
    <3>4. CASE srv.open
      <4>1. /\ srv'.open /\ srv'.last = {[key |-> req, out |-> full]}
            /\ srv'.kv = full /\ answer' = [status |-> 200, out |-> full]
        BY <2>4, <3>2, <3>4, ServeForward
      <4>2. After'
        BY <2>1, <4>1 DEF After
      <4> QED BY <2>1, <2>4, <3>1, <3>2, <4>1, <4>2 DEF InOrderInv, RetriesNeverBreak,
              ClosedLeavesNothing, AcceptedFaithful, Answered
    <3> QED BY <3>3, <3>4
  <2> QED BY <2>2, <2>3, <2>4 DEF TypeOK, Request
<1>3. CASE Lose
  BY <1>3 DEF Lose, netVars, textVars, InOrderInv, RetriesNeverBreak,
     ClosedLeavesNothing, AcceptedFaithful, Answered, Before, After
<1>4. CASE TimeOut
  <2>1. Cardinality({}) = 0
    BY FS_EmptySet
  <2> QED BY <1>4, <2>1 DEF TimeOut, InOrderInv
<1>5. ASSUME NEW m \in late PROVE FALSE
  BY <1>5 DEF InOrderInv
<1>6. CASE Crash
  BY <1>6 DEF Crash, textVars, InOrderInv, RetriesNeverBreak, ClosedLeavesNothing,
     AcceptedFaithful, Answered, NoSession
<1>7. CASE Opened
  <2>1. /\ outcome = "running" /\ req.op = "open" /\ text = <<>>
        /\ srv.kv = <<>> /\ srv.last = {} /\ late = {}
        /\ (~srv.open => srv = NoSession)
    BY <1>7 DEF Opened, InOrderInv
  <2>2. Feed(text, <<>>) /\ UNCHANGED <<srv, late, text>>
    BY <1>7 DEF Opened, netVars
  <2>3. PICK toks \in Pieces : req' = ForwardRequest(Len(text), toks, NoCut)
    BY <1>0, <2>2, Fed
  <2>4. wait' = "idle" /\ outcome' = "running"
    BY <1>0, <2>2, Fed
  <2>5. Before'
    BY <2>1, <2>2 DEF Before, Prefix
  <2>6. /\ req'.op = "forward" /\ req'.start = Len(text') /\ req'.toks \in Pieces
        /\ req'.cut \in {NoCut, Len(text')}
    BY <2>2, <2>3 DEF ForwardRequest
  <2> QED BY <2>1, <2>2, <2>4, <2>5, <2>6 DEF InOrderInv, RetriesNeverBreak,
          ClosedLeavesNothing, AcceptedFaithful, Answered
<1>8. ASSUME NEW n \in 1..MaxLen, Accept(n) PROVE InOrderInv'
  <2> DEFINE kept == SubSeq(full, 1, n)
             refused == SubSeq(full, n + 1, Len(full))
  <2>1. /\ req.op = "forward" /\ outcome = "running" /\ After
        /\ req.start = Len(text) /\ late = {} /\ (~srv.open => srv = NoSession)
    BY <1>8 DEF Accept, InOrderInv
  <2>2. n \in Len(text) + 1 .. Len(full) /\ text' = kept /\ UNCHANGED <<srv, late>>
    BY <1>8 DEF Accept, netVars
  <2>3. kept \in Seq(Token) /\ Len(kept) = n /\ \A i \in 1..n : kept[i] = full[i]
    BY <1>0, <2>2, Taken
  <2>4. refused = <<>> <=> n = Len(full)
    <3>1. n \in 0..Len(full)
      BY <1>0, <2>2
    <3> HIDE DEF full
    <3> QED BY <1>0, <3>1, Rest
  <2>5. Feed(kept, refused) \/ Stop("done")
    BY <1>8 DEF Accept
  <2>6. CASE Stop("done")
    BY <2>1, <2>2, <2>6 DEF Stop, Call, CloseRequest, InOrderInv, RetriesNeverBreak,
       ClosedLeavesNothing, Answered
  <2>7. CASE Feed(kept, refused)
    <3> HIDE DEF kept, refused
    <3>1. PICK toks \in Pieces :
            req' = ForwardRequest(n, toks, IF refused = <<>> THEN NoCut ELSE n)
      BY <2>3, <2>7, Fed
    <3>2. wait' = "idle" /\ outcome' = "running"
      BY <2>3, <2>7, Fed
    <3>3. /\ req'.op = "forward" /\ req'.start = n /\ req'.toks \in Pieces
          /\ req'.cut = IF refused = <<>> THEN NoCut ELSE n
      BY <3>1 DEF ForwardRequest
    <3>4. req' # req
      BY <2>1, <2>2, <3>3, <1>0
    <3>5. srv'.kv = full /\ \A l \in srv'.last : l.key = req
      BY <2>1, <2>2 DEF After
    <3>6. Prefix(kept, full)
      BY <2>2, <2>3 DEF Prefix
    <3>7. Before'
      BY <2>2, <2>3, <2>4, <3>3, <3>4, <3>5, <3>6 DEF Before, NoCut
    <3> QED BY <2>1, <2>2, <2>3, <3>2, <3>3, <3>7 DEF InOrderInv, RetriesNeverBreak,
            ClosedLeavesNothing, AcceptedFaithful, Answered
  <2> QED BY <2>5, <2>6, <2>7
<1>9. CASE Fail
  BY <1>9 DEF Fail, Stop, Call, CloseRequest, netVars, InOrderInv, RetriesNeverBreak,
     ClosedLeavesNothing, Answered
<1>10. CASE Closed
  BY <1>10 DEF Closed, netVars, textVars, InOrderInv, RetriesNeverBreak,
     ClosedLeavesNothing, AcceptedFaithful, Answered
<1>11. CASE UNCHANGED vars
  BY <1>11 DEF vars, netVars, textVars, InOrderInv, RetriesNeverBreak,
     ClosedLeavesNothing, AcceptedFaithful, Answered, Before, After
<1> QED BY <1>1, <1>2, <1>3, <1>4, <1>5, <1>6, <1>7, <1>8, <1>9, <1>10, <1>11
    DEF Next, Client

\* Without late attempts InOrderInv is one.
LEMMA InOrderAlways == Spec => [](~mode.late => InOrderInv)
<1>1. Init => InOrderInv
  BY DEF Init, InOrderInv, OpenRequest, NoSession, RetriesNeverBreak,
     ClosedLeavesNothing, AcceptedFaithful, Answered
<1>2. TypeOK /\ (~mode.late => InOrderInv) /\ [Next]_vars
      => (~mode.late => InOrderInv)'
  BY InOrderStep, SameMode
<1> QED BY <1>1, <1>2, TypeCorrect, PTL DEF Spec

\* The promises of an in-order connection, for drafts too: a cache never behind
\* the text, no refusal, nothing left behind.
THEOREM InOrderSafe ==
  Spec => [](AcceptedKept /\ RetriesNeverBreak /\ ClosedLeavesNothing)
<1>1. (~mode.late => InOrderInv) => RetriesNeverBreak /\ ClosedLeavesNothing
  BY DEF InOrderInv, RetriesNeverBreak, ClosedLeavesNothing
<1>2. TypeOK /\ (~mode.late => InOrderInv) => AcceptedKept
  <2> SUFFICES ASSUME TypeOK, InOrderInv, outcome = "running", srv.kv # <<>>
               PROVE  Len(srv.kv) >= Len(text) /\ SubSeq(srv.kv, 1, Len(text)) = text
    BY DEF AcceptedKept
  <2>1. srv.kv \in Seq(Token) /\ text \in Seq(Token) /\ Len(text) \in Nat
    BY DEF TypeOK, Session
  <2>2. srv.open /\ req.op = "forward"
    BY DEF InOrderInv, NoSession, TypeOK, Request
  <2>3. Before \/ After
    BY <2>2 DEF InOrderInv
  <2>4. Prefix(text, srv.kv)
    <3>1. req.toks \in Seq(Token)
      BY DEF TypeOK, Request
    <3> QED BY <2>1, <2>3, <3>1, Joined DEF Before, After, Prefix
  <2> QED BY <2>1, <2>4, Taken, SameSeq DEF Prefix
<1> QED BY <1>1, <1>2, InOrderAlways, TypeCorrect, PTL


\* With the types, all that holds of the server and its cache in order.
THEOREM ServerSafe == Spec => []ServerSound
<1>1. TypeOK /\ (AcceptedKept /\ RetriesNeverBreak /\ ClosedLeavesNothing) => ServerSound
  BY DEF ServerSound
<1> QED BY <1>1, TypeCorrect, InOrderSafe, PTL

-----------------------------------------------------------------------------
\* The request, seen from the decoding loop, keeps the promise of Decoding.

\* What the mapping needs of a state.
LoopInv == /\ AcceptedFaithful
           /\ req.op = "forward" => req.toks \in Pieces
           /\ req.op # "close" => outcome = "running"

\* Every step of the requests is a step of the decoding loop, or leaves it as it is.
LEMMA LoopStep ==
  ASSUME TypeOK, LoopInv, [Next]_vars
  PROVE  [Loop!Next]_(Loop!vars)
<1> USE DEF Loop!vars
<1>1. CASE Send
  BY <1>1 DEF Send, textVars
<1>2. CASE Serve
  BY <1>2 DEF Serve, textVars
<1>3. CASE Lose
  BY <1>3 DEF Lose, textVars
<1>4. CASE TimeOut
  BY <1>4 DEF TimeOut, textVars
<1>5. ASSUME NEW m \in late, ServeLate(m) PROVE [Loop!Next]_(Loop!vars)
  BY <1>5 DEF ServeLate, textVars
<1>6. CASE Crash
  BY <1>6 DEF Crash, textVars
<1>7. CASE Opened
  <2>1. outcome' = "running" /\ outcome = "running" /\ UNCHANGED <<text, seen>>
    BY <1>7 DEF Opened, Feed, LoopInv
  <2> QED BY <2>1
<1>8. ASSUME NEW n \in 1..MaxLen, Accept(n) PROVE [Loop!Next]_(Loop!vars)
  <2>1. /\ req.toks \in Pieces /\ outcome = "running" /\ answer.out = text \o req.toks
        /\ text \in Seq(Token) /\ req.toks \in Seq(Token)
    BY <1>8 DEF Accept, LoopInv, AcceptedFaithful, TypeOK, Request
  <2>2. Len(text \o req.toks) = Len(text) + Len(req.toks)
    BY <2>1, Joined
  <2>3. outcome' \in {"running", "done"}
    BY <1>8 DEF Accept, Feed, Stop
  <2>4. Loop!Step(req.toks, n)
    BY <1>8, <2>1, <2>2, <2>3 DEF Accept, Loop!Step
  <2>5. n \in 1 .. Len(text) + Len(req.toks)
    BY <1>8, <2>1, <2>2 DEF Accept
  <2> QED BY <2>1, <2>4, <2>5 DEF Loop!Next
<1>9. CASE Fail
  BY <1>9 DEF Fail, Stop, Loop!Next, Loop!End
<1>10. CASE Closed
  BY <1>10 DEF Closed, textVars
<1>11. CASE UNCHANGED vars
  BY <1>11 DEF vars, textVars
<1> QED BY <1>1, <1>2, <1>3, <1>4, <1>5, <1>6, <1>7, <1>8, <1>9, <1>10, <1>11
    DEF Next, Client

\* No request both drops drafts and has attempts run late.
OneHazardAtMost == \A m \in Mode : ~(m.drafts /\ m.late)

\* With one hazard at most, what maps the state to that loop always holds.
LEMMA LoopAlways ==
  ASSUME OneHazardAtMost
  PROVE  Spec => []LoopInv
<1>1. TypeOK => ~mode.drafts \/ ~mode.late
  BY DEF OneHazardAtMost, TypeOK
<1>2. TypeOK /\ PlainInv => LoopInv
  BY DEF PlainInv, LoopInv, AcceptedFaithful, TypeOK, Request
<1>3. TypeOK /\ InOrderInv => LoopInv
  BY DEF InOrderInv, LoopInv, AcceptedFaithful, TypeOK, Request
<1> QED BY <1>1, <1>2, <1>3, PlainAlways, InOrderAlways, TypeCorrect, PTL

\* Every accepted reply is faithful: in plain decoding whatever is lost,
\* repeated, restarted or run late, and however late; with drafts, whatever is
\* lost, repeated or restarted.
THEOREM Faithful ==
  ASSUME OneHazardAtMost
  PROVE  Spec => []AcceptedFaithful
<1>1. LoopInv => AcceptedFaithful
  BY DEF LoopInv
<1> QED BY <1>1, LoopAlways, PTL

\* Retries, lost replies, restarts, cuts and, in plain decoding, attempts run
\* late do not show in what the loop decodes.
THEOREM KeepsPromise ==
  ASSUME OneHazardAtMost
  PROVE  Spec => LoopSpec
<1>1. Init => Loop!Init
  BY DEF Init, Loop!Init
<1>2. TypeOK /\ LoopInv /\ [Next]_vars => [Loop!Next]_(Loop!vars)
  BY LoopStep
<1> QED BY <1>1, <1>2, LoopAlways, TypeCorrect, PTL DEF Spec, LoopSpec, Loop!Spec
=============================================================================
