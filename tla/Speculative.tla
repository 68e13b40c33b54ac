---------------------------- MODULE Speculative ----------------------------
(***************************************************************************)
(* Speculative decoding (commonnet/speculative.py) and the plain loop of   *)
(* commonnet/client.py, which is the case without drafts.  A drafter       *)
(* proposes tokens, one trip over the route checks them all, the caches of *)
(* the route are rolled back to what was right, and the number of drafts   *)
(* adapts.  Positions and caches count from the end of the prompt.         *)
(*                                                                         *)
(* The drafter is arbitrary.  The network is its argmax: `answer` on its   *)
(* own text, arbitrary after any other.                                    *)
(***************************************************************************)
EXTENDS Integers, Sequences

CONSTANTS
  Vocab, Stop,
  MaxNew,      \* max_new_tokens
  K            \* drafts asked for at first

VARIABLES
  answer, said, ended,    \* as in Greedy
  mode,     \* "speculative" or "plain"
  pc,
  last,     \* the token to yield next, and to feed
  drafts, reply,          \* the reply of the last trip: an argmax per position fed
  m, taken,               \* drafts accepted, and how many of them were yielded
  pos,      \* tokens the caches are to hold before the next trip
  cache,    \* what they hold, and the rollback that the next trip carries (-1: none)
  cut,
  k,        \* cur_k
  trips,
  toks, kv  \* the drafter's record of its cache, and the cache

vars == <<answer, said, ended, mode, pc, last, drafts, reply, m, taken, pos, cache, cut, k,
          trips, toks, kv>>
drafter == <<toks, kv>>
round == <<drafts, reply, m>>
route == <<pos, cache, cut, k, trips>>

Lower(a, b) == IF a <= b THEN a ELSE b
Higher(a, b) == IF a >= b THEN a ELSE b

Init == /\ answer \in [1..MaxNew + 1 -> Vocab] /\ said = <<>> /\ ended = "no"
        /\ mode \in {"speculative", "plain"} /\ pc = "prefill"
        /\ last \in Stop /\ drafts = <<>> /\ reply = <<>> /\ m = 0 /\ taken = 0
        /\ pos = 0 /\ cache = <<>> /\ cut = -1 /\ k = K /\ trips = 0
        /\ toks = <<>> /\ kv = <<>>

Running(at) == ended = "no" /\ pc = at

\* The prompt, whose last position gives the first token.
Prefill == /\ Running("prefill") /\ pc' = "last"
           /\ last' = answer[1] /\ trips' = 1
           /\ UNCHANGED <<answer, said, ended, mode, round, taken, pos, cache, cut, k, drafter>>

YieldLast == /\ Running("last") /\ Len(said) < MaxNew /\ last \notin Stop
             /\ said' = Append(said, last) /\ pc' = "draft"
             /\ UNCHANGED <<answer, ended, mode, last, round, taken, route, drafter>>

\* propose, with the drafter's own cache cut back to what it shares with the context.
Common(a, b) == CHOOSE n \in 0..Lower(Len(a), Len(b)) :
                  /\ SubSeq(a, 1, n) = SubSeq(b, 1, n)
                  /\ n < Lower(Len(a), Len(b)) => a[n + 1] # b[n + 1]
Propose(ds) ==
  LET common == Lower(Common(toks, said), Len(said) - 1)
      fed == SubSeq(said, common + 1, Len(said)) \o SubSeq(ds, 1, Len(ds) - 1)
  IN /\ toks' = SubSeq(toks, 1, common) \o fed
     /\ kv' = SubSeq(kv, 1, Len(kv) - (Len(toks) - common)) \o fed
DraftPastEnd ==
  /\ Running("draft") /\ Len(said) < MaxNew /\ pc' = "verify"
  /\ IF mode = "plain" THEN drafts' = <<>> /\ UNCHANGED drafter
     ELSE \E ds \in [1..k -> Vocab] : drafts' = ds /\ Propose(ds)
  /\ UNCHANGED <<answer, said, ended, mode, last, reply, m, taken, route>>
\* Never draft past the end.
Draft ==
  /\ Running("draft") /\ Len(said) < MaxNew /\ pc' = "verify"
  /\ IF mode = "plain" THEN drafts' = <<>> /\ UNCHANGED drafter
     ELSE \E ds \in [1..Lower(k, MaxNew - Len(said)) -> Vocab] : drafts' = ds /\ Propose(ds)
  /\ UNCHANGED <<answer, said, ended, mode, last, reply, m, taken, route>>

\* One trip with `last` and the drafts at position pos.  A stage first applies the rollback,
\* and refuses a position that is not the end of its cache.
Base == IF cut = -1 THEN Len(cache) ELSE cut
Fed == [j \in 1..Len(drafts) + 1 |-> IF j = 1 THEN last ELSE drafts[j - 1]]
Holds == [j \in 1..pos + Len(drafts) + 1 |-> IF j <= pos THEN cache[j] ELSE Fed[j - pos]]
OnText(c, n) == \A j \in 1..n : c[j] = answer[j]
Replies == {g \in [1..Len(drafts) + 1 -> Vocab] :
              \A j \in DOMAIN g : OnText(Holds, pos + j) => g[j] = answer[pos + j + 1]}
Trip == /\ Running("verify") /\ Base = pos /\ pc' = "accept"
        /\ reply' \in Replies
        /\ cache' = Holds /\ cut' = -1 /\ trips' = trips + 1
        /\ UNCHANGED <<answer, said, ended, mode, last, drafts, m, taken, pos, k, drafter>>

\* The longest prefix of the drafts that the reply confirms.
Confirms(n) == /\ n \in 0..Len(drafts) /\ \A j \in 1..n : drafts[j] = reply[j]
               /\ n < Len(drafts) => drafts[n + 1] # reply[n + 1]
\* A share accepted below ADAPT_LOW halves the next draft, a full one doubles it.
Adapted(n) == IF Len(drafts) > 0 /\ 10 * n < 3 * Len(drafts) THEN Higher(1, k \div 2)
              ELSE IF n = Len(drafts) THEN Lower(K, 2 * k) ELSE k
AcceptAndKeep(n) ==
  /\ Running("accept") /\ Confirms(n) /\ pc' = "take"
  /\ m' = n /\ taken' = 0 /\ last' = reply[n + 1]
  /\ UNCHANGED cut
  /\ pos' = pos + 1 + n /\ k' = Adapted(n)
  /\ UNCHANGED <<answer, said, ended, mode, drafts, reply, cache, trips, drafter>>
AcceptOneMore(n) ==
  /\ Running("accept") /\ Confirms(n) /\ pc' = "take"
  /\ m' = Lower(n + 1, Len(drafts)) /\ taken' = 0 /\ last' = reply[m' + 1]
  /\ cut' = (IF m' < Len(drafts) THEN pos + 1 + m' ELSE -1)
  /\ pos' = pos + 1 + m' /\ k' = Adapted(n)
  /\ UNCHANGED <<answer, said, ended, mode, drafts, reply, cache, trips, drafter>>
Accept(n) ==
  /\ Running("accept") /\ Confirms(n) /\ pc' = "take"
  /\ m' = n /\ taken' = 0 /\ last' = reply[n + 1]
  /\ cut' = (IF n < Len(drafts) THEN pos + 1 + n ELSE -1)  \* _truncate_all
  /\ pos' = pos + 1 + n /\ k' = Adapted(n)
  /\ UNCHANGED <<answer, said, ended, mode, drafts, reply, cache, trips, drafter>>

YieldDraft == /\ Running("take") /\ taken < m /\ Len(said) < MaxNew
              /\ drafts[taken + 1] \notin Stop
              /\ said' = Append(said, drafts[taken + 1]) /\ taken' = taken + 1
              /\ UNCHANGED <<answer, ended, mode, pc, last, round, route, drafter>>
Taken == /\ Running("take") /\ taken = m /\ Len(said) < MaxNew /\ pc' = "last"
         /\ UNCHANGED <<answer, said, ended, mode, last, round, taken, route, drafter>>

\* Every token was yielded, or the next one is a stop.
Finish == /\ ended = "no" /\ ended' = "done"
          /\ \/ pc # "prefill" /\ Len(said) = MaxNew
             \/ pc = "last" /\ last \in Stop
             \/ pc = "take" /\ taken < m /\ drafts[taken + 1] \in Stop
          /\ UNCHANGED <<answer, said, mode, pc, last, round, taken, route, drafter>>
\* A trip fails, its verification is malformed, or the reader closes the generator.
Fail == /\ ended = "no" /\ ended' = "failed"
        /\ UNCHANGED <<answer, said, mode, pc, last, round, taken, route, drafter>>

Work == \/ Prefill \/ YieldLast \/ Draft \/ Trip \/ YieldDraft \/ Taken \/ Finish
        \/ \E n \in 0..K : Accept(n)
Next == Work \/ Fail
Spec == Init /\ [][Next]_vars /\ WF_vars(Work)

-----------------------------------------------------------------------------
\* Types of the state.
TypeOK == /\ said \in Seq(Vocab) /\ ended \in {"no", "done", "failed"}
          /\ pc \in {"prefill", "last", "draft", "verify", "accept", "take"}
          /\ last \in Vocab /\ drafts \in Seq(Vocab) /\ reply \in Seq(Vocab)
          /\ m \in 0..K /\ taken \in 0..m /\ k \in 1..K
          /\ pos \in 0..MaxNew + 1 /\ cache \in Seq(Vocab) /\ cut \in -1..MaxNew

\* Whatever the drafts were, the text is the one of plain greedy decoding ("the output is
\* exactly what plain greedy decoding gives", speculative.py 10).
Plainly == INSTANCE Greedy WITH answer <- answer, said <- said, ended <- ended
PlainText == Plainly!Spec

\* After the rollback that is due, the caches hold tokens of the answer and nothing else, up
\* to the position the next trip starts from.
CacheIsText == pc \notin {"accept"} => Base = pos /\ OnText(cache, Base)
\* No stage is fed beyond max_new_tokens, which is what a session reserves.
NeverPastEnd == Len(cache) <= MaxNew
\* A request takes no more trips than plain decoding of the same tokens would.
NeverSlower == trips <= Len(said) + 1
\* The drafter proposes over the text and its own drafts.
DraftsOverText == pc = "verify" /\ drafts # <<>> =>
                    kv = said \o SubSeq(drafts, 1, Len(drafts) - 1) /\ toks = kv
SpecSound == CacheIsText /\ NeverPastEnd /\ NeverSlower /\ DraftsOverText
\* The rollbacks, trips and drafts of speculative decoding.
DraftsSound == TypeOK /\ SpecSound

=============================================================================
