-------------------------- MODULE SpeculativeProofs --------------------------
(***************************************************************************)
(* Speculative decoding yields the text of plain greedy decoding, for      *)
(* every vocabulary, every drafter, every number of drafts and every       *)
(* length.                                                                 *)
(***************************************************************************)
EXTENDS Speculative, WellFoundedInduction, TLAPS

\* What the requests of the code satisfy: generate_stream returns at once when
\* max_new_tokens < 1, and refuses k < 1.
Request == MaxNew \in Nat \ {0} /\ K \in Nat \ {0}

\* The order of the numbers as a set of pairs, which the recursion on positions is founded on.
LEMMA NatOrder == \E R : /\ IsWellFoundedOn(R, Nat)
                         /\ \A y, x \in Nat : y < x => <<y, x>> \in R
<1>1. IsWellFoundedOn(OpToRel(<, Nat), Nat)
  BY NatLessThanWellFounded
<1>2. \A y, x \in Nat : y < x => <<y, x>> \in OpToRel(<, Nat)
  BY DEF OpToRel
<1> QED BY <1>1, <1>2, Zenon

\* A set of naturals has a least element: what stands for induction below.
LEMMA Least ==
  ASSUME NEW T, T \subseteq Nat, T # {}
  PROVE  \E x \in T : \A y \in T : x <= y
<1>1. PICK R : /\ IsWellFoundedOn(R, Nat)
               /\ \A y, x \in Nat : y < x => <<y, x>> \in R
  BY NatOrder
<1>2. IsWellFoundedOn(R, Nat)
  BY <1>1
<1>3. PICK x \in T : \A y \in T : ~ (<<y, x>> \in R)
  BY <1>2, WFMin
<1>4. \A y \in T : x \in Nat /\ y \in Nat /\ ~ (y < x)
  BY <1>1, <1>3
<1>5. \A y \in T : x <= y
  BY <1>4
<1> QED BY <1>5

\* A reply that is right wherever what was fed before is right confirms only what is right:
\* d are the drafts, g the reply, t the text from the position of the first draft.
LEMMA Confirmed ==
  ASSUME NEW d, NEW g, NEW t, NEW n \in Nat,
         \A j \in 1..n : d[j] = g[j],
         \A j \in 1..n + 1 : (\A i \in 1..j - 1 : d[i] = t[i]) => g[j] = t[j]
  PROVE  (\A j \in 1..n : d[j] = t[j]) /\ g[n + 1] = t[n + 1]
<1> DEFINE Wrong == {j \in 1..n : d[j] # t[j]}
<1>1. Wrong = {}
  <2> SUFFICES ASSUME Wrong # {} PROVE FALSE
    OBVIOUS
  <2>1. Wrong \subseteq Nat
    OBVIOUS
  <2>2. PICK x \in Wrong : \A y \in Wrong : x <= y
    BY <2>1, Least
  <2>3. x \in 1..n /\ d[x] # t[x]
    BY <2>2
  <2>4. \A i \in 1..x - 1 : i \in 1..n /\ ~(x <= i)
    BY <2>3
  <2>5. \A i \in 1..x - 1 : d[i] = t[i]
    BY <2>2, <2>4
  <2>6. g[x] = t[x]
    BY <2>3, <2>5
  <2> QED BY <2>3, <2>6
<1>2. \A j \in 1..n : d[j] = t[j]
  BY <1>1
<1> HIDE DEF Wrong
<1>3. \A i \in 1..(n + 1) - 1 : d[i] = t[i]
  BY <1>2
<1> QED BY <1>2, <1>3

-----------------------------------------------------------------------------
Text == [1..MaxNew + 1 -> Vocab]
Types == /\ answer \in Text /\ said \in Seq(Vocab) /\ Len(said) <= MaxNew
         /\ pos \in Nat /\ m \in Nat /\ taken \in Nat /\ k \in Nat
         /\ drafts \in Seq(Vocab)
         /\ pc \in {"prefill", "last", "draft", "verify", "accept", "take"}

\* Where the caches stand, and what the next token to feed is, at each place of the loop.
Kept(n) == \A j \in 1..n : cache[j] = answer[j]
AtPrefill == said = <<>> /\ pos = 0
AtLast == pos = Len(said) /\ Kept(pos) /\ last = answer[pos + 1]
AtDraft == pos + 1 = Len(said) /\ Kept(pos) /\ last = answer[pos + 1]
Fits == Len(said) + Len(drafts) <= MaxNew
AtAccept ==
  /\ pos + 1 = Len(said) /\ Kept(pos + 1) /\ Fits
  /\ \A j \in 1..Len(drafts) : cache[pos + 1 + j] = drafts[j]
  /\ reply \in [1..Len(drafts) + 1 -> Vocab]
  /\ \A j \in 1..Len(drafts) + 1 :
       (\A i \in 1..j - 1 : drafts[i] = answer[pos + 1 + i]) => reply[j] = answer[pos + 1 + j]
AtTake == /\ m <= Len(drafts) /\ taken <= m /\ pos = Len(said) - taken + m
          /\ pos < MaxNew + 1 /\ Kept(pos) /\ last = answer[pos + 1]
          /\ \A i \in 1..m : drafts[i] = answer[pos - m + i]
IInv == /\ Types
        /\ pc = "prefill" => AtPrefill
        /\ pc = "last" => AtLast
        /\ pc = "draft" => AtDraft
        /\ pc = "verify" => AtDraft /\ Fits
        /\ pc = "accept" => AtAccept
        /\ pc = "take" => AtTake

\* The invariant holds before the prefill.
LEMMA Start == ASSUME Request PROVE Init => IInv
  BY DEF Init, IInv, Types, Text, AtPrefill, Request

\* What appending one token to the text gives.
LEMMA Appended ==
  ASSUME NEW s \in Seq(Vocab), NEW x \in Vocab
  PROVE  Append(s, x) \in Seq(Vocab) /\ Len(Append(s, x)) = Len(s) + 1
  OBVIOUS

\* A verification round keeps it: the replies are of the text so far and the drafts.
LEMMA TripStep == ASSUME Request, IInv, Trip PROVE IInv'
<1>1. /\ pos \in Nat /\ drafts \in Seq(Vocab) /\ Len(drafts) \in Nat
      /\ pos + 1 = Len(said) /\ Kept(pos) /\ last = answer[pos + 1]
      /\ Len(said) + Len(drafts) <= MaxNew
  BY DEF Trip, Running, IInv, Types, AtDraft, Fits
<1>2. /\ cache' = Holds /\ reply' \in Replies /\ pc' = "accept"
      /\ UNCHANGED <<answer, said, drafts, m, taken, pos, k>>
  BY DEF Trip
<1>3. \A j \in 1..pos : Holds[j] = answer[j]
  BY <1>1 DEF Holds, Kept
<1>4. Holds[pos + 1] = answer[pos + 1]
  BY <1>1 DEF Holds, Fed
<1>5. \A j \in 1..Len(drafts) : Holds[pos + 1 + j] = drafts[j]
  BY <1>1 DEF Holds, Fed
<1>6. Kept(pos + 1)' /\ \A j \in 1..Len(drafts) : cache'[pos + 1 + j] = drafts[j]
  BY <1>1, <1>2, <1>3, <1>4, <1>5 DEF Kept
<1>7. reply' \in [1..Len(drafts) + 1 -> Vocab]
  BY <1>2 DEF Replies
<1>8. ASSUME NEW j \in 1..Len(drafts) + 1,
             \A i \in 1..j - 1 : drafts[i] = answer[pos + 1 + i]
      PROVE  reply'[j] = answer[pos + 1 + j]
  <2>1. ASSUME NEW l \in 1..pos + j PROVE Holds[l] = answer[l]
    <3>1. CASE l <= pos + 1
      BY <1>1, <1>3, <1>4, <3>1
    <3>2. CASE l > pos + 1
      <4>1. PICK i \in 1..j - 1 : i \in 1..Len(drafts) /\ l = pos + 1 + i
        <5>1. l - (pos + 1) \in 1..j - 1 /\ l - (pos + 1) \in 1..Len(drafts)
          BY <1>1, <3>2
        <5>2. l = pos + 1 + (l - (pos + 1))
          BY <1>1
        <5> QED BY <5>1, <5>2
      <4>2. Holds[pos + 1 + i] = drafts[i]
        BY <1>5, <4>1
      <4>3. drafts[i] = answer[pos + 1 + i]
        BY <1>8, <4>1
      <4> QED BY <4>1, <4>2, <4>3
    <3> QED BY <1>1, <3>1, <3>2
  <2>2. OnText(Holds, pos + j)
    BY <2>1 DEF OnText
  <2>3. j \in DOMAIN reply' /\ pos + j + 1 = pos + 1 + j
    BY <1>1, <1>7
  <2> QED BY <1>2, <2>2, <2>3 DEF Replies
<1>9. AtAccept'
  BY <1>1, <1>2, <1>6, <1>7, <1>8 DEF AtAccept, Fits
<1>10. Types'
  BY <1>2 DEF IInv, Types, Text
<1> QED BY <1>2, <1>9, <1>10 DEF IInv

\* Accepting the drafts that agree with the replies keeps it.
LEMMA AcceptStep == ASSUME Request, IInv, NEW n \in 0..K, Accept(n) PROVE IInv'
<1>1. /\ pos \in Nat /\ drafts \in Seq(Vocab) /\ Len(drafts) \in Nat /\ k \in Nat
      /\ pos + 1 = Len(said) /\ Len(said) + Len(drafts) <= MaxNew /\ AtAccept
      /\ MaxNew \in Nat /\ K \in Nat
  BY DEF Accept, Running, IInv, Types, AtAccept, Fits, Request
<1>2. /\ n \in 0..Len(drafts) /\ \A j \in 1..n : drafts[j] = reply[j]
      /\ pc' = "take" /\ m' = n /\ taken' = 0 /\ last' = reply[n + 1] /\ pos' = pos + 1 + n
      /\ k' = Adapted(n) /\ UNCHANGED <<answer, said, drafts, cache>>
  BY DEF Accept, Confirms
<1> DEFINE t == [i \in 1..Len(drafts) + 1 |-> answer[pos + 1 + i]]
<1>3. ASSUME NEW j \in 1..n + 1, \A i \in 1..j - 1 : drafts[i] = t[i]
      PROVE  reply[j] = t[j]
  <2>1. j \in 1..Len(drafts) + 1 /\ \A i \in 1..j - 1 : i \in 1..Len(drafts) + 1
    BY <1>1, <1>2
  <2>2. \A i \in 1..j - 1 : drafts[i] = answer[pos + 1 + i]
    BY <1>3, <2>1
  <2> QED BY <1>1, <2>1, <2>2 DEF AtAccept
<1>4. /\ \A i \in 1..n + 1 : t[i] = answer[pos + 1 + i]
      /\ n \in Nat
  BY <1>1, <1>2
<1> HIDE DEF t
<1>5. (\A j \in 1..n : drafts[j] = t[j]) /\ reply[n + 1] = t[n + 1]
  BY <1>2, <1>3, <1>4, Confirmed
<1>6. \A j \in 1..n : drafts[j] = answer[pos + 1 + j]
  BY <1>4, <1>5
<1>7. last' = answer[pos' + 1]
  <2>1. n + 1 \in 1..n + 1 /\ pos + 1 + (n + 1) = pos + 1 + n + 1
    BY <1>1, <1>4
  <2> QED BY <1>2, <1>4, <1>5, <2>1
<1>8. Kept(pos)'
  <2> SUFFICES ASSUME NEW j \in 1..pos + 1 + n PROVE cache[j] = answer[j]
    BY <1>2 DEF Kept
  <2>1. CASE j <= pos + 1
    BY <1>1, <2>1 DEF AtAccept, Kept
  <2>2. CASE j > pos + 1
    <3>1. PICK i \in 1..n : i \in 1..Len(drafts) /\ j = pos + 1 + i
      <4>1. j - (pos + 1) \in 1..n /\ j - (pos + 1) \in 1..Len(drafts)
        BY <1>1, <1>2, <2>2
      <4>2. j = pos + 1 + (j - (pos + 1))
        BY <1>1
      <4> QED BY <4>1, <4>2
    <3>2. cache[pos + 1 + i] = drafts[i]
      BY <1>1, <3>1 DEF AtAccept
    <3>3. drafts[i] = answer[pos + 1 + i]
      BY <1>6, <3>1
    <3> QED BY <3>1, <3>2, <3>3
  <2> QED BY <1>1, <2>1, <2>2
<1>9. AtTake'
  <2>1. ASSUME NEW i \in 1..n PROVE drafts[i] = answer[pos' - m' + i]
    <3>1. pos' - m' + i = pos + 1 + i
      BY <1>1, <1>2, <1>4
    <3> QED BY <1>6, <3>1
  <2>2. pos' = Len(said) - 0 + n /\ pos' < MaxNew + 1 /\ 0 <= n /\ n <= Len(drafts)
    BY <1>1, <1>2, <1>4
  <2>3. \A i \in 1..m' : drafts'[i] = answer'[pos' - m' + i]
    BY <1>2, <2>1
  <2>4. last' = answer'[pos' + 1]
    BY <1>2, <1>7
  <2>5. /\ m' <= Len(drafts') /\ taken' <= m' /\ pos' = Len(said') - taken' + m'
        /\ pos' < MaxNew + 1
    BY <1>2, <2>2
  <2> QED BY <1>8, <2>3, <2>4, <2>5 DEF AtTake
<1>10. k' \in Nat
  <2>1. k \div 2 \in Nat
    BY <1>1
  <2> QED BY <1>1, <1>2, <2>1 DEF Adapted, Higher, Lower
<1>11. Types'
  BY <1>1, <1>2, <1>10 DEF IInv, Types, Text
<1> QED BY <1>2, <1>9, <1>11 DEF IInv

\* An accepted draft that is yielded is the token the plain loop says next.
LEMMA TakeStep == ASSUME Request, IInv, YieldDraft PROVE IInv' /\ Plainly!Say
<1>1. /\ pc = "take" /\ taken < m /\ Len(said) < MaxNew /\ drafts[taken + 1] \notin Stop
      /\ said' = Append(said, drafts[taken + 1]) /\ taken' = taken + 1
      /\ UNCHANGED <<answer, ended, pc, last, drafts, m, pos, cache, k>> /\ ended = "no"
  BY DEF YieldDraft, Running, round, route
<1>2. /\ said \in Seq(Vocab) /\ Len(said) \in Nat /\ m \in Nat /\ taken \in Nat
      /\ pos = Len(said) - taken + m /\ m <= Len(drafts) /\ drafts \in Seq(Vocab)
      /\ MaxNew \in Nat /\ AtTake
  BY <1>1 DEF IInv, Types, AtTake, Request
<1>3. drafts[taken + 1] = answer[Len(said) + 1]
  <2>1. taken + 1 \in 1..m /\ pos - m + (taken + 1) = Len(said) + 1
    BY <1>1, <1>2
  <2> QED BY <1>2, <2>1 DEF AtTake
<1>4. drafts[taken + 1] \in Vocab
  BY <1>1, <1>2
<1>5. said' \in Seq(Vocab) /\ Len(said') = Len(said) + 1
  BY <1>1, <1>2, <1>4, Appended
<1>6. Types'
  BY <1>1, <1>2, <1>5 DEF IInv, Types, Text
<1>7. AtTake'
  BY <1>1, <1>2, <1>5 DEF AtTake, Kept
<1>8. IInv'
  BY <1>1, <1>6, <1>7 DEF IInv
<1> QED BY <1>1, <1>3, <1>8 DEF Plainly!Say

\* So is the reply after the last accepted draft.
LEMMA LastStep == ASSUME Request, IInv, YieldLast PROVE IInv' /\ Plainly!Say
<1>1. /\ pc = "last" /\ Len(said) < MaxNew /\ last \notin Stop /\ ended = "no"
      /\ said' = Append(said, last) /\ pc' = "draft"
      /\ UNCHANGED <<answer, ended, last, drafts, m, taken, pos, cache, k>>
  BY DEF YieldLast, Running, round, route
<1>2. /\ said \in Seq(Vocab) /\ Len(said) \in Nat /\ MaxNew \in Nat /\ answer \in Text
      /\ pos = Len(said) /\ last = answer[pos + 1] /\ Kept(pos)
  BY <1>1 DEF IInv, Types, AtLast, Request
<1>3. last \in Vocab
  BY <1>1, <1>2 DEF Text
<1>4. said' \in Seq(Vocab) /\ Len(said') = Len(said) + 1
  BY <1>1, <1>2, <1>3, Appended
<1>5. Types'
  BY <1>1, <1>2, <1>4 DEF IInv, Types, Text
<1>6. AtDraft'
  BY <1>1, <1>2, <1>4 DEF AtDraft, Kept
<1>7. IInv'
  BY <1>1, <1>5, <1>6 DEF IInv
<1> QED BY <1>1, <1>2, <1>7 DEF Plainly!Say

\* Drafting keeps the invariant, whatever is guessed.
LEMMA DraftStep == ASSUME Request, IInv, Draft PROVE IInv'
<1>1. /\ pc = "draft" /\ Len(said) < MaxNew /\ pc' = "verify"
      /\ UNCHANGED <<answer, said, ended, last, m, taken, pos, cache, k>>
      /\ drafts' = <<>> \/ \E ds \in [1..Lower(k, MaxNew - Len(said)) -> Vocab] : drafts' = ds
  BY DEF Draft, Running, route
<1>2. /\ said \in Seq(Vocab) /\ Len(said) \in Nat /\ MaxNew \in Nat /\ k \in Nat /\ AtDraft
  BY <1>1 DEF IInv, Types, Request
<1>3. drafts' \in Seq(Vocab) /\ Len(said) + Len(drafts') <= MaxNew
  <2>1. CASE drafts' = <<>>
    BY <1>1, <1>2, <2>1
  <2>2. ASSUME NEW ds \in [1..Lower(k, MaxNew - Len(said)) -> Vocab], drafts' = ds
        PROVE  drafts' \in Seq(Vocab) /\ Len(said) + Len(drafts') <= MaxNew
    <3>1. /\ Lower(k, MaxNew - Len(said)) \in Nat
          /\ Len(said) + Lower(k, MaxNew - Len(said)) <= MaxNew
      BY <1>1, <1>2 DEF Lower
    <3> HIDE DEF Lower
    <3>2. ds \in Seq(Vocab) /\ Len(ds) = Lower(k, MaxNew - Len(said))
      BY <3>1
    <3> QED BY <2>2, <3>1, <3>2
  <2> QED BY <1>1, <2>1, <2>2
<1>4. Types'
  BY <1>1, <1>3 DEF IInv, Types, Text
<1>5. (AtDraft /\ Fits)'
  BY <1>1, <1>2, <1>3 DEF AtDraft, Fits, Kept
<1> QED BY <1>1, <1>4, <1>5 DEF IInv

\* A request ends where plain decoding does.
LEMMA FinishStep == ASSUME Request, IInv, Finish PROVE IInv' /\ Plainly!Finish
<1>1. /\ ended = "no" /\ ended' = "done"
      /\ UNCHANGED <<answer, said, pc, last, drafts, reply, m, taken, pos, cache, k>>
  BY DEF Finish, round, route
<1>2. Len(said) = MaxNew \/ answer[Len(said) + 1] \in Stop
  <2>1. CASE pc = "last" /\ last \in Stop
    BY <2>1 DEF IInv, AtLast
  <2>2. CASE pc = "take" /\ taken < m /\ drafts[taken + 1] \in Stop
    <3>1. /\ said \in Seq(Vocab) /\ Len(said) \in Nat /\ m \in Nat /\ taken \in Nat
          /\ pos = Len(said) - taken + m /\ AtTake
      BY <2>2 DEF IInv, Types, AtTake
    <3>2. taken + 1 \in 1..m /\ pos - m + (taken + 1) = Len(said) + 1
      BY <2>2, <3>1
    <3> QED BY <2>2, <3>1, <3>2 DEF AtTake
  <2> QED BY <2>1, <2>2 DEF Finish
<1>3. IInv'
  BY <1>1 DEF IInv, Types, Text, AtPrefill, AtLast, AtDraft, Fits, AtAccept, AtTake, Kept
<1> QED BY <1>1, <1>2, <1>3 DEF Plainly!Finish

\* Every step keeps the invariant, and says what the plain loop may say or nothing.
LEMMA Inductive == ASSUME Request, IInv, [Next]_vars PROVE IInv' /\ [Plainly!Next]_(Plainly!vars)
<1> USE DEF Plainly!vars
<1>1. CASE Prefill
  <2>1. /\ pc = "prefill" /\ pc' = "last" /\ last' = answer[1]
        /\ UNCHANGED <<answer, said, ended, drafts, m, taken, pos, cache, k>>
    BY <1>1 DEF Prefill, Running, round
  <2>2. said = <<>> /\ pos = 0 /\ Len(said) = 0
    BY <2>1 DEF IInv, AtPrefill
  <2>3. AtLast'
    BY <2>1, <2>2 DEF AtLast, Kept
  <2>4. Types'
    BY <2>1 DEF IInv, Types, Text
  <2> QED BY <2>1, <2>3, <2>4 DEF IInv
<1>2. CASE YieldLast
  BY <1>2, LastStep DEF Plainly!Next
<1>3. CASE Draft
  <2>1. UNCHANGED <<answer, said, ended>>
    BY <1>3 DEF Draft
  <2> QED BY <1>3, <2>1, DraftStep
<1>4. CASE Trip
  <2>1. UNCHANGED <<answer, said, ended>>
    BY <1>4 DEF Trip
  <2> QED BY <1>4, <2>1, TripStep
<1>5. ASSUME NEW n \in 0..K, Accept(n) PROVE IInv' /\ [Plainly!Next]_(Plainly!vars)
  <2>1. UNCHANGED <<answer, said, ended>>
    BY <1>5 DEF Accept
  <2> QED BY <1>5, <2>1, AcceptStep
<1>6. CASE YieldDraft
  BY <1>6, TakeStep DEF Plainly!Next
<1>7. CASE Taken
  <2>1. /\ pc = "take" /\ taken = m /\ pc' = "last"
        /\ UNCHANGED <<answer, said, ended, last, drafts, m, taken, pos, cache, k>>
    BY <1>7 DEF Taken, Running, round, route
  <2>2. /\ said \in Seq(Vocab) /\ Len(said) \in Nat /\ m \in Nat /\ AtTake
    BY <2>1 DEF IInv, Types
  <2>3. AtLast'
    BY <2>1, <2>2 DEF AtLast, AtTake, Kept
  <2>4. Types'
    BY <2>1 DEF IInv, Types, Text
  <2> QED BY <2>1, <2>3, <2>4 DEF IInv
<1>8. CASE Finish
  BY <1>8, FinishStep DEF Plainly!Next
<1>9. CASE Fail
  <2>1. /\ ended = "no" /\ ended' = "failed"
        /\ UNCHANGED <<answer, said, pc, last, drafts, reply, m, taken, pos, cache, k>>
    BY <1>9 DEF Fail, round, route
  <2>2. IInv'
    BY <2>1 DEF IInv, Types, Text, AtPrefill, AtLast, AtDraft, Fits, AtAccept, AtTake, Kept
  <2> QED BY <2>1, <2>2 DEF Plainly!Fail, Plainly!Next
<1>10. CASE UNCHANGED vars
  <2>1. UNCHANGED <<answer, said, ended, pc, last, drafts, reply, m, taken, pos, cache, k>>
    BY <1>10 DEF vars
  <2> QED BY <2>1 DEF IInv, Types, Text, AtPrefill, AtLast, AtDraft, Fits, AtAccept, AtTake, Kept
<1> QED BY <1>1, <1>2, <1>3, <1>4, <1>5, <1>6, <1>7, <1>8, <1>9, <1>10 DEF Next, Work

\* The output is exactly what plain greedy decoding gives, whatever the drafter proposes and
\* however the number of drafts adapts.
THEOREM SameAsGreedy == ASSUME Request PROVE Spec => PlainText
<1>1. Init => IInv
  BY Start
<1>2. IInv /\ [Next]_vars => IInv' /\ [Plainly!Next]_(Plainly!vars)
  BY Inductive
<1>3. Init => Plainly!Init
  BY DEF Init, Plainly!Init
<1> QED BY <1>1, <1>2, <1>3, PTL DEF Spec, PlainText, Plainly!Spec


-----------------------------------------------------------------------------
\* The bounds of the caches, of the trips and of the drafter's record.  With IInv they are
\* inductive.
Caches == /\ cache \in Seq(Vocab) /\ pos <= Len(cache) /\ Len(cache) <= MaxNew /\ cut \in -1..MaxNew
          /\ pc # "accept" => Base = pos
          /\ pc = "accept" => cut = -1 /\ Len(cache) = pos + 1 + Len(drafts)
Values == /\ last \in Vocab /\ reply \in Seq(Vocab) /\ ended \in {"no", "done", "failed"}
          /\ m \in 0..K /\ taken \in 0..m /\ k \in 1..K
Trips == /\ trips \in Nat /\ trips <= Len(said) + 1
         /\ pc = "prefill" => trips = 0
         /\ pc \in {"draft", "verify"} => trips <= Len(said)
Drafter == /\ toks = kv /\ toks \in Seq(Vocab)
           /\ DraftsOverText
BInv == Caches /\ Values /\ Trips /\ Drafter

\* The tokens of an end of sequence are tokens.
Tokens == Stop \subseteq Vocab

\* Two texts have a longest common beginning: the drafter's record is cut back to it.
LEMMA CommonIs ==
  ASSUME NEW a \in Seq(Vocab), NEW b \in Seq(Vocab)
  PROVE  /\ Common(a, b) \in 0..Lower(Len(a), Len(b))
         /\ SubSeq(a, 1, Common(a, b)) = SubSeq(b, 1, Common(a, b))
<1> DEFINE top == Lower(Len(a), Len(b))
           T == {n \in 0..top : n = top \/ a[n + 1] # b[n + 1]}
<1>1. top \in Nat /\ top <= Len(a) /\ top <= Len(b)
  BY DEF Lower
<1> HIDE DEF top
<1>2. T \subseteq Nat /\ T # {}
  <2>1. top \in T
    BY <1>1
  <2> QED BY <2>1
<1>3. PICK x \in T : \A y \in T : x <= y
  BY <1>2, Least
<1>4. x \in 0..top /\ (x < top => a[x + 1] # b[x + 1])
  BY <1>1, <1>3
<1>5. \A j \in 1..x : a[j] = b[j]
  <2> SUFFICES ASSUME NEW j \in 1..x, a[j] # b[j] PROVE FALSE
    OBVIOUS
  <2>1. j - 1 \in 0..top /\ (j - 1) + 1 = j
    BY <1>1, <1>4
  <2>2. j - 1 \in T
    BY <2>1
  <2> QED BY <1>3, <1>4, <2>1, <2>2
<1>6. SubSeq(a, 1, x) = SubSeq(b, 1, x)
  BY <1>1, <1>4, <1>5
<1>7. \E n \in 0..top : /\ SubSeq(a, 1, n) = SubSeq(b, 1, n)
                        /\ n < top => a[n + 1] # b[n + 1]
  BY <1>4, <1>6
<1> QED BY <1>7 DEF Common, top

\* What joining two texts gives.
LEMMA Joined ==
  ASSUME NEW p \in Seq(Vocab), NEW q \in Seq(Vocab)
  PROVE  /\ p \o q \in Seq(Vocab) /\ Len(p \o q) = Len(p) + Len(q)
         /\ \A i \in 1..Len(p) + Len(q) :
              (p \o q)[i] = IF i <= Len(p) THEN p[i] ELSE q[i - Len(p)]
  OBVIOUS

\* Cutting a text in two and joining the parts gives the text back.
LEMMA Rejoined ==
  ASSUME NEW s \in Seq(Vocab), NEW d \in Seq(Vocab), NEW n \in 0..Len(s)
  PROVE  SubSeq(s, 1, n) \o (SubSeq(s, n + 1, Len(s)) \o d) = s \o d
<1> DEFINE a == SubSeq(s, 1, n)
           b == SubSeq(s, n + 1, Len(s))
           both == a \o (b \o d)
<1>1. Len(s) \in Nat /\ Len(d) \in Nat /\ n \in Nat /\ n <= Len(s)
  OBVIOUS
<1>2. a \in Seq(Vocab) /\ Len(a) = n /\ \A i \in 1..n : a[i] = s[i]
  BY <1>1
<1>3. b \in Seq(Vocab) /\ Len(b) = Len(s) - n /\ \A i \in 1..Len(s) - n : b[i] = s[n + i]
  BY <1>1
<1> HIDE DEF a, b
<1>3a. /\ b \o d \in Seq(Vocab) /\ Len(b \o d) = Len(b) + Len(d)
       /\ \A i \in 1..Len(b) + Len(d) :
            (b \o d)[i] = IF i <= Len(b) THEN b[i] ELSE d[i - Len(b)]
  BY <1>3, Joined
<1>4. /\ b \o d \in Seq(Vocab) /\ Len(b \o d) = Len(s) - n + Len(d)
      /\ \A i \in 1..Len(s) - n + Len(d) :
           (b \o d)[i] = IF i <= Len(s) - n THEN b[i] ELSE d[i - (Len(s) - n)]
  BY <1>3, <1>3a
<1>5. /\ both \in Seq(Vocab) /\ Len(both) = Len(s) + Len(d)
      /\ \A i \in 1..Len(s) + Len(d) : both[i] = IF i <= n THEN a[i] ELSE (b \o d)[i - n]
  BY <1>1, <1>2, <1>4
<1>6. /\ s \o d \in Seq(Vocab) /\ Len(s \o d) = Len(s) + Len(d)
      /\ \A i \in 1..Len(s) + Len(d) : (s \o d)[i] = IF i <= Len(s) THEN s[i] ELSE d[i - Len(s)]
  BY <1>1
<1>7. ASSUME NEW i \in 1..Len(s) + Len(d) PROVE both[i] = (s \o d)[i]
  <2>1. CASE i <= n
    BY <1>1, <1>2, <1>5, <1>6, <2>1
  <2>2. CASE ~(i <= n)
    <3>1. i - n \in 1..Len(s) - n + Len(d) /\ n + (i - n) = i
      BY <1>1, <2>2
    <3>2. both[i] = (b \o d)[i - n]
      BY <1>1, <1>5, <2>2
    <3>3. (b \o d)[i - n] = IF i <= Len(s) THEN s[i] ELSE d[i - Len(s)]
      BY <1>1, <1>3, <1>4, <3>1
    <3> QED BY <1>6, <3>2, <3>3
  <2> QED BY <1>1, <2>1, <2>2
<1> HIDE DEF both
<1>8. both = s \o d
  BY <1>5, <1>6, <1>7
<1> QED BY <1>8 DEF both, a, b


\* What is said of the caches holds at the start.
LEMMA BStart == ASSUME Request, Tokens, Init PROVE BInv
<1> USE DEF Request, Tokens, Init
<1>1. Caches
  BY DEF Caches, Base
<1>2. Values
  BY DEF Values
<1>3. Trips
  BY DEF Trips
<1>4. Drafter
  BY DEF Drafter, DraftsOverText
<1> QED BY <1>1, <1>2, <1>3, <1>4 DEF BInv

\* The drafter feeds itself what it lacks of the text, then its own drafts.
LEMMA Proposed ==
  ASSUME said \in Seq(Vocab), Len(said) > 0, toks \in Seq(Vocab), toks = kv,
         NEW ds \in Seq(Vocab), Len(ds) > 0, Propose(ds)
  PROVE  /\ toks' = said \o SubSeq(ds, 1, Len(ds) - 1) /\ kv' = toks'
         /\ toks' \in Seq(Vocab)
<1> DEFINE c == Common(toks, said)
           n == Lower(c, Len(said) - 1)
           own == SubSeq(ds, 1, Len(ds) - 1)
           fed == SubSeq(said, n + 1, Len(said)) \o own
<1>1. c \in 0..Lower(Len(toks), Len(said)) /\ SubSeq(toks, 1, c) = SubSeq(said, 1, c)
  BY CommonIs
<1>2. /\ Len(toks) \in Nat /\ Len(said) \in Nat /\ c \in 0..Len(said) /\ c <= Len(toks)
      /\ n \in 0..Len(said) /\ n <= c /\ n <= Len(toks)
  BY <1>1 DEF Lower
<1>3. /\ toks' = SubSeq(toks, 1, n) \o fed
      /\ kv' = SubSeq(kv, 1, Len(kv) - (Len(toks) - n)) \o fed
  BY DEF Propose
<1> HIDE DEF c, n
<1>4. own \in Seq(Vocab)
  BY DEF own
<1> HIDE DEF own
<1>4a. fed = SubSeq(said, n + 1, Len(said)) \o own
  OBVIOUS
<1> HIDE DEF fed
<1>5. SubSeq(toks, 1, n) = SubSeq(said, 1, n)
  <2>1. ASSUME NEW j \in 1..n PROVE toks[j] = said[j]
    <3>1. SubSeq(toks, 1, c)[j] = toks[j] /\ SubSeq(said, 1, c)[j] = said[j]
      BY <1>2
    <3> QED BY <1>1, <3>1
  <2> QED BY <1>2, <2>1
<1>6. Len(kv) - (Len(toks) - n) = n
  BY <1>2
<1>7. toks' = said \o own
  <2>1. SubSeq(said, 1, n) \o (SubSeq(said, n + 1, Len(said)) \o own) = said \o own
    BY <1>2, <1>4, Rejoined
  <2> QED BY <1>3, <1>4a, <1>5, <2>1
<1>8. kv' = toks'
  BY <1>3, <1>6
<1> QED BY <1>4, <1>7, <1>8 DEF own

\* Drafting leaves the caches alone.
LEMMA BDraft == ASSUME Request, IInv, BInv, Draft PROVE BInv'
<1>1. /\ pc = "draft" /\ pc' = "verify" /\ Len(said) < MaxNew
      /\ UNCHANGED <<answer, said, ended, last, reply, m, taken, pos, cache, cut, k, trips>>
  BY DEF Draft, Running, route
<1>2. /\ said \in Seq(Vocab) /\ Len(said) \in Nat /\ Len(said) > 0 /\ MaxNew \in Nat /\ k \in 1..K
      /\ K \in Nat /\ toks \in Seq(Vocab) /\ toks = kv
  BY <1>1 DEF IInv, Types, AtDraft, Request, BInv, Values, Drafter
<1>3. Caches'
  BY <1>1 DEF BInv, Caches, Base
<1>4. Values'
  BY <1>1 DEF BInv, Values
<1>5. Trips'
  BY <1>1 DEF BInv, Trips
<1>6. Drafter'
  <2>1. CASE drafts' = <<>> /\ UNCHANGED drafter
    BY <1>2, <2>1 DEF Drafter, DraftsOverText, drafter
  <2>2. ASSUME NEW ds \in [1..Lower(k, MaxNew - Len(said)) -> Vocab],
               drafts' = ds, Propose(ds)
        PROVE  Drafter'
    <3>1. Lower(k, MaxNew - Len(said)) \in Nat \ {0}
      BY <1>1, <1>2 DEF Lower
    <3> HIDE DEF Lower
    <3>2. ds \in Seq(Vocab) /\ Len(ds) > 0
      BY <3>1
    <3>3. /\ toks' = said \o SubSeq(ds, 1, Len(ds) - 1) /\ kv' = toks'
          /\ toks' \in Seq(Vocab)
      BY <1>2, <2>2, <3>2, Proposed
    <3> QED BY <1>1, <2>2, <3>3 DEF Drafter, DraftsOverText
  <2> QED BY <2>1, <2>2 DEF Draft
<1> QED BY <1>3, <1>4, <1>5, <1>6 DEF BInv

\* A round leaves the caches with the text so far, the last token and the drafts.
LEMMA BTrip == ASSUME Request, IInv, BInv, Trip PROVE BInv'
<1>1. /\ pc = "verify" /\ pc' = "accept" /\ Base = pos /\ reply' \in Replies
      /\ cache' = Holds /\ cut' = -1 /\ trips' = trips + 1
      /\ UNCHANGED <<answer, said, ended, last, drafts, m, taken, pos, k, toks, kv>>
  BY DEF Trip, Running, drafter
<1>2. /\ pos \in Nat /\ drafts \in Seq(Vocab) /\ Len(drafts) \in Nat /\ pos + 1 = Len(said)
      /\ Len(said) + Len(drafts) <= MaxNew /\ last \in Vocab /\ MaxNew \in Nat
      /\ cache \in Seq(Vocab) /\ cut \in -1..MaxNew /\ Len(said) \in Nat
  BY <1>1 DEF IInv, Types, AtDraft, Fits, Request, BInv, Caches, Values
<1>3. pos <= Len(cache)
  BY DEF BInv, Caches
<1>4. Holds \in [1..pos + Len(drafts) + 1 -> Vocab]
  <2> SUFFICES ASSUME NEW j \in 1..pos + Len(drafts) + 1
               PROVE  (IF j <= pos THEN cache[j] ELSE Fed[j - pos]) \in Vocab
    BY DEF Holds
  <2>1. CASE j <= pos
    BY <1>2, <1>3, <2>1
  <2>2. CASE ~(j <= pos)
    <3>1. j - pos \in 1..Len(drafts) + 1
      BY <1>2, <2>2
    <3>2. j - pos # 1 => j - pos - 1 \in 1..Len(drafts)
      BY <1>2, <2>2
    <3> QED BY <1>2, <2>2, <3>1, <3>2 DEF Fed
  <2> QED BY <2>1, <2>2
<1>5. pos + Len(drafts) + 1 \in Nat
  BY <1>2
<1>6. Holds \in Seq(Vocab) /\ Len(Holds) = pos + Len(drafts) + 1
  BY <1>4, <1>5
<1> HIDE DEF Holds
<1>7. Caches'
  BY <1>1, <1>2, <1>6 DEF Caches
<1>8. reply' \in Seq(Vocab)
  <2>1. reply' \in [1..Len(drafts) + 1 -> Vocab] /\ Len(drafts) + 1 \in Nat
    BY <1>1, <1>2 DEF Replies
  <2> QED BY <2>1
<1>9. Values'
  BY <1>1, <1>8 DEF BInv, Values
<1>10. Trips'
  BY <1>1, <1>2 DEF BInv, Trips
<1>11. Drafter'
  BY <1>1 DEF BInv, Drafter, DraftsOverText
<1> QED BY <1>7, <1>9, <1>10, <1>11 DEF BInv

\* Accepting notes where the caches are to be cut.
LEMMA BAccept == ASSUME Request, IInv, BInv, NEW n \in 0..K, Accept(n) PROVE BInv'
<1>1. /\ pc = "accept" /\ pc' = "take" /\ n \in 0..Len(drafts)
      /\ m' = n /\ taken' = 0 /\ last' = reply[n + 1]
      /\ cut' = (IF n < Len(drafts) THEN pos + 1 + n ELSE -1) /\ pos' = pos + 1 + n
      /\ k' = Adapted(n)
      /\ UNCHANGED <<answer, said, ended, drafts, reply, cache, trips, toks, kv>>
  BY DEF Accept, Running, drafter, Confirms
<1>2. /\ pos \in Nat /\ Len(drafts) \in Nat /\ pos + 1 = Len(said) /\ Len(said) + Len(drafts) <= MaxNew
      /\ reply \in [1..Len(drafts) + 1 -> Vocab] /\ MaxNew \in Nat /\ K \in Nat \ {0} /\ k \in 1..K
      /\ cache \in Seq(Vocab) /\ Len(cache) = pos + 1 + Len(drafts) /\ Len(cache) <= MaxNew
  BY <1>1 DEF IInv, Types, AtAccept, Fits, Request, BInv, Caches, Values
<1>3. Caches'
  BY <1>1, <1>2 DEF Caches, Base
<1>4. Adapted(n) \in 1..K
  <2>1. k \div 2 \in 0..k
    BY <1>2
  <2> QED BY <1>2, <2>1 DEF Adapted, Higher, Lower
<1>5. Values'
  <2>1. last' \in Vocab
    BY <1>1, <1>2
  <2>2. m' \in 0..K /\ taken' \in 0..m'
    BY <1>1, <1>2
  <2>3. reply' \in Seq(Vocab) /\ ended' \in {"no", "done", "failed"}
    BY <1>1 DEF BInv, Values
  <2> QED BY <1>1, <1>4, <2>1, <2>2, <2>3 DEF Values
<1>6. Trips'
  BY <1>1 DEF BInv, Trips
<1>7. Drafter'
  BY <1>1 DEF BInv, Drafter, DraftsOverText
<1> QED BY <1>3, <1>5, <1>6, <1>7 DEF BInv

\* Every step keeps what is said of the caches.
LEMMA BInductive == ASSUME Request, Tokens, IInv, BInv, [Next]_vars PROVE BInv'
<1>1. CASE Prefill
  <2>1. /\ pc = "prefill" /\ pc' = "last" /\ last' = answer[1] /\ trips' = 1
        /\ UNCHANGED <<answer, said, ended, drafts, reply, m, taken, pos, cache, cut, k, toks, kv>>
    BY <1>1 DEF Prefill, Running, round, drafter
  <2>2. last' \in Vocab /\ Len(said) = 0
    BY <2>1 DEF IInv, Types, Text, AtPrefill, Request
  <2>3. Caches'
    BY <2>1 DEF BInv, Caches, Base
  <2>4. Values'
    BY <2>1, <2>2 DEF BInv, Values
  <2>5. Trips'
    BY <2>1, <2>2 DEF Trips
  <2>6. Drafter'
    BY <2>1 DEF BInv, Drafter, DraftsOverText
  <2> QED BY <2>3, <2>4, <2>5, <2>6 DEF BInv
<1>2. CASE YieldLast
  <2>1. /\ pc = "last" /\ pc' = "draft" /\ said' = Append(said, last)
        /\ UNCHANGED <<answer, ended, last, drafts, reply, m, taken, pos, cache, cut, k, trips, toks, kv>>
    BY <1>2 DEF YieldLast, Running, round, route, drafter
  <2>2. Len(said) \in Nat /\ Len(said') = Len(said) + 1
    BY <2>1 DEF IInv, Types, BInv, Values
  <2>3. Caches'
    BY <2>1 DEF BInv, Caches, Base
  <2>4. Values'
    BY <2>1 DEF BInv, Values
  <2>5. Trips'
    BY <2>1, <2>2 DEF BInv, Trips
  <2>6. Drafter'
    BY <2>1 DEF BInv, Drafter, DraftsOverText
  <2> QED BY <2>3, <2>4, <2>5, <2>6 DEF BInv
<1>3. CASE Draft
  BY <1>3, BDraft
<1>4. CASE Trip
  BY <1>4, BTrip
<1>5. ASSUME NEW n \in 0..K, Accept(n) PROVE BInv'
  BY <1>5, BAccept
<1>6. CASE YieldDraft
  <2>1. /\ pc = "take" /\ taken < m /\ said' = Append(said, drafts[taken + 1]) /\ taken' = taken + 1
        /\ UNCHANGED <<answer, ended, pc, last, drafts, reply, m, pos, cache, cut, k, trips, toks, kv>>
    BY <1>6 DEF YieldDraft, Running, round, route, drafter
  <2>2. Len(said) \in Nat /\ Len(said') = Len(said) + 1
    <3>1. /\ drafts \in Seq(Vocab) /\ taken + 1 \in 1..Len(drafts) /\ said \in Seq(Vocab)
      BY <2>1 DEF IInv, Types, AtTake
    <3> QED BY <2>1, <3>1
  <2>3. Caches'
    BY <2>1 DEF BInv, Caches, Base
  <2>4. Values'
    BY <2>1 DEF BInv, Values
  <2>5. Trips'
    BY <2>1, <2>2 DEF BInv, Trips
  <2>6. Drafter'
    BY <2>1 DEF BInv, Drafter, DraftsOverText
  <2> QED BY <2>3, <2>4, <2>5, <2>6 DEF BInv
<1>7. CASE Taken \/ Finish \/ Fail \/ UNCHANGED vars
  <2>1. /\ UNCHANGED <<answer, said, last, drafts, reply, m, taken, pos, cache, cut, k, trips, toks, kv>>
        /\ pc' = pc \/ (pc = "take" /\ pc' = "last")
        /\ ended' \in {ended, "done", "failed"}
    BY <1>7 DEF Taken, Finish, Fail, vars, Running, round, route, drafter
  <2>2. Caches'
    BY <2>1 DEF BInv, Caches, Base
  <2>3. Values'
    BY <2>1 DEF BInv, Values
  <2>4. Trips'
    BY <2>1 DEF BInv, Trips
  <2>5. Drafter'
    BY <2>1 DEF BInv, Drafter, DraftsOverText
  <2> QED BY <2>2, <2>3, <2>4, <2>5 DEF BInv
<1> QED BY <1>1, <1>2, <1>3, <1>4, <1>5, <1>6, <1>7 DEF Next, Work

\* From it the drafts are sound: the caches follow the text, and the trips are counted.
LEMMA BImplies == ASSUME Request, IInv, BInv PROVE DraftsSound
<1>1. /\ MaxNew \in Nat /\ pos \in Nat /\ said \in Seq(Vocab) /\ Len(said) \in Nat
      /\ Len(said) <= MaxNew
  BY DEF Request, IInv, Types
<1>2. pos \in 0..MaxNew + 1
  BY <1>1 DEF IInv, Types, AtPrefill, AtLast, AtDraft, AtAccept, AtTake
<1>3. TypeOK
  BY <1>2 DEF TypeOK, IInv, Types, BInv, Caches, Values
<1>4. CacheIsText
  <2>1. pc # "accept" => Kept(pos)
    BY <1>1 DEF IInv, Types, AtPrefill, AtLast, AtDraft, AtTake, Kept
  <2> QED BY <2>1 DEF CacheIsText, BInv, Caches, OnText, Kept
<1> QED BY <1>3, <1>4 DEF DraftsSound, SpecSound, NeverPastEnd, NeverSlower, BInv, Caches, Trips, Drafter

\* Between trips the caches of the route hold the text and nothing else, up to where the next
\* trip starts; no stage is fed past the tokens it reserved; drafting never takes more trips
\* than plain decoding; and the drafter proposes over the text, for every vocabulary, length
\* and number of drafts.
THEOREM CachesFollowText == ASSUME Request, Tokens PROVE Spec => []DraftsSound
<1>1. Init => IInv /\ BInv
  BY Start, BStart
<1>2. IInv /\ BInv /\ [Next]_vars => IInv' /\ BInv'
  BY Inductive, BInductive
<1>3. IInv /\ BInv => DraftsSound
  BY BImplies
<1> QED BY <1>1, <1>2, <1>3, PTL DEF Spec
=============================================================================
