------------------------------ MODULE Failover ------------------------------
(***************************************************************************)
(* One endpoint of a route and one request on it, as HttpTransport         *)
(* (commonnet/net/transport.py) runs it over several block servers with    *)
(* the same layers: the session is opened on the first live candidate,     *)
(* every piece sent is kept, and when the server in use stops answering or *)
(* has lost the session the transport opens it on the next candidate,      *)
(* replays the kept pieces and sends the failed piece again.  Out of       *)
(* candidates, it asks the network for more and waits (on_exhausted).      *)
(*                                                                         *)
(* A call here is a whole BlockClient call, retries included: answered, or *)
(* Unreachable with the handler run or not.  Repeats of one call are       *)
(* idempotent on the server while no abandoned attempt runs late           *)
(* (ForwardRetry.tla), which is assumed here.                              *)
(***************************************************************************)
EXTENDS History, FiniteSets, SequencesExt

CONSTANTS
  Server,        \* block servers that hold the endpoint's layers
  Known,         \* the first candidates: the route's primary, then replicas
  Network,       \* the transport was given on_exhausted
  MaxPiece, MaxLen,
  MaxFaults,     \* servers going down, restarting, or not answering
  MaxPolls       \* rounds of the wait for the network, at least 1

ASSUME FailoverAssumption ==
  /\ IsFiniteSet(Server)
  /\ Known \in Seq(Server) /\ Known # <<>> /\ IsInjective(Known)
  /\ Network \in BOOLEAN
  /\ MaxPiece \in Nat \ {0} /\ MaxLen \in Nat /\ MaxFaults \in Nat
  /\ MaxPolls \in Nat \ {0}

VARIABLES
  sess,      \* each server's session
  up,        \* the servers that can be reached
  cand,      \* _candidates(name)
  dead,      \* _dead: "new" for REVIVE_AFTER_SECONDS, then "old", and "no"
             \* again after DEAD_SECONDS
  active,    \* _active[(name, session)], 0 before the first open
  opened,    \* (name, session) in _open
  hist,      \* _history: the pieces sent, [start, toks]
  cut,       \* _pending_cut, or NoCut
  pc,        \* where the call is
  piece,     \* the forward being sent
  failed, step, replayed, polls,   \* locals of _recover and _try_candidates
  faults,
  lost,      \* history: servers that were ever marked, or that left the call to
             \* open or to close the session unanswered
  text, seen, outcome

recovery == <<failed, step, replayed, polls>>
textVars == <<text, seen, outcome>>
vars == <<sess, up, cand, dead, active, opened, hist, cut, pc, piece, recovery,
          faults, lost, textVars>>

Pieces == UNION {[1..n -> Token] : n \in 1..MaxPiece}

TypeOK ==
  /\ sess \in [Server -> Session]
  /\ up \subseteq Server
  /\ cand \in Seq(Server) /\ IsInjective(cand)
  /\ dead \in [Server -> {"new", "old", "no"}]
  /\ active \in 0..Len(cand) /\ opened \in BOOLEAN
  /\ hist \in Seq(Piece)
  /\ cut \in Nat \cup {NoCut}
  /\ pc \in {"idle", "open", "send", "try", "replay", "wait", "close", "over"}
  /\ piece \in Request
  /\ failed \in 0..Len(cand) /\ step \in 0..Len(cand) + 1
  /\ replayed \in 0..Len(hist) /\ polls \in 0..MaxPolls
  /\ faults \in 0..MaxFaults /\ lost \subseteq Server
  /\ text \in Seq(Token) /\ seen \in Seq(Token)
  /\ outcome \in {"running", "done", "failed"}

Init ==
  /\ sess = [s \in Server |-> NoSession] /\ up = Server
  /\ cand = Known /\ dead = [s \in Server |-> "no"]
  /\ active = 0 /\ opened = FALSE /\ hist = <<>> /\ cut = NoCut
  /\ pc = "idle" /\ piece = OpenRequest
  /\ failed = 0 /\ step = 0 /\ replayed = 0 /\ polls = 0
  /\ faults = 0 /\ lost = {}
  /\ text = <<>> /\ seen = <<>> /\ outcome = "running"

-----------------------------------------------------------------------------
\* One BlockClient call to server s: answered with its status, or Unreachable
\* (0) with the handler run or not.

Unreachable == 0
Rpc(s, r, status) ==
  LET done == Handle(sess[s], r) IN
  \/ /\ s \in up /\ status = done.answer.status
     /\ sess' = [sess EXCEPT ![s] = done.session]
     /\ UNCHANGED faults
  \/ /\ s \in up /\ status = Unreachable /\ faults < MaxFaults
     /\ \E after \in {sess[s], done.session} : sess' = [sess EXCEPT ![s] = after]
     /\ faults' = faults + 1
  \/ /\ s \notin up /\ status = Unreachable
     /\ UNCHANGED <<sess, faults>>

Alive(i) == dead[cand[i]] = "no"
FirstAlive == LET live == {i \in DOMAIN cand : Alive(i)}
              IN IF live = {} THEN 1 ELSE CHOOSE i \in live : \A j \in live : i <= j

MarkDead(i) == /\ dead' = [dead EXCEPT ![cand[i]] = "new"]
               /\ lost' = lost \cup {cand[i]}

\* _merge_servers without its test for a server already listed.
MergeKnown ==
  \E fresh \in SUBSET Server : \E new \in SetToSeqs(fresh) :
    /\ cand' = cand \o new
    /\ dead' = [s \in Server |-> IF s \in fresh /\ dead[s] = "old" THEN "no" ELSE dead[s]]

\* _merge_servers over what the network lists: any servers, current or not.
Merge ==
  \E fresh \in SUBSET Server : \E new \in SetToSeqs(fresh \ ToSet(cand)) :
    /\ cand' = cand \o new
    /\ dead' = [s \in Server |-> IF s \in fresh /\ dead[s] = "old" THEN "no" ELSE dead[s]]

CanMove == Len(cand) > 1 \/ Network

Raise == /\ outcome' = "failed" /\ pc' = "close"
         /\ UNCHANGED <<text, seen>>

\* _recover: the failed server is marked, and the search starts after it.
Recover(i) == /\ MarkDead(i)
              /\ failed' = i /\ step' = 1 /\ replayed' = 0 /\ polls' = 0
              /\ pc' = "try"
              /\ UNCHANGED textVars

-----------------------------------------------------------------------------
\* forward

\* forward popping the deferred cut and not sending it.
BeginDropsCut(toks) ==
  /\ pc = "idle" /\ Len(text) + Len(toks) <= MaxLen
  /\ piece' = ForwardRequest(Len(text), toks, NoCut)
  /\ cut' = NoCut
  /\ IF opened THEN pc' = "send" /\ UNCHANGED <<cand, dead>>
     ELSE pc' = "open" /\ IF Network THEN Merge ELSE UNCHANGED <<cand, dead>>
  /\ UNCHANGED <<sess, up, active, opened, hist, recovery, faults, lost, textVars>>

\* The deferred cut rides on this piece.  The first piece of a session asks
\* the network for the endpoint's servers first (refresh_replicas).
Begin(toks) ==
  /\ pc = "idle" /\ Len(text) + Len(toks) <= MaxLen
  /\ piece' = ForwardRequest(Len(text), toks, cut)
  /\ cut' = NoCut
  /\ IF opened THEN pc' = "send" /\ UNCHANGED <<cand, dead>>
     ELSE pc' = "open" /\ IF Network THEN Merge ELSE UNCHANGED <<cand, dead>>
  /\ UNCHANGED <<sess, up, active, opened, hist, recovery, faults, lost, textVars>>

OpenFirst ==
  /\ pc = "open"
  /\ \E status \in {200, Unreachable} :
       /\ Rpc(cand[FirstAlive], OpenRequest, status)
       /\ IF status = 200
          THEN /\ active' = FirstAlive /\ opened' = TRUE /\ pc' = "send"
               /\ UNCHANGED <<dead, lost, recovery, textVars>>
          ELSE /\ UNCHANGED <<active, opened>>
               /\ \/ CanMove /\ Recover(FirstAlive)
                  \/ /\ ~CanMove /\ Raise
                     /\ lost' = lost \cup {cand[FirstAlive]}
                     /\ UNCHANGED <<dead, recovery>>
  /\ UNCHANGED <<up, cand, hist, cut, piece>>

\* The reply is accepted.  The loop keeps the piece up to position n; drafts
\* past it are cut from the kept pieces now, and from the server later.
Accept(n) ==
  LET full == text \o piece.toks
      sent == IF CanMove THEN Append(hist, [start |-> piece.start, toks |-> piece.toks])
                         ELSE hist
  IN /\ n \in Len(text) + 1 .. Len(full)
     /\ n < Len(full) => piece.start > 0
     /\ text' = SubSeq(full, 1, n)
     /\ seen' = Handle(sess[cand[active]], piece).answer.out
     /\ hist' = IF n < Len(full) THEN CutHistory(sent, n) ELSE sent
     /\ cut' = IF n < Len(full) THEN n ELSE NoCut
     /\ pc' = "idle"
     /\ UNCHANGED <<outcome, dead, lost, recovery>>

\* _send taking a lost session for an error of its own.
SendPieceRaises ==
  /\ pc = "send"
  /\ \E status \in {200, 404, 500, Unreachable} :
       /\ Rpc(cand[active], piece, status)
       /\ \/ status = 200 /\ \E n \in 1..MaxLen : Accept(n)
          \/ /\ status = Unreachable /\ CanMove
             /\ Recover(active) /\ UNCHANGED <<hist, cut>>
          \/ /\ status \in {404, 500} \/ (status # 200 /\ ~CanMove)
             /\ Raise /\ UNCHANGED <<hist, cut, dead, lost, recovery>>
  /\ UNCHANGED <<up, cand, active, opened, piece>>

\* One turn of _send.
SendPiece ==
  /\ pc = "send"
  /\ \E status \in {200, 404, 500, Unreachable} :
       /\ Rpc(cand[active], piece, status)
       /\ \/ status = 200 /\ \E n \in 1..MaxLen : Accept(n)
          \/ /\ status \in {404, Unreachable} /\ CanMove
             /\ Recover(active) /\ UNCHANGED <<hist, cut>>
          \/ /\ status = 500 \/ (status # 200 /\ ~CanMove)
             /\ Raise /\ UNCHANGED <<hist, cut, dead, lost, recovery>>
  /\ UNCHANGED <<up, cand, active, opened, piece>>

-----------------------------------------------------------------------------
\* _recover and _try_candidates

Trying == ((failed - 1 + step) % Len(cand)) + 1
NextSame == pc' = "try" /\ UNCHANGED <<failed, step, polls>>
NextCandidate == step' = step + 1 /\ pc' = "try" /\ UNCHANGED <<failed, polls>>

\* A marked candidate is passed over, but the failed one is tried again, last.
Skip == /\ pc = "try" /\ step <= Len(cand)
        /\ Trying # failed /\ ~Alive(Trying)
        /\ NextCandidate
        /\ UNCHANGED <<sess, up, cand, dead, active, opened, hist, cut, piece,
                       replayed, faults, lost, textVars>>

OpenNext ==
  /\ pc = "try" /\ step <= Len(cand)
  /\ Trying = failed \/ Alive(Trying)
  /\ replayed' = 0
  /\ \E status \in {200, Unreachable} :
       /\ Rpc(cand[Trying], OpenRequest, status)
       /\ IF status = 200
          THEN /\ active' = Trying /\ pc' = "replay"
               /\ UNCHANGED <<dead, lost, failed, step, polls>>
          ELSE MarkDead(Trying) /\ NextCandidate /\ UNCHANGED active
  /\ UNCHANGED <<up, cand, opened, hist, cut, piece, textVars>>

Replay ==
  /\ pc = "replay" /\ replayed < Len(hist)
  /\ LET p == hist[replayed + 1] IN
     \E status \in {200, 404, 500, Unreachable} :
       /\ Rpc(cand[active], ForwardRequest(p.start, p.toks, NoCut), status)
       /\ IF status = 200
          THEN replayed' = replayed + 1 /\ UNCHANGED <<pc, dead, lost, failed, step, polls>>
          ELSE MarkDead(active) /\ NextCandidate /\ UNCHANGED replayed
  /\ UNCHANGED <<up, cand, active, opened, hist, cut, piece, textVars>>

\* The session is where it was: the failed piece is sent again.
Resume == /\ pc = "replay" /\ replayed = Len(hist)
          /\ opened' = TRUE /\ pc' = "send"
          /\ UNCHANGED <<sess, up, cand, dead, active, hist, cut, piece, recovery,
                         faults, lost, textVars>>

\* No candidate took the session.  With on_exhausted there is always a first
\* round of asking; then the wait_s deadline may have passed, or not.
Exhausted ==
  /\ pc = "try" /\ step > Len(cand)
  /\ \/ (~Network \/ polls > 0) /\ Raise
     \/ Network /\ polls < MaxPolls /\ pc' = "wait" /\ UNCHANGED textVars
  /\ UNCHANGED <<sess, up, cand, dead, active, opened, hist, cut, piece, recovery,
                 faults, lost>>

Ask == /\ pc = "wait" /\ Merge
       /\ polls' = polls + 1 /\ step' = 1 /\ pc' = "try"
       /\ UNCHANGED <<sess, up, active, opened, hist, cut, piece, failed, replayed,
                      faults, lost, textVars>>

-----------------------------------------------------------------------------
\* The end of the request, and the world.

Finish == /\ pc = "idle" /\ text # <<>>
          /\ outcome' = "done" /\ pc' = "close"
          /\ UNCHANGED <<sess, up, cand, dead, active, opened, hist, cut, piece,
                         recovery, faults, lost, text, seen>>

ToClosePrimary == IF opened THEN {cand[1]} ELSE {}
\* close: only the server in use is told, and its answer is not looked at.
ToClose == IF opened THEN {cand[active]} ELSE {}
Close ==
  /\ pc = "close"
  /\ IF ToClose = {} THEN UNCHANGED <<sess, faults, lost>>
     ELSE \E s \in ToClose, status \in {200, Unreachable} :
            /\ Rpc(s, CloseRequest, status)
            /\ lost' = IF status = 200 THEN lost ELSE lost \cup {s}
  /\ opened' = FALSE /\ hist' = <<>> /\ cut' = NoCut /\ active' = 0
  /\ replayed' = 0 /\ pc' = "over"
  /\ UNCHANGED <<up, cand, dead, piece, failed, step, polls, textVars>>

Others == <<cand, active, opened, hist, cut, pc, piece, recovery, lost, textVars>>
Fault == faults < MaxFaults /\ faults' = faults + 1 /\ pc # "over"
GoDown(s) == Fault /\ s \in up /\ up' = up \ {s} /\ UNCHANGED <<sess, dead, Others>>
ComeUp(s) == s \notin up /\ up' = up \cup {s} /\ UNCHANGED <<sess, dead, faults, Others>>
Restart(s) == /\ Fault /\ sess[s].open
              /\ sess' = [sess EXCEPT ![s] = NoSession]
              /\ UNCHANGED <<up, dead, Others>>
\* Time passes.
Age(s) == /\ dead[s] # "no" /\ pc # "over"
          /\ dead' = [dead EXCEPT ![s] = IF @ = "new" THEN "old" ELSE "no"]
          /\ UNCHANGED <<sess, up, faults, Others>>

Transport == \/ \E toks \in Pieces : Begin(toks)
             \/ OpenFirst \/ SendPiece \/ Skip \/ OpenNext \/ Replay \/ Resume
             \/ Exhausted \/ Ask \/ Finish \/ Close
World == \E s \in Server : GoDown(s) \/ ComeUp(s) \/ Restart(s) \/ Age(s)
Next == Transport \/ World

Spec == Init /\ [][Next]_vars
FairSpec == Spec /\ WF_vars(Transport)

-----------------------------------------------------------------------------
\* Properties.

\* The kept pieces are the text, in order and without a gap, whatever was cut:
\* what a replacement would be fed is what the loop has kept.
HistoryIsText ==
  CanMove /\ opened =>
    /\ FlattenSeq([i \in DOMAIN hist |-> hist[i].toks]) = text
    /\ \A i \in DOMAIN hist :
         hist[i].start = Len(FlattenSeq([j \in 1 .. i - 1 |-> hist[j].toks]))

\* "A newcomer gets the session replayed exactly as the dead one held it"
\* (transport.py:88), a server the session once left included.
ReplayExact ==
  /\ pc = "replay" /\ replayed = Len(hist) /\ hist # <<>>
  /\ sess[cand[active]].open
  => sess[cand[active]].kv = text

\* Whatever was lost, replayed or cut on the way, the server in use never
\* refuses a piece for its position (ValueError in BlockRange.forward).
NeverRefused ==
  pc = "send" => Handle(sess[cand[active]], piece).answer.status # 500

\* With a replica for every fault, the request survives all of them: no mark,
\* skip or order of candidates leaves a server that could answer untried.
FaultsSurvived == faults < Len(cand) => outcome # "failed"

\* A session left open on a server after the request is on one that did not
\* answer: one the transport gave up on, or that lost the close.
OrphansWereLost == pc = "over" => \A s \in Server \ lost : ~sess[s].open

\* What holds of the transport and the servers at every moment, together
\* (transport.py).
FailoverSound == /\ TypeOK /\ HistoryIsText /\ ReplayExact /\ NeverRefused
                 /\ FaultsSurvived /\ OrphansWereLost

\* Every request ends, whatever the servers do, once they stop failing.
Terminates == <>(pc = "over")

\* The endpoint keeps the promise of Decoding across servers.
Loop == INSTANCE Decoding WITH
  Token <- Token, Pieces <- Pieces, text <- text, seen <- seen, outcome <- outcome
LoopSpec == Loop!Spec
=============================================================================
