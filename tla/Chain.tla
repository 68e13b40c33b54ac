------------------------------- MODULE Chain -------------------------------
(***************************************************************************)
(* A request over a chain of two stages (commonnet/net/chain.py run, and   *)
(* chain_step, _chain_restart and close of commonnet/net/transport.py).    *)
(* The client sends token ids to the first peer, which runs them on its    *)
(* layers and sends the hidden states to the second; the reply comes back  *)
(* the same way.  A handler at the first peer therefore lives across a     *)
(* call of its own: it holds the session's chain_lock while it waits for   *)
(* the second peer, and goes on when the client has stopped waiting for it.*)
(* After a failure the client picks the peers again, closes the old        *)
(* session everywhere and feeds the kept ids to a new one.                 *)
(*                                                                         *)
(* A position of the first peer's cache holds a token; a position of the   *)
(* second peer's holds the hidden state it was given, which is a function  *)
(* of the first peer's cache up to it and is modelled by that prefix.      *)
(*                                                                         *)
(* An attempt abandoned before its handler has the lock may run late; that *)
(* is ForwardRetry's subject, and is left out here.                        *)
(***************************************************************************)
EXTENDS History, FiniteSets, SequencesExt

CONSTANTS
  Known,        \* Known[k]: the peers that serve stage k, the primary first
  MaxPiece, MaxLen,
  MaxSends,     \* attempts of one call
  MaxFaults     \* lost messages, time-outs, restarts, peers going down

Peer == ToSet(Known[1]) \cup ToSet(Known[2])

ASSUME ChainAssumption ==
  /\ Known \in Seq(Seq(Peer)) /\ Len(Known) = 2
  /\ \A k \in 1..2 : Known[k] # <<>> /\ IsInjective(Known[k])
  /\ ToSet(Known[1]) \cap ToSet(Known[2]) = {}
  /\ MaxPiece \in Nat \ {0} /\ MaxLen \in Nat
  /\ MaxSends \in Nat \ {0} /\ MaxFaults \in Nat

Wire == 1..MaxFaults + 1      \* wire_id: a restart needs a fault
Pieces == UNION {[1..n -> Token] : n \in 1..MaxPiece}

VARIABLES
  sess,      \* per peer and wire id: the session of BlockServer
  chained,   \* per peer and wire id: chain_last, {} or {[key, out]}
  up, dead,  \* peers that can be reached; peers marked for DEAD_SECONDS
  checked,   \* peers whose /health is in _chain_caps
  hops, wire, hist, cut,     \* the client's state of the session
  pc,        \* "idle" "call" "leave" "replay" "end" "over"
  piece,     \* the step being made: [start, toks]
  fresh, replayed,           \* a restart: the peers chosen, the entries sent
  why,       \* what the call is for: "step", "replay" or "again"
  body,      \* the call's request
  sends, blame,              \* attempts of the call, whose failure the last was
  left,      \* hops still to be told to close
  job,       \* the handler the client waits for, {} or one job
  late,      \* handlers it has stopped waiting for
  faults,
  missed,    \* history: where a close did not arrive, or a handler was abandoned
  text, seen, outcome

client == <<hops, wire, hist, cut, checked, piece, fresh, replayed>>
callVars == <<why, body, sends, blame>>
textVars == <<text, seen, outcome>>
peers == <<sess, chained>>
vars == <<peers, up, dead, client, pc, callVars, left, job, late, faults, missed, textVars>>

\* A handler: "new", "waiting" for the chain_lock, "onward" with its hidden
\* states, or "done" with an answer.
Job == [body : [wire : Wire, hops : Seq(Peer), req : Request],
        at : {"new", "waiting", "onward", "done"},
        hidden : Seq(Seq(Token)), status : {0, 200, 404, 409, 500, 502},
        out : Seq(Seq(Token))]

TypeOK ==
  /\ \A k \in 1..2 : \A p \in ToSet(Known[k]), w \in Wire :
       sess[p][w].open \in BOOLEAN /\ sess[p][w].kv \in Seq(IF k = 1 THEN Token ELSE Seq(Token))
  /\ up \subseteq Peer /\ dead \subseteq Peer /\ checked \subseteq Peer
  /\ hops[1] \in ToSet(Known[1]) /\ hops[2] \in ToSet(Known[2])
  /\ wire \in Wire /\ cut \in Nat \cup {NoCut}
  /\ sends \in 0..MaxSends /\ blame \in 1..2 /\ faults \in 0..MaxFaults
  /\ job \subseteq Job /\ late \subseteq Job
  /\ Cardinality(job) <= 1 /\ missed \subseteq Peer

Body(w, h, start, toks, c) ==
  [wire |-> w, hops |-> h, req |-> ForwardRequest(start, toks, c)]

Init ==
  /\ sess = [p \in Peer |-> [w \in Wire |-> NoSession]]
  /\ chained = [p \in Peer |-> [w \in Wire |-> {}]]
  /\ up = Peer /\ dead = {}
  /\ hops = <<Known[1][1], Known[2][1]>> /\ checked = {Known[1][1], Known[2][1]}
  /\ wire = 1 /\ hist = <<>> /\ cut = NoCut
  /\ pc = "idle" /\ piece = [start |-> 0, toks |-> <<>>] /\ fresh = hops /\ replayed = 0
  /\ why = "step" /\ body = Body(1, hops, 0, <<>>, NoCut) /\ sends = 0 /\ blame = 1
  /\ left = {} /\ job = {} /\ late = {} /\ faults = 0 /\ missed = {}
  /\ text = <<>> /\ seen = <<>> /\ outcome = "running"

Fault == faults < MaxFaults /\ faults' = faults + 1

-----------------------------------------------------------------------------
\* chain.run at the first peer, in three steps of one handler.

New(b) == [body |-> b, at |-> "new", hidden |-> <<>>, status |-> 0, out |-> <<>>]
Done(j, status, out) == [j EXCEPT !.at = "done", !.status = status, !.out = out]

\* The handler j becomes k, where it is kept.
Becomes(j, k) ==
  IF j \in job THEN job' = {k} /\ UNCHANGED late
  ELSE late' = (late \ {j}) \cup (IF k.at = "done" THEN {} ELSE {k}) /\ UNCHANGED job

\* The session is looked up, and opened by a first piece.
Arrive(j) ==
  LET p == j.body.hops[1]  w == j.body.wire IN
  /\ j.at = "new"
  /\ IF sess[p][w].open \/ j.body.req.start = 0
     THEN /\ sess' = [sess EXCEPT ![p][w] = OpenSession(@).session]
          /\ Becomes(j, [j EXCEPT !.at = "waiting"])
     ELSE Becomes(j, Done(j, 404, <<>>)) /\ UNCHANGED sess
  /\ UNCHANGED <<chained, up, dead, client, pc, callVars, left, faults, missed, textVars>>

Hidden(cache, start) == [i \in 1 .. Len(cache) - start |-> SubSeq(cache, 1, start + i)]

\* The saved reply taken whatever step it is of.
EnterAnyReply(j) ==
  LET p == j.body.hops[1]  w == j.body.wire
      run == Handle(sess[p][w], j.body.req)
  IN
  /\ j.at = "waiting"
  /\ ~\E k \in job \cup late : /\ k.at = "onward" /\ k.body.wire = w
                               /\ k.body.hops[1] = p
  /\ IF chained[p][w] # {}
     THEN Becomes(j, Done(j, 200, (CHOOSE l \in chained[p][w] : TRUE).out)) /\ UNCHANGED sess
     ELSE /\ sess' = [sess EXCEPT ![p][w] = run.session]
          /\ Becomes(j, IF run.answer.status = 200
                        THEN [j EXCEPT !.at = "onward",
                                       !.hidden = Hidden(run.answer.out, j.body.req.start)]
                        ELSE Done(j, run.answer.status, <<>>))
  /\ UNCHANGED <<chained, up, dead, client, pc, callVars, left, faults, missed, textVars>>

\* With the chain_lock: the saved reply of the last traversal, or the local
\* layers, run once (BlockServer.forward has its own saved reply).
Enter(j) ==
  LET p == j.body.hops[1]  w == j.body.wire
      again == {l \in chained[p][w] : l.key = j.body.req}
      run == Handle(sess[p][w], j.body.req)
  IN
  /\ j.at = "waiting"
  /\ ~\E k \in job \cup late : /\ k.at = "onward" /\ k.body.wire = w
                               /\ k.body.hops[1] = p
  /\ IF again # {}
     THEN Becomes(j, Done(j, 200, (CHOOSE l \in again : TRUE).out)) /\ UNCHANGED sess
     ELSE /\ sess' = [sess EXCEPT ![p][w] = run.session]
          /\ Becomes(j, IF run.answer.status = 200
                        THEN [j EXCEPT !.at = "onward",
                                       !.hidden = Hidden(run.answer.out, j.body.req.start)]
                        ELSE Done(j, run.answer.status, <<>>))
  /\ UNCHANGED <<chained, up, dead, client, pc, callVars, left, faults, missed, textVars>>

\* chain.run at the second peer, whole: its session and chain_last after a
\* request, and its answer.
AtSecond(q, w, r) ==
  LET s == IF r.start = 0 THEN OpenSession(sess[q][w]).session ELSE sess[q][w]
      again == {l \in chained[q][w] : s.open /\ l.key = r}
      run == Handle(s, r)
  IN IF again # {}
     THEN [session |-> s, chained |-> chained[q][w],
           status |-> 200, out |-> (CHOOSE l \in again : TRUE).out]
     ELSE [session |-> run.session,
           chained |-> IF run.answer.status = 200 THEN {[key |-> r, out |-> run.answer.out]}
                       ELSE chained[q][w],
           status |-> run.answer.status, out |-> run.answer.out]

\* The call to the second peer (retries=0), and what the first makes of its
\* answer: the reply is saved with the session, a lost session is 409, and
\* anything else 502.
Onward(j) ==
  LET p == j.body.hops[1]  q == j.body.hops[2]  w == j.body.wire
      r == [j.body.req EXCEPT !.toks = j.hidden]
      second == AtSecond(q, w, r)
      ran == /\ sess' = [sess EXCEPT ![q][w] = second.session]
             /\ chained' = [chained EXCEPT ![q][w] = second.chained]
  IN
  /\ j.at = "onward"
  /\ \/ /\ q \in up /\ second.status = 200
        /\ sess' = [sess EXCEPT ![q][w] = second.session]
        /\ chained' = [chained EXCEPT
             ![q][w] = second.chained,
             ![p][w] = IF sess[p][w].open THEN {[key |-> j.body.req, out |-> second.out]} ELSE @]
        /\ Becomes(j, Done(j, 200, second.out))
        /\ UNCHANGED faults
     \/ /\ q \in up /\ second.status # 200
        /\ ran /\ UNCHANGED faults
        /\ Becomes(j, Done(j, IF second.status = 404 THEN 409 ELSE 502, <<>>))
     \/ /\ IF q \in up THEN Fault /\ (ran \/ UNCHANGED peers)
                       ELSE UNCHANGED <<faults, peers>>
        /\ Becomes(j, Done(j, 502, <<>>))
  /\ UNCHANGED <<up, dead, client, pc, callVars, left, missed, textVars>>

Handler == \E j \in job \cup late : Arrive(j) \/ Enter(j) \/ Onward(j)

-----------------------------------------------------------------------------
\* BlockClient.chain: attempts until an answer that is not retried.

Start(reason, b) == why' = reason /\ body' = b /\ sends' = 0 /\ blame' = 1 /\ pc' = "call"

\* One attempt too many, and attempts not counted.
SendOneMore == /\ pc = "call" /\ job = {} /\ sends <= MaxSends
        /\ sends' = sends + 1
        /\ \/ hops[1] \in up /\ job' = {New(body)} /\ UNCHANGED <<faults, blame>>
           \/ /\ IF hops[1] \in up THEN Fault ELSE UNCHANGED faults
              /\ blame' = 1 /\ UNCHANGED job
        /\ UNCHANGED <<peers, up, dead, client, pc, why, body, left, late, missed, textVars>>
SendUncounted == /\ pc = "call" /\ job = {} /\ sends < MaxSends
        /\ \/ hops[1] \in up /\ job' = {New(body)} /\ UNCHANGED <<faults, blame>>
           \/ /\ IF hops[1] \in up THEN Fault ELSE UNCHANGED faults
              /\ blame' = 1 /\ UNCHANGED job
        /\ UNCHANGED <<peers, up, dead, client, pc, why, body, sends, left, late, missed, textVars>>
Send == /\ pc = "call" /\ job = {} /\ sends < MaxSends
        /\ sends' = sends + 1
        /\ \/ hops[1] \in up /\ job' = {New(body)} /\ UNCHANGED <<faults, blame>>
           \/ /\ IF hops[1] \in up THEN Fault ELSE UNCHANGED faults
              /\ blame' = 1 /\ UNCHANGED job
        /\ UNCHANGED <<peers, up, dead, client, pc, why, body, left, late, missed, textVars>>

\* The reply is lost, or the client's timeout passes before the handler's own:
\* in both cases the handler ran or runs on.
Lose == \E j \in job :
        /\ Fault /\ j.at \in {"onward", "done"}
        /\ job' = {} /\ blame' = 1
        /\ IF j.at = "done" THEN UNCHANGED <<late, missed>>
           ELSE late' = late \cup {j} /\ missed' = missed \cup ToSet(j.body.hops)
        /\ UNCHANGED <<peers, up, dead, client, pc, why, body, sends, left, textVars>>

\* 502 is retried; the error names the second peer's layer.
Retry == /\ \E j \in job : j.at = "done" /\ j.status = 502
         /\ job' = {} /\ blame' = 2
         /\ UNCHANGED <<peers, up, dead, client, pc, why, body, sends, left, late, faults,
                        missed, textVars>>

Answered(status) == pc = "call" /\ \E j \in job : j.at = "done" /\ j.status = status
Exhausted == pc = "call" /\ job = {} /\ sends = MaxSends

-----------------------------------------------------------------------------
\* chain_step

Step(toks) ==
  /\ pc = "idle" /\ Len(text) + Len(toks) <= MaxLen
  /\ piece' = [start |-> Len(text), toks |-> toks]
  /\ Start("step", Body(wire, hops, Len(text), toks, cut))
  /\ UNCHANGED <<peers, up, dead, hops, wire, hist, cut, checked, fresh, replayed, left,
                 job, late, faults, missed, textVars>>

\* truncate, deferred: the kept ids are cut now, the peers with the next step.
Truncate(h, n) == hist' = CutHistory(h, n) /\ cut' = n

\* The reply is accepted; drafts are kept up to position n.
Accept(n) ==
  LET full == text \o piece.toks
      sent == Append(hist, piece)
  IN
  /\ Answered(200) /\ why \in {"step", "again"}
  /\ n \in Len(text) + 1 .. Len(full)
  /\ n < Len(full) => piece.start > 0
  /\ text' = SubSeq(full, 1, n)
  /\ \E j \in job : seen' = Last(j.out)
  /\ IF n < Len(full) THEN Truncate(sent, n) ELSE hist' = sent /\ cut' = NoCut
  /\ job' = {} /\ pc' = "idle"
  /\ UNCHANGED <<peers, up, dead, hops, wire, checked, piece, fresh, replayed, callVars,
                 left, late, faults, missed, outcome>>

FirstAliveAny(known, marked) == known[1]
FirstAlive(known, marked) ==
  LET live == {i \in DOMAIN known : known[i] \notin marked}
  IN known[IF live = {} THEN 1 ELSE CHOOSE i \in live : \A k \in live : i <= k]

\* The first failure of a step: the peer to blame is marked unless it only
\* lost the session, and the peers are chosen again.  A peer not asked before
\* must answer /health.
Restart ==
  /\ why = "step"
  /\ \/ (Answered(404) \/ Answered(409)) /\ UNCHANGED dead
     \/ Exhausted /\ dead' = dead \cup {hops[blame]}
  /\ fresh' = [k \in 1..2 |-> FirstAlive(Known[k], dead')]
  /\ IF ToSet(fresh') \subseteq checked \cup up
     THEN pc' = "leave" /\ checked' = checked \cup ToSet(fresh') /\ UNCHANGED outcome
     ELSE pc' = "end" /\ outcome' = "failed" /\ UNCHANGED checked
  /\ left' = {1, 2} /\ job' = {}
  /\ UNCHANGED <<peers, up, hops, wire, hist, cut, piece, replayed, callVars, late,
                 faults, missed, text, seen>>

\* Only the first hop told.
CloseHopFirst ==
  \E k \in left :
    /\ k = 1 /\ left' = {}
    /\ \/ /\ hops[k] \in up
          /\ sess' = [sess EXCEPT ![hops[k]][wire] = CloseSession(@).session]
          /\ chained' = [chained EXCEPT ![hops[k]][wire] = {}]
          /\ UNCHANGED <<faults, missed>>
       \/ /\ IF hops[k] \in up THEN Fault ELSE UNCHANGED faults
          /\ missed' = missed \cup {hops[k]} /\ UNCHANGED peers

\* A close on the next hop, answered or not; what becomes of it is not looked
\* at.
CloseHop ==
  \E k \in left :
    /\ \A i \in left : k <= i
    /\ left' = left \ {k}
    /\ \/ /\ hops[k] \in up
          /\ sess' = [sess EXCEPT ![hops[k]][wire] = CloseSession(@).session]
          /\ chained' = [chained EXCEPT ![hops[k]][wire] = {}]
          /\ UNCHANGED <<faults, missed>>
       \/ /\ IF hops[k] \in up THEN Fault ELSE UNCHANGED faults
          /\ missed' = missed \cup {hops[k]} /\ UNCHANGED peers

Leave == /\ pc = "leave" /\ CloseHop
         /\ UNCHANGED <<up, dead, client, pc, callVars, job, late, textVars>>

\* A new wire id keeps a handler of the old session from being mistaken for
\* the replay.
Rewire ==
  /\ pc = "leave" /\ left = {}
  /\ hops' = fresh /\ wire' = wire + 1 /\ cut' = NoCut /\ replayed' = 0 /\ pc' = "replay"
  /\ UNCHANGED <<peers, up, dead, hist, checked, piece, fresh, callVars, left, job, late,
                 faults, missed, textVars>>

\* The kept entries are sent in order, then the failed piece again, uncut.
Replay ==
  /\ pc = "replay"
  /\ IF replayed < Len(hist)
     THEN Start("replay", Body(wire, hops, hist[replayed + 1].start, hist[replayed + 1].toks, NoCut))
     ELSE Start("again", Body(wire, hops, piece.start, piece.toks, NoCut))
  /\ UNCHANGED <<peers, up, dead, client, left, job, late, faults, missed, textVars>>

Replayed ==
  /\ Answered(200) /\ why = "replay"
  /\ replayed' = replayed + 1 /\ pc' = "replay" /\ job' = {}
  /\ UNCHANGED <<peers, up, dead, hops, wire, hist, cut, checked, piece, fresh, callVars,
                 left, late, faults, missed, textVars>>

End(how) == outcome' = how /\ pc' = "end" /\ left' = {1, 2} /\ job' = {}

\* A refused step is raised, and so is any failure of a restart.
Fail ==
  /\ \/ Answered(500)
     \/ why # "step" /\ (Answered(404) \/ Answered(409) \/ Exhausted)
  /\ End("failed")
  /\ UNCHANGED <<peers, up, dead, client, callVars, late, faults, missed, text, seen>>

Finish == /\ pc = "idle" /\ text # <<>> /\ End("done")
          /\ UNCHANGED <<peers, up, dead, client, callVars, late, faults, missed, text, seen>>

\* close, once per endpoint.
Close == /\ pc = "end"
         /\ IF left # {} THEN CloseHop /\ UNCHANGED pc
            ELSE pc' = "over" /\ UNCHANGED <<peers, left, faults, missed>>
         /\ UNCHANGED <<up, dead, client, callVars, job, late, textVars>>

-----------------------------------------------------------------------------
\* The world.

\* The process of a peer ends, with its sessions and handlers.
Crash(p) ==
  /\ Fault /\ p \in up /\ pc # "over"
  /\ up' = up \ {p}
  /\ sess' = [sess EXCEPT ![p] = [w \in Wire |-> NoSession]]
  /\ chained' = [chained EXCEPT ![p] = [w \in Wire |-> {}]]
  /\ job' = {j \in job : j.body.hops[1] # p}
  /\ late' = {j \in late : j.body.hops[1] # p}
  /\ blame' = IF job' = job THEN blame ELSE 1
  /\ UNCHANGED <<dead, client, pc, why, body, sends, left, missed, textVars>>
ComeUp(p) == /\ p \notin up /\ pc # "over" /\ up' = up \cup {p}
             /\ UNCHANGED <<peers, dead, client, pc, callVars, left, job, late, faults,
                            missed, textVars>>
\* DEAD_SECONDS pass.
Age(p) == /\ p \in dead /\ pc # "over" /\ dead' = dead \ {p}
          /\ UNCHANGED <<peers, up, client, pc, callVars, left, job, late, faults,
                         missed, textVars>>

Client == \/ \E toks \in Pieces : Step(toks)
          \/ Send \/ Retry \/ (\E n \in 1..MaxLen : Accept(n)) \/ Restart \/ Leave \/ Rewire
          \/ Replay \/ Replayed \/ Fail \/ Finish \/ Close
Next == Client \/ Handler \/ Lose \/ \E p \in Peer : Crash(p) \/ ComeUp(p) \/ Age(p)

Spec == Init /\ [][Next]_vars
FairSpec == Spec /\ WF_vars(Client) /\ WF_vars(Handler)

-----------------------------------------------------------------------------
\* Properties.

\* The reply the client is about to accept was computed by the second peer
\* over hidden states that the first computed over exactly the kept text and
\* the step: no retry, half-finished traversal, restart or old handler shows.
ChainFaithful ==
  why # "replay" => \A j \in job :
    j.at = "done" /\ j.status = 200 => j.out = Hidden(text \o piece.toks, 0)

\* The peers are never out of step: what the second holds for a wire id was
\* computed by the first, at the same positions.
SecondFollows ==
  pc = "idle" /\ text # <<>> =>
    LET first == sess[hops[1]][wire]  second == sess[hops[2]][wire] IN
    first.open /\ second.open /\ cut = NoCut =>
      first.kv = text /\ second.kv = Hidden(text, 0)

\* No peer ever refuses a position, at the first hop or behind it.
NeverRefused == \A j \in job : j.status # 500

\* With a replica of every stage, no single fault ends a request: the chain is
\* rebuilt around the peer whose layer the error names, or in place when a
\* session was all that was lost.
OneFaultSurvived == faults <= 1 => outcome # "failed"

\* A session left open after the request is on a peer that missed its close,
\* or under a handler that outlived it.
OrphansExplained ==
  pc = "over" => \A p \in Peer \ missed, w \in Wire : ~sess[p][w].open

\* What holds of the two peers and their client at every moment, together
\* (chain.py, transport.py).
ChainSound == /\ TypeOK /\ ChainFaithful /\ SecondFollows /\ NeverRefused
              /\ OneFaultSurvived /\ OrphansExplained

\* Every request ends and every handler lets its lock go.
Terminates == <>(pc = "over" /\ late = {})

\* The chain keeps the promise of Decoding.
Loop == INSTANCE Decoding WITH
  Token <- Token, Pieces <- Pieces, text <- text, seen <- seen, outcome <- outcome
LoopSpec == Loop!Spec
=============================================================================
