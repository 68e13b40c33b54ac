---------------------------- MODULE ForwardRetry ----------------------------
(***************************************************************************)
(* One request on one block server: the client of commonnet/net/client.py  *)
(* opens a session, feeds it steps and closes it, repeating each call      *)
(* until it is answered or its attempts are used up (BlockClient._call,    *)
(* _http_call, _once), over a network that loses requests and replies,     *)
(* against the server of BlockServer.tla, which may restart with no        *)
(* session.  The steps are those of Client.generate_stream (a prompt in    *)
(* pieces, then one token each) or of speculative_stream (the last token   *)
(* and drafts, some of which the reply may refuse; the cut that drops them *)
(* rides on the next step).                                                *)
(*                                                                         *)
(* An attempt the client has stopped waiting for is not withdrawn: its     *)
(* handler thread may still be waiting for BlockServer._lock behind other  *)
(* sessions' forwards, or its bytes may still be in a tunnel.  It is kept  *)
(* in late and may run at any later time, between any two other steps.     *)
(***************************************************************************)
EXTENDS BlockServer, FiniteSets

CONSTANTS
  MaxPiece,      \* longest step, in tokens
  MaxLen,        \* longest text
  MaxSends,      \* attempts of one call
  MaxCrashes,    \* restarts of the server
  MaxLate,       \* abandoned attempts that may still run
  Mode           \* ways a request may run: drafts: the loop may drop drafts;
                 \* late: an abandoned attempt may still run

ASSUME RetryAssumption ==
  /\ MaxPiece \in Nat \ {0} /\ MaxLen \in Nat /\ MaxSends \in Nat \ {0}
  /\ MaxCrashes \in Nat /\ MaxLate \in Nat
  /\ Mode \subseteq [drafts : BOOLEAN, late : BOOLEAN]

VARIABLES
  mode,     \* the way of this request
  srv,      \* the session on the server
  req,      \* the call the client is making
  sends,    \* its attempts so far
  wait,     \* "idle": between attempts; "sent"; "answered"; "over": no call left
  answer,   \* the answer on its way when wait = "answered"
  late,     \* abandoned attempts that may still run: [req, n]
  crashes,
  text, seen, outcome   \* as in Decoding

vars == <<mode, srv, req, sends, wait, answer, late, crashes, text, seen, outcome>>
netVars == <<mode, late, crashes>>
textVars == <<text, seen, outcome>>

Pieces == UNION {[1..n -> Token] : n \in 1..MaxPiece}

TypeOK ==
  /\ mode \in Mode
  /\ srv \in Session
  /\ req \in Request
  /\ sends \in 0..MaxSends
  /\ wait \in {"idle", "sent", "answered", "over"}
  /\ answer \in Answer
  /\ late \subseteq [req : Request, n : 0..MaxSends]
  /\ crashes \in 0..MaxCrashes
  /\ text \in Seq(Token)
  /\ seen \in Seq(Token)
  /\ outcome \in {"running", "done", "failed"}

Init == /\ mode \in Mode
        /\ srv = NoSession /\ req = OpenRequest /\ sends = 0 /\ wait = "idle"
        /\ answer = [status |-> 404, out |-> <<>>] /\ late = {} /\ crashes = 0
        /\ text = <<>> /\ seen = <<>> /\ outcome = "running"

-----------------------------------------------------------------------------
\* The wire and the server.

SendUncounted == /\ wait = "idle"
                 /\ wait' = "sent" /\ sends' = sends + 1
                 /\ UNCHANGED <<srv, req, answer, netVars, textVars>>
Send == /\ wait = "idle" /\ sends < MaxSends
        /\ wait' = "sent" /\ sends' = sends + 1
        /\ UNCHANGED <<srv, req, answer, netVars, textVars>>

Serve == /\ wait = "sent"
         /\ srv' = Handle(srv, req).session
         /\ answer' = Handle(srv, req).answer
         /\ wait' = "answered"
         /\ UNCHANGED <<req, sends, netVars, textVars>>

\* A refused or dropped connection, or a dropped reply.
Lose == /\ wait \in {"sent", "answered"}
        /\ wait' = "idle"
        /\ UNCHANGED <<srv, req, sends, answer, netVars, textVars>>

TimeOut == /\ wait = "sent" /\ mode.late /\ Cardinality(late) < MaxLate
           /\ late' = late \cup {[req |-> req, n |-> sends]}
           /\ wait' = "idle"
           /\ UNCHANGED <<mode, srv, req, sends, answer, crashes, textVars>>

ServeLate(m) == /\ srv' = Handle(srv, m.req).session
                /\ late' = late \ {m}
                /\ UNCHANGED <<mode, req, sends, wait, answer, crashes, textVars>>

\* The process restarts: every session is gone, and the connection with it.
Crash == /\ crashes < MaxCrashes /\ wait # "over"
         /\ crashes' = crashes + 1
         /\ srv' = NoSession
         /\ wait' = "idle"
         /\ UNCHANGED <<mode, req, sends, answer, late, textVars>>

-----------------------------------------------------------------------------
\* The loop.

Call(r) == req' = r /\ sends' = 0 /\ wait' = "idle"

\* The next step: it starts at the end of the kept text, carries the cut if
\* drafts were dropped, and its first token is not the draft just refused.
Feed(kept, refused) ==
  \E toks \in Pieces :
    /\ Len(kept) + Len(toks) <= MaxLen
    /\ refused # <<>> => toks[1] # refused[1]
    /\ Call(ForwardRequest(Len(kept), toks,
                           IF refused = <<>> THEN NoCut ELSE Len(kept)))
    /\ outcome' = "running"

Stop(how) == Call(CloseRequest) /\ outcome' = how

Answered(status) == wait = "answered" /\ answer.status = status
Opened == /\ Answered(200) /\ req.op = "open"
          /\ Feed(text, <<>>)
          /\ UNCHANGED <<srv, answer, netVars, text, seen>>

\* The reply of a step is accepted.  Drafts are kept up to position n.
Accept(n) ==
  LET full == text \o req.toks IN
  /\ Answered(200) /\ req.op = "forward"
  /\ n \in Len(text) + 1 .. Len(full)
  /\ n < Len(full) => mode.drafts /\ req.start > 0
  /\ text' = SubSeq(full, 1, n)
  /\ seen' = answer.out
  /\ \/ Feed(SubSeq(full, 1, n), SubSeq(full, n + 1, Len(full)))
     \/ Stop("done")
  /\ UNCHANGED <<srv, answer, netVars>>

\* An error answer is raised at once, and the last failed attempt too; the
\* loop's finally clause closes the session.
Fail ==
  /\ req.op # "close" /\ outcome = "running"
  /\ \/ wait = "answered" /\ answer.status # 200
     \/ wait = "idle" /\ sends = MaxSends
  /\ Stop("failed")
  /\ UNCHANGED <<srv, answer, netVars, text, seen>>

ClosedIfAnswered ==
  /\ req.op = "close" /\ wait = "answered"
  /\ wait' = "over"
  /\ UNCHANGED <<srv, req, sends, answer, netVars, textVars>>
\* What becomes of the close is not looked at.
Closed ==
  /\ req.op = "close"
  /\ \/ wait = "answered"
     \/ wait = "idle" /\ sends = MaxSends
  /\ wait' = "over"
  /\ UNCHANGED <<srv, req, sends, answer, netVars, textVars>>

Client == Send \/ Opened \/ (\E n \in 1..MaxLen : Accept(n)) \/ Fail \/ Closed
Next == \/ Client \/ Serve \/ Lose \/ TimeOut \/ Crash
        \/ \E m \in late : ServeLate(m)

Spec == Init /\ [][Next]_vars
FairSpec == Spec /\ WF_vars(Client) /\ WF_vars(Serve)

-----------------------------------------------------------------------------
\* Properties.

\* The reply the client is about to accept was computed over exactly the
\* tokens it has kept and the ones it fed: no retry, restart, rollback or
\* stale attempt shows in it (server.py BlockServer.forward, _step_key).
AcceptedFaithful ==
  Answered(200) /\ req.op = "forward" => answer.out = text \o req.toks

\* While the client is feeding it in order, the server never holds less than,
\* or other than, what the client has kept: no step is run a second time over
\* a cache that has moved on ("the cache is written once", client.py).
AcceptedKept ==
  /\ ~mode.late /\ outcome = "running" /\ srv.kv # <<>>
  => /\ Len(srv.kv) >= Len(text)
     /\ SubSeq(srv.kv, 1, Len(text)) = text

\* A call retried in order is never the cause of a block failure (500): only a
\* restart (404) or running out of attempts ends a request.
RetriesNeverBreak == ~mode.late /\ wait = "answered" => answer.status # 500

\* Once the client's close was answered nothing is left on the server, unless
\* an abandoned attempt came after it.
ClosedLeavesNothing ==
  ~mode.late /\ req.op = "close" /\ Answered(200) => srv = NoSession

-----------------------------------------------------------------------------
\* Why they hold.  full is the text with the step being fed after it; it only
\* grows when nothing is dropped, and everything that was ever sent in plain
\* decoding, run now or late, is a piece of it at its own place.

Prefix(p, full) == /\ Len(p) <= Len(full)
                   /\ \A i \in 1..Len(p) : p[i] = full[i]

InPlace(r, full) ==
  r.op = "forward" =>
    /\ r.cut = NoCut
    /\ r.start + Len(r.toks) <= Len(full)
    /\ \A i \in 1..Len(r.toks) : r.toks[i] = full[r.start + i]

InStep(s, full) ==
  /\ Prefix(s.kv, full)
  /\ \A l \in s.last : /\ l.key.op = "forward"
                        /\ InPlace(l.key, full)
                        /\ Len(l.out) = l.key.start + Len(l.key.toks)
                        /\ Prefix(l.out, full)

PlainInv ==
  IF outcome # "running" THEN req.op = "close"
  ELSE /\ req.op = "open" => text = <<>> /\ req = OpenRequest
       /\ req.op = "forward" => req.start = Len(text) /\ req.toks \in Pieces
       /\ req.op # "close"
       /\ InPlace(req, text \o req.toks)
       /\ \A m \in late : InPlace(m.req, text \o req.toks)
       /\ InStep(srv, text \o req.toks)
       /\ AcceptedFaithful

\* Served in order, the server is at one of two places: before the step, with
\* at most the dropped drafts past the text, or after it, with its reply saved.
Before == /\ \A l \in srv.last : l.key # req
          /\ Prefix(text, srv.kv)
          /\ req.cut = NoCut => Len(srv.kv) = Len(text)
After == /\ srv.last = {[key |-> req, out |-> text \o req.toks]}
         /\ srv.kv = text \o req.toks

InOrderInv ==
  /\ late = {}
  /\ ~srv.open => srv = NoSession
  /\ RetriesNeverBreak
  /\ ClosedLeavesNothing
  /\ IF outcome # "running" THEN req.op = "close"
     ELSE /\ req.op # "close"
          /\ req.op = "open" => /\ text = <<>> /\ req = OpenRequest
                                /\ srv.kv = <<>> /\ srv.last = {}
          /\ req.op = "forward" => /\ req.start = Len(text) /\ req.toks \in Pieces
                                   /\ req.cut \in {NoCut, Len(text)}
                                   /\ srv.open => Before \/ After
                                   /\ Answered(200) => After
          /\ AcceptedFaithful

\* The types, and the two that need attempts served in order, together
\* (block.py, server.py).
ServerSound == TypeOK /\ RetriesNeverBreak /\ ClosedLeavesNothing

\* Every request ends, answered or given up.
Terminates == <>(wait = "over")

\* The request, seen from the decoding loop, is the one of Decoding.
Loop == INSTANCE Decoding WITH
  Token <- Token, Pieces <- Pieces, text <- text, seen <- seen, outcome <- outcome
LoopSpec == Loop!Spec
=============================================================================
