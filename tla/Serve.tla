------------------------------- MODULE Serve -------------------------------
(***************************************************************************)
(* The local chat API (commonnet/serve.py) over the client's view of the   *)
(* network (commonnet/netclient.py) and the local front                    *)
(* (commonnet/localfront.py).  Handler threads read tokens from a queue of *)
(* their own; one worker thread plans a route for each request, keeps the  *)
(* transport of the last one when the route is the same, and decodes.      *)
(*                                                                         *)
(* Sessions on the peers and the failover within a request are Failover;   *)
(* here a transport reaches a token when one of its candidates is up.      *)
(***************************************************************************)
EXTENDS Integers, Sequences

CONSTANTS
  Streamed, Plain,  \* requests, by how they are answered
  Peer,
  AfterFront,            \* the peers that serve from the front's last layer; the others serve all
  Seed,             \* peers known by an address that does not change
  SharedFront,          \* whether a front shares the node's own block
  MaxTokens,
  MaxChanges,       \* peers that stop or come back
  MaxMoves          \* of the node's own block to another window

Request == Streamed \cup Plain

VARIABLES
  addr,       \* per peer the address it answers at; 0, it is down
  table,      \* per peer the address its live record gives; 0, none
  recent,     \* the table was refreshed within refresh_interval
  jobs,       \* what the worker thread has been given, "close" included
  work,       \* its place, tokens made, and the route planned for the request
  kept,       \* the transport kept, by the number of its plan (0: none), its route, its candidates
  open,       \* transports that have not been shut down
  plans,      \* transports built
  out,        \* per request the queue from the worker to the reader
  reader, got, hung, cancelled, outcome,
  front, block,  \* the block the front runs, and the node's own: generations
  closing, changes

vars == <<addr, table, recent, jobs, work, kept, open, plans, out, reader, got, hung,
          cancelled, outcome, front, block, closing, changes>>
world == <<addr, block, closing, changes>>
readers == <<reader, got, hung, cancelled, outcome>>
net == <<kept, open, plans>>

ERROR == -1  \* the items of a queue that are not tokens
END == 0

NoRoute == [front |-> 0, at |-> {}]
Init == /\ addr = [p \in Peer |-> 1] /\ table = [p \in Peer |-> 0] /\ recent = FALSE
        /\ jobs = <<>> /\ work = [pc |-> "idle", n |-> 0, route |-> NoRoute]
        /\ kept = [plan |-> 0, route |-> NoRoute, at |-> {}] /\ open = {} /\ plans = 0
        /\ out = [r \in Request |-> <<>>] /\ reader = [r \in Request |-> "new"]
        /\ got = [r \in Request |-> 0] /\ hung = {} /\ cancelled = {}
        /\ outcome = [r \in Request |-> <<>>]
        /\ front = (IF SharedFront THEN 1 ELSE 0) /\ block = 1 /\ closing = FALSE /\ changes = 0

-----------------------------------------------------------------------------
\* The network, and the node this client may run in.
Change(p) == /\ changes < MaxChanges /\ changes' = changes + 1
             /\ addr' = [addr EXCEPT ![p] = IF @ = 0 THEN changes' + 1 ELSE 0]
             /\ UNCHANGED <<table, recent, jobs, work, net, out, readers, front, block, closing>>
\* A record ages out of the table.
Expire(p) == /\ table[p] # 0 /\ table[p] # addr[p]
             /\ table' = [table EXCEPT ![p] = 0]
             /\ UNCHANGED <<world, recent, jobs, work, net, out, readers, front>>
Tick == /\ recent /\ recent' = FALSE
        /\ UNCHANGED <<world, table, jobs, work, net, out, readers, front>>
\* Node.move shuts its block down and loads another; the front is left as it was.
Move == /\ block <= MaxMoves /\ block' = block + 1
        /\ UNCHANGED <<addr, table, recent, jobs, work, net, out, readers, front, closing, changes>>

\* Network.refresh: whoever answers tells the records of the peers that are up.
Answers == \E p \in Peer : addr[p] # 0 /\ (p \in Seed \/ table[p] = addr[p])
Heard(t) == /\ DOMAIN t = Peer
            /\ \A p \in Peer : IF addr[p] # 0 THEN t[p] = addr[p] ELSE t[p] \in {0, table[p]}
Refresh(force) ==
  IF recent /\ ~force THEN UNCHANGED <<table, recent>>
  ELSE /\ recent' = TRUE
       /\ IF Answers THEN table' \in {t \in [Peer -> 0..MaxChanges + 1] : Heard(t)}
                     ELSE UNCHANGED table

Listed(t, ps) == {<<p, t[p]>> : p \in {q \in ps : t[q] # 0}}
\* Network._best: from the front when a peer starts where it ends, else the whole model.
Best(t) ==
  IF front # 0 /\ Listed(t, AfterFront) # {} THEN [front |-> front, at |-> Listed(t, AfterFront)]
                                       ELSE [front |-> 0, at |-> Listed(t, Peer \ AfterFront)]
WindowOf(route) == IF route.front # 0 THEN AfterFront ELSE Peer \ AfterFront

-----------------------------------------------------------------------------
\* The worker thread.
Req == Head(jobs)
Put(item) == out' = [out EXCEPT ![Req] = Append(@, item)]

Begin == /\ work.pc = "idle" /\ jobs # <<>> /\ Req # "close"
         /\ work' = [work EXCEPT !.pc = "plan", !.n = 0]
         /\ UNCHANGED <<world, table, recent, jobs, net, out, readers, front>>
\* Network.route and transport: refresh, and once more by force before giving up.
Plan == /\ work.pc \in {"plan", "replan"}
        /\ Refresh(work.pc = "replan")
        /\ LET best == Best(table')
           IN IF best.at # {}
              THEN /\ work' = [work EXCEPT !.pc = "adopt", !.route = best]
                   /\ plans' = plans + 1 /\ open' = open \cup {plans'}
                   /\ UNCHANGED out
              ELSE /\ UNCHANGED <<plans, open>>
                   /\ IF work.pc = "plan" /\ (Answers \/ \E p \in Peer : table'[p] # 0)
                      THEN work' = [work EXCEPT !.pc = "replan"] /\ UNCHANGED out
                      ELSE work' = [work EXCEPT !.pc = "end"] /\ Put(ERROR)
        /\ UNCHANGED <<world, jobs, kept, readers, front>>
\* NetworkBackend._generate: an unchanged route keeps its transport and links.
AdoptByWindow ==
  /\ work.pc = "adopt"
  /\ IF kept.plan # 0 /\ (kept.route.front = 0) = (work.route.front = 0)
     THEN open' = open \ {plans} /\ UNCHANGED kept
     ELSE /\ open' = open \ {kept.plan}
          /\ kept' = [plan |-> plans, route |-> work.route, at |-> work.route.at]
  /\ work' = [work EXCEPT !.pc = "decode"]
  /\ UNCHANGED <<world, table, recent, jobs, plans, out, readers, front>>
AdoptLeaving ==
  /\ work.pc = "adopt"
  /\ IF kept.plan # 0 /\ kept.route = work.route
     THEN UNCHANGED <<open, kept>>
     ELSE /\ open' = open \ {kept.plan}
          /\ kept' = [plan |-> plans, route |-> work.route, at |-> work.route.at]
  /\ work' = [work EXCEPT !.pc = "decode"]
  /\ UNCHANGED <<world, table, recent, jobs, plans, out, readers, front>>
Adopt ==
  /\ work.pc = "adopt"
  /\ IF kept.plan # 0 /\ kept.route = work.route
     THEN open' = open \ {plans} /\ UNCHANGED kept
     ELSE /\ open' = open \ {kept.plan}
          /\ kept' = [plan |-> plans, route |-> work.route, at |-> work.route.at]
  /\ work' = [work EXCEPT !.pc = "decode"]
  /\ UNCHANGED <<world, table, recent, jobs, plans, out, readers, front>>

Reached == \E c \in kept.at : addr[c[1]] = c[2]
FrontRuns == kept.route.front \in {0, block}
\* _WorkerStream._run: cancel is looked at when an item has been made.
Token == /\ work.pc = "decode" /\ work.n < MaxTokens /\ Reached /\ FrontRuns
         /\ IF Req \in cancelled THEN work' = [work EXCEPT !.pc = "end"] /\ UNCHANGED out
                                 ELSE work' = [work EXCEPT !.n = @ + 1] /\ Put(work.n + 1)
         /\ UNCHANGED <<world, table, recent, jobs, net, readers, front>>
\* Every candidate is down: Network._fresh_for adds the peers now listed for the window.
Fresh == /\ work.pc = "decode" /\ work.n < MaxTokens /\ ~Reached
         /\ Refresh(FALSE)
         /\ kept' = [kept EXCEPT !.at = @ \cup Listed(table', WindowOf(kept.route))]
         /\ UNCHANGED <<world, jobs, work, open, plans, out, readers, front>>
FailsUnseen ==
  /\ work.pc = "decode" /\ work.n < MaxTokens /\ (~Reached \/ ~FrontRuns)
  /\ work' = [work EXCEPT !.pc = "idle", !.route = NoRoute] /\ jobs' = Tail(jobs)
  /\ UNCHANGED <<world, table, recent, net, out, readers, front>>
FailsSilently ==
  /\ work.pc = "decode" /\ work.n < MaxTokens /\ (~Reached \/ ~FrontRuns)
  /\ work' = [work EXCEPT !.pc = "end"]
  /\ UNCHANGED <<world, table, recent, jobs, net, out, readers, front>>
\* wait_s has passed, or the front's block was shut down under it.
Fails == /\ work.pc = "decode" /\ work.n < MaxTokens /\ (~Reached \/ ~FrontRuns)
         /\ work' = [work EXCEPT !.pc = "end"] /\ Put(ERROR)
         /\ UNCHANGED <<world, table, recent, jobs, net, readers, front>>
End == /\ work.pc = "end" \/ (work.pc = "decode" /\ work.n = MaxTokens)
       /\ Put(END) /\ jobs' = Tail(jobs)
       /\ work' = [work EXCEPT !.pc = "idle", !.route = NoRoute]
       /\ UNCHANGED <<world, table, recent, net, readers, front>>
\* NetworkBackend.close: after the requests that were there before it.
ShutDown == /\ work.pc = "idle" /\ jobs # <<>> /\ Req = "close"
            /\ kept' = [plan |-> 0, route |-> NoRoute, at |-> {}] /\ open' = open \ {kept.plan}
            /\ jobs' = Tail(jobs)
            /\ UNCHANGED <<world, table, recent, work, plans, out, readers, front>>

-----------------------------------------------------------------------------
\* The handler threads.
Post(r) == /\ reader[r] = "new" /\ ~closing
           /\ reader' = [reader EXCEPT ![r] = "reading"]
           /\ jobs' = Append(jobs, r)
           /\ UNCHANGED <<world, table, recent, work, net, out, got, hung, cancelled, outcome, front>>
\* (A plain reply is written only when it is whole.)
Hangup(r) == /\ r \in Streamed \ hung /\ reader[r] = "reading"
             /\ hung' = hung \cup {r}
             /\ UNCHANGED <<world, table, recent, jobs, work, net, out, reader, got, cancelled,
                            outcome, front>>
Settle(r, state, what) ==
  /\ reader' = [reader EXCEPT ![r] = state]
  /\ outcome' = [outcome EXCEPT ![r] = Append(@, what)]
  /\ cancelled' = cancelled \cup {r}
\* A reader that has gone is noticed when a streamed token is written to it.
Take(r) ==
  LET item == Head(out[r])
  IN /\ reader[r] = "reading" /\ out[r] # <<>>
     /\ out' = [out EXCEPT ![r] = Tail(@)]
     /\ CASE item = ERROR -> Settle(r, "done", "failed") /\ UNCHANGED got
          [] item = END -> Settle(r, "done", "completed") /\ UNCHANGED got
          [] r \in hung -> Settle(r, "done", "cancelled") /\ UNCHANGED got
          [] OTHER -> got' = [got EXCEPT ![r] = item] /\ UNCHANGED <<reader, outcome, cancelled>>
     /\ UNCHANGED <<world, table, recent, jobs, work, net, hung, front>>
Close == /\ ~closing /\ closing' = TRUE
         /\ jobs' = Append(jobs, "close")
         /\ UNCHANGED <<addr, table, recent, work, net, out, readers, front, block, changes>>

Work == Begin \/ Plan \/ Adopt \/ Token \/ Fails \/ End \/ ShutDown
Next == \/ Work \/ Fresh \/ Tick \/ Move \/ Close
        \/ \E p \in Peer : Change(p) \/ Expire(p)
        \/ \E r \in Request : Post(r) \/ Hangup(r) \/ Take(r)
Spec == Init /\ [][Next]_vars /\ WF_vars(Work) /\ \A r \in Request : WF_vars(Take(r))

-----------------------------------------------------------------------------
TypeOK ==
  /\ addr \in [Peer -> 0..MaxChanges + 1] /\ table \in [Peer -> 0..MaxChanges + 1]
  /\ jobs \in Seq(Request \cup {"close"})
  /\ work.pc \in {"idle", "plan", "replan", "adopt", "decode", "end"} /\ work.n \in 0..MaxTokens
  /\ kept.plan \in 0..plans /\ open \subseteq 1..plans
  /\ reader \in [Request -> {"new", "reading", "done"}] /\ got \in [Request -> 0..MaxTokens]
  /\ front \in 0..1 /\ block \in 1..MaxMoves + 1

\* A request runs on the route planned for it: a transport is kept only while it stands for
\* the same peers at the same addresses (serve.py, _generate, _transport_signature).
RunsOnItsPlan == work.pc = "decode" => kept.route = work.route /\ work.route.at \subseteq kept.at
\* A transport that is not the kept one is shut down, and none outlives the backend
\* (serve.py, _generate, close).
NoLinksLeft == work.pc \notin {"adopt"} => open = {kept.plan} \ {0}
\* What is counted, and told, as a completed answer is the whole answer, and a request is
\* counted once (serve.py, _run; metrics.py, MeasuredStream).
CompleteIsWhole ==
  \A r \in Request : /\ Len(outcome[r]) <= 1
                     /\ outcome[r] = <<"completed">> => got[r] = MaxTokens
ServeSound == RunsOnItsPlan /\ NoLinksLeft /\ CompleteIsWhole

\* Every request ends, whoever hangs up and whatever peers do, and so does the worker's
\* part in it (serve.py, _WorkerStream).
ServeEnds == /\ \A r \in Request : reader[r] = "reading" ~> reader[r] = "done"
             /\ jobs # <<>> /\ closing ~> jobs = <<>>

\* A front never fails a request: it runs, or the route goes without it (node.py,
\* _init_local_front).
FrontServes == work.pc = "decode" => FrontRuns
=============================================================================
