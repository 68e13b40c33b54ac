# Common network, in TLA+

Common network runs one language model over the machines of people who do not
know each other. Each *peer* serves a window of the model's layers; a *client*
embeds the prompt, sends it through peers whose windows form a chain, and gets
the next token back. Peers find each other by gossip, a gateway's directory or a
DHT, choose their windows themselves or follow a plan, and come and go as they
like. Little is kept on disk but keys, weights, the program and a few reports:
every table, session and cache lives in the memory of one process.

This directory holds TLA+ modules of the parts whose correctness depends on the
order of events, TLC configurations that check them on small instances, and
TLAPS proofs of some of what the runs check for every value of the constants.
`PROJECT.json` lists the runs, what each definition models (`map`), the hazards
of the code and the properties that cover them, and a plausible slip for every
property that shows the property rejects it (`mutants`).

    tlc -workers 2 -config MCFailover_failover.cfg MCFailover
    tlapm ChainProofs.tla

## 1. The system

| Part | Code | State it keeps | Operations | Module |
|---|---|---|---|---|
| Block server | `net/server.py`, `block.py` | sessions: KV cache, last saved reply, chain lock | open, forward (with a cut), truncate, close, chain | `BlockServer`, `Chain` |
| Block client | `net/client.py` | idle connections | a call with its attempts | `ForwardRetry` |
| Transport | `net/transport.py` | per endpoint and session: candidates, dead marks, the one in use, kept pieces, deferred cut | forward, truncate, close, recover | `Failover` |
| Chain | `net/chain.py`, `net/transport.py` | per session: wire id, hops, kept ids, `chain_last` | run, chain_step, restart, close | `Chain` |
| Decoding loops | `client.py`, `speculative.py` | the text so far, drafts, k | prompt, step, verify, cut | `Decoding`, `Greedy` (abstract), `Speculative` |
| Records, table | `mesh/records.py`, `mesh/gossip.py` | last seq; newest record per peer | sign, merge, export | `PeerTable` |
| Gossiper | `mesh/gossip.py` | failures per address | a round of exchanges | `Gossip` |
| DHT | `dht/` | routing table, stored records, tokens, counters | announce, collect, store, ping, refresh | `Dht`, `DhtTable` |
| Directory, dashboard | `gateway/app/`, `metrics.py` | records and reports with their time | announce, report, expire | `Directory` |
| Placement | `mesh/manifest.py`, `mesh/placement.py` | none | coverage, choose_window, should_move, best_route | `Placement` |
| Whole-network plan | `mesh/assign.py` | none | a plan from all records | `Assign` |
| Node | `node.py` | state, window, server, tunnel, last move | start, maintain, move, stop | `Mover` (joining, moving), `NodeLifecycle` (threads, tunnel) |
| Reachability | `direct.py`, `net/nat.py` | decision, mapping, its renewal | decide, renew, release, reopen | `Direct` |
| Direct links | `net/rtc.py`, `net/client.py` | links, slots, endpoints in flight, epochs | upgrade, negotiate, use, close | `RtcLinks` |
| Local API | `serve.py`, `netclient.py`, `localfront.py` | warm transport, one worker, streams | request, plan, decode, cancel, close | `Serve` |
| Download | `hub.py` | parts, finished files, index | ranges, resume, retry | `Hub` |
| Runtime | `join/runtime.py` | archives, builds, `current` | fetch, verify, unpack, point | `Runtime` |
| Self-update | `common/common.py`, `join/join.py` | the installed files | bundle, swap, restore, refresh | `Update` |
| Service | `join/join.py`, `join/layers.py`, `common/common.py` | code, environment, status file, service definition | join, set up, leave | `PeerService` |
| Reports | `common/common.py` | stash, one file per report | ask, report, retry, prune | `Reports` |
| Node of the retired network | `join/join.py`, `join/worker.py` | model server, tunnel, registration; connections | register, reannounce; proxy | `LegacyNode`, `WorkerProxy` |

How they interact. A decoding loop calls the transport once per step. Hop by
hop, the transport calls a block server for every stage and passes the hidden
states on itself; over a chain, it calls the first peer, whose handler calls
the second while it holds the session's lock. Either way a call is a
`BlockClient` call, which may be sent several times, and which may go over a
direct link when one is ready. Below that, nodes sign records, hand them to each
other in gossip rounds, put them in the DHT and announce them to the gateway, and
each reads its own table to decide where to serve; the client reads its table
to find a route. On the machine itself a service keeps the node running, from a
program that replaces its own files and weights that arrive in pieces.

What is hard about it:

* *A call that timed out is not withdrawn.* Its handler may still run, after
  its retry and after later steps; the server saves one reply per session only.
* *Cuts are deferred.* Rejected drafts are dropped from the kept pieces at once
  and from the server's cache with the next step, across failures in between.
* *A handler that calls.* The first peer of a chain can be half a step ahead of
  the second, with nobody waiting for it any more.
* *A replacement server must be given the text exactly*, in pieces, and may
  itself fail in the middle.
* *Every node decides by a table of its own* that lags behind in its own way,
  and there is nobody to ask.
* *A node is several threads* over fields they share, with a lock only around each
  assignment; `stop` goes on after five seconds whether or not the others have ended.
* *Clocks and restarts.* Records are ordered by numbers read from a clock; a
  process that restarts has forgotten all but its key, and so has a gateway or a
  node of the DHT.
* *Links outlive what they were for.* A negotiation ends after its owner has
  closed, or after the server it spoke to was replaced at the same address.
* *The network changes while a machine sleeps.* The router forgets its mappings,
  the address is another one, and a tunnel may or may not have survived.
* *One worker, many readers.* A stream whose reader has gone holds the worker.
* *A process may be killed between any two writes*, and the next one finds what
  is left: a part, a build half unpacked, files of two versions, a report whose answer
  was lost.

## 2. The modules

### Requests

`Decoding` is the abstract specification of what a route stage promises a
decoding loop: every reply the loop accepts was computed over exactly the text
it has kept and the tokens it has just fed, as if one block had held the
session all along. Failures may end the request and show in no other way.
`ForwardRetry`, `Failover` and `Chain` each have `LoopSpec`, an instance of it,
as a property: each is one layer of the client's side, and each is shown to
implement the same promise. On the other side of that promise, `Speculative`
is shown to implement `Greedy`.

**`BlockServer`** – operators, no state. A session is `[open, kv, last]`; `Handle`
takes a session and a request to the session afterwards and the answer, since
every handler runs under `BlockServer._lock`. A cache is the sequence of tokens
fed, and the answer of a forward is the whole cache it was computed over: a
real answer is a function of that. So "the reply is right" becomes "the reply
was computed over the right tokens". `ForwardSession` follows `forward`: the
saved reply, the cut, the position check of `BlockRange.forward`, the new saved
reply. A cut stays made when the block then refuses the step.

**`ForwardRetry`** – one request on one server. `Send`/`Serve`/`Lose`/`TimeOut`
are `_http_call` and `_once`; `ServeLate` runs an attempt the client has given up;
`Crash` is a restart with no session; `Opened`/`Accept`/`Fail`/`Closed` are the loop
(`generate_stream`, `speculative_stream`), where `Accept(n)` keeps a reply's tokens
up to `n` and the next call carries the cut of the rest.

**`History`** – the pieces of a request that its transport keeps as they were sent (`_history`),
and `CutHistory`, which is `_cut_history`. `Failover` and `Chain` both feed them to a new session.
`Tiles(h, t)` says that the pieces `h` are the text `t`, one after the other and without a gap.

**`Failover`** – one endpoint of a route over several servers. `pc` is where
`HttpTransport.forward` is: `open`, `send`, `try` (in `_try_candidates`), `replay`,
`wait` (in `on_exhausted`), `close`. A step is one `BlockClient` call, answered or
not, with the handler run or not. Servers go down, come up and restart; marks
age (`new` for REVIVE_AFTER_SECONDS, `old` until DEAD_SECONDS).

**`Chain`** – a request over two stages, each with replicas. A handler at the
first peer is a record `[body, at, hidden, status, out]` that lives through three
steps, `Arrive` (session looked up or opened), `Enter` (with the chain lock: saved
reply or local layers) and `Onward` (the call to the second peer and what is made
of its answer); it goes on in `late` when the client stops waiting. `Restart`, `Leave`,
`Rewire`, `Replay` are `_chain_restart`. A position of the second peer's cache holds
the prefix of the first peer's cache its hidden state was computed from.

**`Speculative`** – the loop itself. `Draft` proposes any tokens at all, `Trip` is one
pass over the route, which answers what the network would say after each fed token (its own
text has one answer, `answer`; any other text any answer), `Accept(n)` keeps the first
`n` drafts and what the network said next, notes the rollback and adapts `k`, and `YieldDraft`,
`YieldLast` hand tokens out one by one, with a stop token and `max_new_tokens` looked at where
the code does. `Fail` is a transport that gave up.

### Records

**`PeerTable`** – identities, clocks, records and tables. Any record ever signed
may reach any table at any time, any number of times: that covers gossip, the
directory, the DHT and caches at once. `high` remembers the highest seq a table
has held, for the properties only.

**`Gossip`** – rounds. Of a record only its age in rounds is kept. `Begin` chooses
the round's targets (`Fanouts`, `WithSeed`), `Exchange` swaps two tables or counts a
failure; links break and mend, peers stop and restart with an empty table.

**`Dht`** – one key. `Announce` looks up nodes and takes a token from each, `Storing`
sends the record with it; a store may be answered, lost, lost only on the way back, or arrive late;
a node that restarts has a new secret, an empty store and refuses the old tokens.
`Put` and `Prune` keep the counter per source, `GoesStale` is time, and `Find`/`Collect` gather the
newest record of each publisher. **`DhtTable`** – one bucket with its reserve, the maintenance queue (a task
holds the contact itself), answers, strangers, failures, and peers that die, come back and move.

**`Directory`** – the gateway's two stores and its peers. `Announced` and `Reported`
are the two handlers; `Expire` drops what has passed its TTL, which is longer than a record is live; a
message is taken, lost, or arrives later (`Arrives`). A peer's `Announce` skips what it need
not repeat; `Report` and `Stop` are the reporter; `Restart` empties the gateway.

### Placement and plan

**`Placement`** – `choose_window`, `should_move` and `best_route` as functions of a
manifest and a set of live records. Penalties are in quarters and scores are
multiplied by a common multiple, so that all arithmetic is exact; Python's
`Fraction` is exact too, and its floats are multiples of a quarter but for ages. `ChooseWindow` is
`Preferred` of what the code computes first: how often each stage is covered, and how often each
window is served. That two peers see the same counts, and so choose the same, is what a proof uses.

**`Mover`** – the nodes of one network. `Start` chooses with what was learned,
`Look`/`LookAgain` are the two looks of `_maybe_move` with anything in between,
`Up` and `MoveFails` end a load. Gossip is reduced to `view[p][q]`, the window `p`
believes `q` to serve, brought up to date one pair at a time in any order, so
views differ in every way gossip could make them differ.

**`Assign`** – `assign` as operators: the tilings of the layers in the order of their
cost, the matching that starts from the windows peers have and augments, the windows
of the peers left over, and what can be reached when no plan exists. Peers join
with any memory, drop out, and the plan is made again from what they then have (`Replan`).

### A node

**`NodeLifecycle`** – one node behind a tunnel, as its main and maintenance threads
and gossip. `node` holds the fields of `Node`, `th[t]` where a thread is; an action is what
a thread does between two points at which another can run, since the lock is
held only while fields are set or a record is signed. `Say` is `publish` and
`_push_to_peers`; `Serve`, `Bound`, `BeginOpen`, `EndOpen`, `OpenFails` are `_serve` and
`_start_tunnel` for either thread; `TakeTunnel` and `EndTunnel` are `_close_tunnel`.
`live` are the tunnel processes: they outlive the node if nobody ends them. A pass of
`_maintain` always looks at the tunnel and may look for a move; that the code
does so only every so often is a thread that is slower.

**`Direct`** – one node and the network it is in: open, behind a router, behind two, or
down. `Serve`, `Upnp`, `Pcp`, `Pmp`, `Address`, `Dial`, `Publish`, `Fallback`, `OpenTunnel` are the steps of
`_serve_direct` and `decide`, each able to fail; `router` holds the ports that are open, each
with the request that opened it; `Renew`, `Ended` and `Lapse` are the renewal thread and a lease that ran out; `Sleep`
ends in any other network and `Reopen` is the resume. `Move` keeps the decision.

**`RtcLinks`** – owners (a node, a transport) that upgrade endpoints. A link is a number; its
negotiation goes through the places of `_connect_rtc`, the server's answer in between;
`Close` bumps the epoch and cancels what has not begun; servers stop and start at one address.

**`Serve`** – the worker of the local API as a list of jobs, with the place it is at; handler threads
read from a queue per request. `Plan` refreshes the table and builds a transport, `Adopt` keeps
the last one if it stands for the same peers, `Token`, `Fails`, `End` decode; readers take, hang up
and are counted; peers go and come back at another address; the node's own block is replaced.

### A machine

**`Hub`** – bytes are named by version and offset, so a part is right or wrong byte by byte.
`NextSegment` resumes at the first tensor not yet whole, `Read` copies chunks and throws gaps
away, `Finish` renames, and a fault ends a connection, fills the disk before a file or in the middle
of a write, ignores a range, or kills. A write that fails is tried again as a broken connection is,
and of a merged range from the end of what was *read*: `WriteFails` loses those bytes, as the code does.

**`Runtime`** – archives and builds, resumed, verified, unpacked and pointed at, then the model, killed
anywhere; what is unpacked aside replaces what is there one file at a time; something else may remove a file between runs;
**`Update`** – the archive of the branch swapped in or put back, then `join.py` refreshing its siblings
and itself, while the branch moves; **`Reports`** – the stash, the files of reports, and the
gateway's answers, for one or two command lines that may be killed between any two steps;
**`PeerService`** – joins in a terminal and as a service over one code directory, one
environment and one status file, and `common leave`. Set-ups may overlap and each may reuse the code or
fetch it anew, as nothing in the code locks them and the default version is a branch: `source` and `staging`
are none, in part, whole, or marked whole and perhaps not (3). **`LegacyNode`** and **`WorkerProxy`** – the
registration loop of a node that serves a gateway, and its proxy in front of a model server with one slot,
whose connection may end in a chunked reply (`Breaks`), in one with a length (`EndsShort`) or be reset (`Reset`).

### Compositions

`MCNetwork`, `MCMachine` and `MCServing` instantiate several of these modules over disjoint
variables. The modules meet only in what each abstracts from the other (a record that arrives, a
tunnel that answers, a transport that reaches a token), and that abstraction allows more
than the other module does: `PeerTable` takes any record at any time, `NodeLifecycle` any
break of a tunnel. A product of their states would therefore check nothing more, so a
behaviour of the composition is a behaviour of one part, `active`, chosen at the start; `Keep`
holds the variables of all the others still. Fairness is each part's own, guarded by `active`.

**Proof modules**: `RequestProofs` (lemmas about a block, a piece and the kept pieces, which the
request modules share), `ForwardRetryProofs`, `FailoverProofs`, `ChainProofs`, `SpeculativeProofs`,
`PeerTableProofs` (which takes `Gossip`, `Dht`, `DhtTable` and `Directory` as instances beside `PeerTable`, with names of its own for what
differs), `MoverProofs`, `NodeProofs` (about `NodeLifecycle`, and about `RtcLinks`, `Direct`, `PeerService`, `Reports`,
`Serve`, `Hub`, `Runtime`, `Update`, `LegacyNode` and `WorkerProxy` as instances). The other **`MC…`** modules only give constants their values.

## 3. The runs

| Run | Bounds | What it shows |
|---|---|---|
| `one_hazard` | 2 tokens, steps of ≤3, text ≤5, 2 attempts, 1 restart, 2 abandoned attempts | drafts and deferred cuts with attempts served in order, or plain decoding with attempts that run late: replies faithful, the request ends, `Decoding` implemented; in order, the cache never behind or beside the text, no 500, nothing left after a close |
| `speculative_late` | 1 abandoned attempt, text ≤6 | **violation**, see findings |
| `failover` | 2 servers, one known at first, 2 faults, 2 rounds of waiting | kept pieces are the text, replay is exact, no piece refused, orphans only where a server was lost, fewer faults than servers never end the request, `Decoding` implemented, the request ends |
| `twins` | 2 stages × 2 peers, text ≤3, 2 attempts, 2 faults | the chain: faithful through both peers, peers in step, no position refused, orphans explained, one fault survived, `Decoding` implemented, every request and handler ends |
| `network` | records: 2 processes, 2 records each, clock ≤4; gossip: 3 peers with seeds, 2 faults; DHT: 3 nodes, 1 publisher and a reader or 2 publishers, 1 fault; table: bucket of 2, 3 peers, 1 fault; directory: 2 peers, room for 1, 1 fault; plan: 3 stages, 3 peers | see the table below |
| `machine` | decoding: 4 tokens, k ≤3; weights: 2 files, 3 ranges, 2 faults, 2 versions; runtime: 2 candidates, 3 faults, killed anywhere; update: 2 versions, 2 faults; service: 2 commands and 1 fault, or 3 commands and none; retired node: 3 runs, 4 faults; proxy: 2 connections, 3 requests, 2 faults; reports: 2 commands × 1 report or 1 × 2 | see the table below |
| `serving` | node: 2 windows, 3 events (a tunnel breaks or does not open with an error, a load fails, a move, a resume); address: 3 kinds of network, 2 addresses, 1 sleep or 1 move, 1 fault; links: 2 owners, 1 endpoint, 2 links, 2 faults; API: 2 requests, 2 peers, 2 changes, 1 move | see the table below |
| `rebalance` | 3 peers, 3 manifests (2 or 3 stages, planned or not), 1 fault | no move takes a stage's last peer; a spare peer fills an empty stage; a planned network closes its chain; routes are shortest chains |
| `pinned` | as before, the lowest peer pinned | **violation**, see findings |
| `leave_in_move` | 1 event | **violation**, see findings |
| `no_answer` | 3 events, the opener may exit | **violation**, see findings |
| `tunnel_forgotten` | a node behind a router, 1 sleep, 1 fault | **violation**, see findings |

What the three composed runs check:

| Property | Of | What it says |
|---|---|---|
| `NoRegress`, `SeqIncreases`, `NoReturn` | `PeerTable` | no table falls back to an older record, seqs increase over all runs of an identity, a peer that left comes back only by a newer record |
| `NeverFresher`, `SeenAgain` | `Gossip` | relaying never makes a record fresher than its signer made it; peers that can be reached are seen again, and one that is gone fades |
| `DhtSound`, `DhtServes` | `Dht`, `DhtTable` | counters of the limits are those of the values held and no limit is exceeded, replicas are counted once, the bucket's bounds, and nobody waits in reserve beside a free place; whoever announces has its newest record on every node that takes it, a dead node goes from the tables |
| `NothingOlder` | `Dht`, `Directory` | a replica, a search, the directory and the dashboard never go back to an older word of a peer |
| `DirectorySound`, `UpIsListed` | `Directory` | no request of any run of a peer is counted twice, no limit of peers exceeded; a peer that stays up is listed in the end, over restarts of the gateway |
| `PlanSound`, `Stable` | `Assign` | a plan tiles the model with peers that can hold their windows, the model is refused exactly when there is none, and what the refusal says can be reached can; a plan made again from itself moves nobody |
| `PlainText`, `DraftsSound` | `Speculative` | the text is that of greedy decoding, as a refinement of `Greedy`; caches hold the text and nothing else after the rollback that is due, never past what a session reserves, in no more trips than plain decoding takes |
| `FetchedWhole` | `Hub`, `Runtime`, `Update` | a part is a beginning of its file, byte by byte, and finished files are right, unless a write failed; `current` names a build that runs, unless it lost a file since; a swap that fails is undone, and files of two versions never run together unnoticed |
| `ReportsSound` | `Reports` | a report that was saved is kept until the gateway has it, what is marked sent is there, nothing is sent that was not agreed to or that was asked of a local model, and failures alone file nothing twice |
| `RetriesComplete` | `Hub`, `Runtime`, `Update`, `Reports` | run again after any failure, downloads, updates and retries complete, and installs do but for two states named in `Stranded` |
| `ServicesSound`, `ServicesLive` | `PeerService`, `LegacyNode`, `WorkerProxy` | only whole code runs, unless another set-up wrote it meanwhile, a peer that left stays away, the last status stands; a node serves its own model, leaves nothing behind, and believes of the gateway only what is so; a reply the gateway takes for whole is whole, unless it had a length and was cut – and a service comes up, leaves when asked, a new address gets through, replies end |
| `PublishedIsServed`, `NodeLives` | `NodeLifecycle`, `Direct` | an `up` record is for a window that is served; once nothing happens the record is true and its address answers; a signal ends the node wherever its threads are; a node that may use a tunnel has an address in the end |
| `AddressSound` | `Direct` | an address found by the node is believed only after somebody outside connected to it from where the machine is now; no port is left open but the decision's; what is published is served |
| `LinksSound`, `AnswersEnd` | `RtcLinks`, `Serve` | slots are those of live negotiations, one per endpoint, a link never outlives its owner and leads to the server HTTP reaches; calls and requests end |
| `ApiSound` | `Serve` | a request runs on the route planned for it, transports that are not kept are shut down, what is counted as completed is the whole answer |

Why the bounds are enough. In the request models a fault matters by where it
falls between two calls, and a text of three to six positions with steps of up
to three already has every relation between a cut, a step and a piece: a cut at
a piece's edge, inside it, and below a whole piece; a late attempt before, at
and past the end. Two faults let one fall in the recovery from another. Two
tokens tell a draft from what replaces it. Two peers per stage are a route and
one alternative; a third would be tried by the same loop. Four tokens with `k` up to
three let a round end before, at and past the end of the text, with every number of
drafts accepted. In `Mover` three peers are the least at which two can be spared
at once for a third stage; four peers were explored without an error but not
exhaustively. In `PeerTable` two processes suffice for the shape of the argument, and
the proofs are for any number. In the DHT, three nodes are one that has the record, one
that lost it and one that refuses it; a limit of one value per source makes the second
value meet it. In `Hub`, ranges of three lengths with a gap that is bridged and one that is not give
every place a connection can break at. For a link, two owners and one endpoint are what it takes for
one to meet the other's negotiation.

Deadlock is not checked where requests end (`over`) or bounds are used up: there
the system has nothing left to do.

Fairness. The client's thread, a server's threads, a node's threads, a worker and a
command that runs go on: `WF` of the client's steps, of the handler, of a round and of a
decision. No fairness is assumed of faults, of the network's recovery (`ComeUp`, `Mend`), of a late
attempt, or of the choice between an answer and a loss beyond the bound on
faults: attempts are bounded in the code. What is retried by hand or by a service manager
(`Again`, `Retry`, `ServiceStarts`) is assumed to be retried; that is what those properties say.
The liveness of gossip is conditional: `Converges` assumes that links work and seeds are up
from some time on. `UpIsListed` assumes that the others have left the peer its place. `Addressed` assumes that the
network is up again in the end (`NetUp`). In `Mover`, weak fairness of a decision is written out
without `ENABLED` (`Due`), which TLC evaluates many times faster; records get through by `WF` of
`Hear`; and `Cooled` assumes the cooldown (five minutes) to be longer than a load and the
spreading of records. `NodeLifecycle` assumes `WF` of its two threads, and none of signals and faults:
`RecordSettles` is about a node to which nothing more happens, because `MaxEvents` is
used up. Three events let a tunnel break, its replacement fail, and a move or
a resume fall in between.

What a property leaves out on purpose. `PublishedIsServed` and `RecordSettles` speak of
a node that is not stopping; what happens then is `LeavingStands` and `LeaveEnds`.
`RecordSettles` says nothing of a node whose move failed: it stays `loading`, and
nothing in the code brings it back. `FaultsSurvived` counts a fault against
the servers listed; `OrphansWereLost` and `OrphansExplained` allow a session on a
server that was given up, since the code tells only the one in use. `LastHolderStays`
is stated for networks in which every peer holds one stage and those that share a stage can hold the
same ones (`Alike`: machines of one kind, as in the run), before anything has failed. Without that it is
`NoMoveEmpties`, which does not hold (see findings), and the stage is filled again after the
cooldown (`SpareMoves`). `NoStray` leaves out a
mapping whose answer was lost and one that a renewal under way opens again. `FinalIsExact` says of a
compact file only what holds while nothing is published: its ranges carry no hash.

Where the code is known to go wrong (section 5) the step is in the model, and the property leaves out what that step has
touched and nothing else. In `Hub`, `disk.torn` are the files in which a write failed and later bytes were appended all the same,
until their part is begun again; in `Runtime`, `damaged` are the builds that lost a file
since they were installed, and `Stranded` the two states that no later run gets past; in `WorkerProxy`, `short` are the
connections whose reply had a length and ended before it, and `reset` says that the model server's connection was reset; in
`PeerService`, `disturbed` are the processes in whose set-up another wrote the code, or that found code marked as
whole that two had written at once or one had begun to remove, and `ComesUp` leaves out an environment left without pip and such
code. The one bound that keeps a divergence out of a passing run is `OfferWaits` of `RtcLinks`.

## 4. The proofs

Theorems hold for any values of the constants that satisfy the named `ASSUME`s.

`ForwardRetryProofs`

* `TypeCorrect`: the type invariant, from lemmas about `Handle` (a session and a
  request give a session and an answer).
* `Faithful`: if no request both drops drafts and has attempts run late
  (`OneHazardAtMost`), every accepted reply was computed over the text and the
  step. It takes two invariants. In plain decoding, `PlainInv`: everything ever
  sent, the saved reply and the cache are each a piece of one growing text
  (`InPlace`, `InStep`), so a stale attempt can only write what is already there, or
  cut it short. With drafts, `InOrderInv`: the server is at one of two places, `Before`
  the step with at most dropped drafts past the text, or `After` it with its
  reply saved. `AcceptedFaithful` alone is not inductive: it says nothing of the cache.
* `ServerSafe`, `InOrderSafe`: while attempts are served in order, no refusal caused by a
  retry and nothing left after an answered close (`ServerSound`), and a cache that is
  written once (`AcceptedKept`); from `InOrderInv` too.
* `KeepsPromise`: under `OneHazardAtMost` the request implements `Decoding`; every
  step is a step of it or a stutter.

`RequestProofs`, about the operators of `BlockServer` and `History`

* `ForwardHeld`: a session that holds a request's text (`Holds`: its cache begins with the text, goes on
  past it only when a cut is due, and its saved reply is of an earlier piece) answers the next piece
  with the text and the piece, and what it becomes has run it (`Ran`); `ForwardAgain`: asked once more,
  it answers the same. One that was lost answers 404, and nothing answers 500. It is proved for
  caches of anything, so that the same lemma serves the second peer of a chain, whose positions are hidden states.
* `CutTiles`: what `CutHistory` leaves of pieces that tile a text tiles the text cut at the same place,
  whether the cut falls at a piece's edge, inside it, or below whole pieces. Its function over
  the positions of the history is unfolded by `Recursion`, which, like every induction here, is by the least
  position at which it would fail (`Least`).

`FailoverProofs`, for any servers, route, pieces and bounds, on a fixed route and over a network

* `Sound`: the whole of `FailoverSound`. Its invariant has a part for each thing the next step relies
  on. `Places` says what is so at each `pc`; `Settled`, that each session agrees with the reply saved in it;
  `Kept`, that the pieces tile the text (`HistoryIsText` says that of the end, this of every cut);
  `Use`, that the server in use holds the text, past it only up to a cut that is due; `Fed`, that during a replay it
  holds exactly the pieces sent so far, from which `ReplayExact` follows when the last has been. For orphans, `lost` must hold whatever
  was given up, and `Tried` that the servers a recovery has passed over are among them. `FaultsSurvived` needs
  most: no step counts faults against servers, so `Counted` does: as many faults as servers that are
  lost, down, or in use without their session (`Faulty`). When the candidates are used up, each of
  them is one of these.
* `KeepsPromise`: every step is a step of `Decoding` or a stutter. Only `SendPiece` can show, and the reply it
  accepts is over the kept text and the piece by `ForwardHeld`.

What the proof found: with a fixed route of one server, a call to open that runs and whose answer is lost ends
the request and leaves the session open there, since nothing was noted that a close could be sent to. The
invariant was not inductive in that step, which the run, over a network, does not take; the history variable
`lost` now counts such a server.

`ChainProofs`, for any peers, pieces and bounds

* `Faithful`, without any assumption on the peers: types, `ChainFaithful`, `SecondFollows`, `NeverRefused`
  and `OrphansExplained`. The invariant: a wire id above the one in use is at no peer (`Held`); what the
  call asks for is the piece after what the peers were fed (`Calling`, where `Base` is the text, or during a
  replay a prefix of it); each peer of the route holds what it was fed or has run the piece, and
  every reply the first saved is of an earlier piece or of this one and right, with both peers having run it
  (`Data`: this is what makes `chain_last` safe to answer from); a handler that goes on after its client has
  left asks for what the client asks for again, or for a session that is over (`Jobs`); while one is onward nobody
  else passes the lock, so its hidden states are still those of the first peer's cache (`Working`).
  A position of the second peer's cache is a prefix of the first's, so the two are tied by
  `HiddenJoin`: the hidden states of a text, and of a text and a piece, join.
* `Sound`: with a replica of every stage (`Replicas`, as in the run), the whole of `ChainSound`, with
  `OneFaultSurvived`. `Charged` says that the wire id is at most one more than the number of faults: a restart needs a session that was lost (`Missing`) or a call that ran
  out of attempts (`Tired`), and neither comes without a fault of its own. `One` is what there is to know while
  there was one fault at most: at most one peer is down, and whenever a session is missing or a call
  tired, the peer that is down is the one whose layer the error will name. So the restart marks
  that peer or none, the peers it picks are up, and after it nothing is missing again. It is this that fails when the wrong peer is blamed.
* `KeepsPromise`: every step of the chain is a step of `Decoding` or a stutter.

`SpeculativeProofs`

* `SameAsGreedy`: speculative decoding implements plain greedy decoding, for every
  vocabulary, drafter, number of drafts and length: every step is a greedy step
  or a stutter. The invariant says that what the caches hold up to the rollback that is due is the
  text, and that a reply is right at every position up to which what was fed is right (`Confirmed`):
  so the first draft that is wrong is the first that the reply contradicts. Its argument is by the
  least wrong draft (`Least`), which stands for induction and comes from the well-foundedness of
  the naturals.
* `CachesFollowText`: the whole of `DraftsSound`, when a request asks for a token at least and stop
  tokens are tokens. Beside the invariant above it takes `Caches` (past the rollback that is due the cache
  ends where the text does, and after a trip it holds just the trip's tokens more, within what the
  session reserved), `Drafter` (the drafter's record of what its own cache holds is right) and `Trips` (there is
  never more than one trip that has not yielded a token).

`PeerTableProofs`; the first three with clocks that are not set back between runs (`ClockIsKept`)

* `SeqsIncrease`: the seqs of an identity increase over all its runs.
* `NeverRegresses`: a table never falls back to an older record. What makes it more
  than the test in `merge` is that `export` forgets: `TableInv` adds that in the order
  of seqs times do not decrease (`Ordered`), that a new seq is above all before it
  (`Bounded`), and that when nothing is held of a peer, the newest record held
  before is too old to be merged (`Dropped`), and so is every older one.
* `NeverReturnsOld`: a peer comes back to a view only by a record newer than any it held.
* `TypeCorrect`: the types, which hold with clocks that are set back, too.
* `NeverFresher`: for `Gossip`, with finitely many peers, any seeds, fanout and faults. `Oldest` drops the condition
  on the peer's own age, which its own rounds reset: while it runs, its own record is the youngest there is.
  A merge takes the younger of two ages (`MergedIs`), so neither side of an exchange gets below it.
* `DhtLimits`: the whole of `Dht`'s safety, with finitely many nodes (`DhtSized`): a node's counters are those of
  what it holds, after whatever was pruned, replaced, refused or lost with it (`CountsExact`), so no limit is ever exceeded
  (`LimitsHold`); and an announcement counts no replica twice. `PutIs` and `PruneIs` say what a store becomes
  (`HeldOn`): of the record that arrives a newer one may come, the others may only go stale, and the counters follow.
  `Published` bounds what is on its way by what was signed; `Replicas` says that a replica that counts is asked no more.
* `DhtNeverOlder`: a node, and a search, go from a record to a newer one of the same peer or drop it stale; from
  the same invariant, since a record that arrives late is compared with what the node holds *after* it was pruned.
* `DirectoryCounts`: for the gateway, with finitely many peers (`DirectorySized`): of each run of a peer the
  dashboard counts no more than it has completed, and neither table exceeds its limit. What makes it inductive is that a
  report on its way says no more than the run has done since (`Says`), which a run that goes on keeps (`SaysOn`);
  the limits follow from how a table grows (`Adding`: one more where there is room) and shrinks (`Dropping`).
* `DirectoryNeverBack`: what the directory and the dashboard have of a peer gets newer or is dropped.
* `RoutingTableSound`: `DhtTable`'s bounds, with any size of bucket and queue (`TableSized`): a bucket and its reserve
  never exceed `k`, name nobody twice, in neither or between them, and nobody waits in reserve beside a free place. Inductive
  with the types of the queue and of the ping under way; `AddIs`, `RemoveIs` and `FailIs` say it of the three
  operations, whatever contact a task still holds, from what `Without` and `LastN` leave of a sequence. That a dead node goes is liveness and stays with TLC.

`MoverProofs`, for any peers, hardware and manifests whose boundaries rise, as `Manifest.validate` has them
(`Rising`)

* `TypeCorrect`: the types, and that whoever serves a window can hold it.
* `NoStageLost`: under `Alike`, `LastHolderStays`, from one more invariant (`Held`): while nothing has failed,
  a window that some view shows with a peer is served still, by that peer or by one with a higher id.
  `SameChoice` is the lemma it needs: two holders of a window who can hold the same ones find the same counts
  without themselves, so one is eligible when the other is, and the one that goes believes in another holder
  with a higher id (`Leaves`). By `Held` somebody with an id at least as high serves the window, however old the view is.
* `RoutesShortest`: the whole of `RoutesSound`, for any table. The entries that `best_route` keeps are unfolded
  by `BestIs`, and what is said of them goes by the least boundary at which it would fail: every entry is a path from the start to its
  boundary (`EntriesChain`, over `ChainsOn`: one hop more is a path), and for every row of windows to a boundary
  there is an entry at least as short (`RowsFound`, over `LastOfRow`). That keeping one entry per backend loses no hop is
  `AtIs`. The alternates are all the others of a window because in a finite order everything has a rank of its own (`Places`).

`NodeProofs`, about `NodeLifecycle`

* `UpIsServed`: what a node says is served, is (`PublishedIsServed`), for any number
  of faults. `ServedInv` adds why: from before a thread takes the server down until
  after it has set one up, the state is `loading` and so is what was said last, and
  start and move never overlap, so whichever thread signs at whichever moment signs
  nothing else. Fields need no types for it, only to be there (`Shape`).

`NodeProofs`, about `RtcLinks`, for any owners, endpoints and bounds (`Sized` says that there are some and that the
bounds are numbers)

* `LinksCounted`: the slots taken are the negotiations under way, an endpoint has one, and a ready link
  belongs to somebody. `Apart` says why there is one: every endpoint negotiated with is marked, and only
  the end of its own negotiation takes the mark away. `Owned` needs more than its property: a link that is
  ready and not its negotiation's any more is done *and* an owner's, and an owner that waits for a negotiation holds
  no other link there, so that keeping the new one drops none that is still open.
* `LinksSound`: with `OfferWaits` false, as in the run, also `SameServer`. `Led` adds that an answer under way is of
  a server that ran when it was made, so that the next one at the address, whose number is another, does not open it.

`NodeProofs`, about `Direct`, with a dial-back at least and mappings that are counted (`DirectSized`)

* `AddressSound`: the types and the whole of `DirectSound`. `Decides` says that there is either a decision or one
  being made, so that what `Believed` says of the one holds of the candidate of the other; `Renews` that a mapping's
  thread runs only while the mapping is held, and that one still ending is of a mapping deleted or lost, which is
  what makes `NoStray` inductive when a renewal is answered late; `Serves` what the server is at each step of the decision.

`NodeProofs`, about `PeerService`

* `ServiceSound`: the types and the whole of `PeerSound`, for any options the command takes (`ServiceSized`), commands and
  faults, whatever version is asked for and however set-ups overlap. `CodeInv` says, of a process in whose set-up no other
  wrote the code, that what it is about to move in is whole, and that what it finds past that is; it is kept because whoever
  begins to write marks every other set-up under way, and whoever begins a set-up begins it unmarked. `PidInv` says
  that no id is given twice, so a last status names nobody; `AskedInv` that what the service runs is its command line.

`NodeProofs`, about `Reports`, for any commands, ids taken by others and bounds (`ReportsSized`)

* `ReportsKept`: the types and the whole of `ReportsSound`. `Named` says that a file, a command's copy of it and what the
  gateway has under an id are all of the report the id was drawn for, one that was agreed to: so whichever copy is
  written last, it is that report's. For `OnceUndisturbed` it takes `CleanInv`, while commands take turns: their copies are
  the files; of the ids of a report only the last can be its own at the gateway (`Older`), since a new
  one is drawn only for a 409 on the first try, and at a first try nothing is there but somebody else's.

`NodeProofs`, about `Serve`, for any requests, peers and bounds (`ServeSized`: `AfterFront` are peers, and no request is the
`"close"` of the worker's list)

* `ApiSound`: the types and the whole of `ServeSound`. `KeptInv` says that the kept transport holds every candidate of its route
  (`Fresh` only adds), and that while a plan is being adopted it is the one transport beside the kept one, and newer: so
  whichever of the two is dropped, the other is all that is open. For a whole answer, `GivenInv` says that a request is in
  the worker's list once, and that its queue is empty until its turn; `StreamInv` that item `i` of a queue is the `i`th token
  after what its reader has, an error, or an end, the end only after an error or the last token; and that the worker has made what the reader has and what
  waits for it. An error ends the reader, so an end it takes first is that of the whole answer.

`NodeProofs`, about `Hub`, for any files, lengths and bounds (`HubSized`: there is a file at least)

* `DownloadKept`: `IndexMeansComplete`, and `FinalIsExact` for the files downloaded whole (`WholeExact`). `HubInv` says that the files
  before the one under way are at their length, and all of them once the index is to be written: an attempt that fails begins
  again with the first file and finds them. For the whole files it is the comparison of the hash, whatever the part was. The
  compact files and `PartIsBeginning` stay with TLC: their bytes are what a fold over the ranges writes.

`NodeProofs`, about `Runtime`, for any size (a natural number), tries and faults, killed anywhere

* `RuntimeSafe`: the types and the whole of `RuntimeSound`. `RuntimeInv` says that the model is begun only after a build that
  starts, that a build is of a candidate that is left, and that the directory is noted only with the right model. `current`
  goes on naming a build that runs because a directory that is whole is taken as it is, so what is removed to make room
  was not, and unpacking in place only adds files; what something else removed is `damaged`.

`NodeProofs`, about `Update`, for any versions and faults (`UpdateSized`: there is a version, and faults are counted)

* `UpdatesWhole`: the types and the whole of `UpdateSound`. `SwapInv` says, file by file, what a swap has done: what is left is as
  it was found, what is done is the archive's, and of everything that was replaced the original is aside; so an undoing that comes to
  its end has put all of it back. `SiblingInv` says that a sibling confirmed in this round is as new as the `join.py` that
  is to replace the running one, and that a sibling of one that has replaced itself is as new as that or `Cut`, which
  cannot be loaded: nothing is refreshed to less than the branch has, and `Newest` says that nothing is beyond it.

`NodeProofs`, about `LegacyNode` and `WorkerProxy`, for any addresses, runs, connections, pieces and faults

* `RetiredSound`: the types and the whole of `LegacySound`. `LegacyInv` says that past the check of the model
  whatever answers at the port serves it, whoever started it, and that an address told is one the tunnel has had, which is
  why a new one is never taken for told.
* `ProxySound`: the types and the whole of `WorkerSound`. `WorkerInv` says that the model server has a request just
  as long as its reply is queued or open, and that a handler with a reply is asking or copying; so whatever ends a handler
  takes its request from the queue, where it is once (`RemovedIs`).

Only model-checked: all liveness (fairness and `ENABLED` are beyond the prover; of `Failover` and
`Chain` that leaves `Terminates`; `Gossip`'s `SeenAgain`; a call's end in `RtcLinks`), `PlannedCloses` of `Mover`, the rest of
`NodeLifecycle`, and the parts of `MCNetwork`, `MCMachine` and `MCServing` not named above. What other recursive
functions over data compute (`Placement`'s `Starts` and `Ends`, `Assign`'s tilings and matchings, sums over sets) has no
proof here and stays with TLC too.

## 5. Findings

With a run that shows them:

* `speculative_late` – a speculative step that timed out and runs late cuts the
  cache back and writes its drafts again; a later cut at or past its end does
  nothing, the length check passes, and the reply over rejected drafts is
  accepted (`server.py:398`). `speculative.py:194` promises the tokens of plain
  greedy decoding. It takes a handler that waits for the server's lock longer
  than the client's timeout.
* `pinned` – all nodes let the eligible peer with the lowest id move (`node.py:1418`),
  and a peer pinned with `--layers` is eligible but never moves: the stage stays empty.
* `leave_in_move` – `move` sets `loading` and `up` without a look at the stop event
  (`node.py:1453`), and `stop` waits for it, for five seconds, only after it has published:
  a move under way when the signal comes publishes over `leaving`, and peers
  route to the node until its record is a minute old. `node.py:11` says it
  "publishes `leaving` and stops cleanly". In the same way a tunnel opened just then
  outlives the process (`live` is not empty at the end).
* `no_answer` – the default opener, `start_tunnel` of `join/join.py`, leaves by `sys.exit`
  when cloudflared gives no address; `_start_tunnel` and `_maintain` catch `Exception`
  only, so the maintenance thread ends, the retry after 30 s is never
  reached, and the node stays up without an address. `docs/layer-network.md:84` says the
  tunnel is replaced after a sleep, automatically.
* `tunnel_forgotten` – with direct mode, a resume clears the address (`node.py:1336`) and serves
  again; if that falls back on the tunnel and its process still runs, `_serve` leaves it alone (812) and
  nobody sets the address again, so the node is up without one until the tunnel, which works, is given up
  and replaced after ten minutes. The comment at `node.py:1313` says that it is probed "now instead of waiting for
  the normal 10-minute failure grace period" and replaced only "when it no longer answers".

Stated as properties in their modules and refuted by TLC on instances of a few values, without a run of
their own:

* `Gossip`: "skipped until it answers again" (`gossip.py:194`), but a skipped peer is not asked again
  while there is anyone else: the first peer of a network, without a seed and restarted after three rounds,
  stays alone unless the directory tells it of the others. In `MCNetwork` every peer has a seed.
* `Mover!NoMoveEmpties`: the peer that moves is to be "chosen the same way by every peer" (`node.py:1408`), but each
  chooses from its own table. Of three peers with three stages, two of different backends hold the first stage and
  each can hold another one besides, a different one. When the third joins, the one that has not heard of it moves to where it
  is, and the other to the stage that is empty, each counting on the other to stay: "emptying the stages they
  left" is what the docstring says cannot happen. It came out of the attempt to prove `LastHolderStays` for
  peers that differ.
* `Mover!RouteCheapest`: a route is to be "the chain of peers with the fewest hops, then the lowest penalty"
  (`placement.py:175`; `docs/network-contract.md:73`). Of the peers of a window the code keeps the one that is cheapest after
  the hop before (`placement.py:192`), whatever hop follows. With an `mlx` peer and a `cpu` one on the first window
  and a `cpu` one on the second, it takes `mlx` and pays for the change of backend, 0.75 where the two `cpu` peers
  together cost 0.5. It came out of the proof of `RoutesShortest`: of hops an entry is as short as any row, of
  penalties it is not.
* `Assign!FewestMoves`: "the planner moves the fewest peers off their current windows" (`assign.py:14`);
  augmenting from a seeded matching may move more than another matching of the same tiling would.
* `Direct!ReleaseHolds`: `release` "deletes it and stops the renewal" (`nat.py:324`), but a renewal under way
  is not waited for and opens the port again after the deletion, until its lease ends.
* `RtcLinks!EndpointsReturn`: a negotiation cancelled before it began gives its slot back but stays in
  `_RTC_INFLIGHT` (`client.py:448`), so no owner in the process upgrades that endpoint again. `SameServer` with `OfferWaits`:
  a server stopped while it prepares its answer may open a link that outlives it.
* `Serve!FrontServes`: after a move the front keeps the block that was shut down, and a request routed over it fails.
* `Reports!FiledOnce`: `_send_report` takes the 409 of a first attempt for a collision of ids
  (`common.py:1166`); when the first attempt was cut short after the gateway had stored it and before its count reached
  the disk, it is sent again under a new id and is there twice.
* `Update!RefreshKeepsWorking`: a refresh writes a sibling in place, and a write that fails half way leaves it
  unusable, which the next start of `join.py` meets at its import.
* `PeerService!SameAsAsked`: a service installed with the API switched off runs with it on, as its command line
  does not say so.
* `PeerService!WholeCode` without its `disturbed`: nothing keeps two set-ups apart (`layers.py:569-624`), and the default
  version is a branch (`layers.py:45`), fetched anew by every join, so one removes the code between another's set-up and its
  start, or while its node loads, and that one runs code in part or does not start. Of a pinned version
  it can be lasting: two that unpack into one staging directory, or a join killed while it removes that very
  version to put another in its place, leave a directory marked `.ref` without all its files, which every later join with that
  version takes as it is (line 578). `ComesUp` without its exceptions: that code, and an environment killed
  before its pip, which is never made anew since its interpreter is there (line 637); "run the same command again; it
  resumes where it stopped" (line 652).
* `Hub!FinalIsExact` without its `torn`: `_stream_segment` sets `pos = hi` before it writes (`hub.py:329`), and an `OSError` of
  the write is caught with those of the connection (348), so the rest is asked for from after the bytes that were not written (320).
  The file comes out short by them, is "resumed" at its end, and passes the check of its size: a compact file of the right length
  with one tensor's bytes under another's name, where "the partial download is kept and resumed" (405).
* `WorkerProxy!Exact` without its `short`: when a reply with a Content-Length ends before it, `read1` returns nothing, as
  at the end, and the last chunk is written (`worker.py:375-381`): the gateway takes part of a reply for the whole,
  where "streaming is the part that has to be exact" (331).
* `LegacyNode!TokenKept`: a registration answered and not yet written when the process is killed loses the
  only token of its name.
* `Runtime!Installs` without `Stranded`. A run that is killed, or whose `fsync` fails, between the last read and the rename
  (`runtime.py:402-421`) leaves a part of full length: every later run asks for what comes after it (339), is refused with
  416, does not try again (357) and removes nothing. And a build unpacked in place that has its server but not
  all of its libraries, after a kill or because something removed one, is taken for whole (`_binary_in`, 985), where `_installed_binary` asks that it
  "still works" (1012).

One more, which the proofs show by the assumption they need: a seq is taken from
the clock and the last one is kept in memory only (`records.py:105`), so after a
restart with the clock set back it is not "strictly increasing for this identity"
(`records.py:99`), and peers refuse the records until the clock has caught up.
`ClockIsKept` excludes it; with `ClockBack = 1` TLC finds it.

## 6. Not modelled, and why

The inside of a layer, quantisation and wire codecs (numerics; an output is a
function of its inputs here), TLS, tokens and signatures (taken to work), packet formats of routers and
STUN, ICE and DTLS (a library's), terminal display, chat and the commands that only print, benchmarks.
`PROJECT.json` gives each part its status and reason.

Of the parts that are modelled: `Failover` has every server able to roll back, and no
late attempts (`ForwardRetry` has them); `Chain` has two stages and no attempt
that arrives after its session was closed; in `Dht` all nodes are among the closest, so the walk by
distance is one step; `DhtTable` has one bucket; `Directory` has the limit per network and
none by source or rate; `Serve` has one endpoint per route beside the node's own front; `Direct` does not
tell apart why a router refuses; in `PeerService` the installs of pip after the first are one step, and a checkout given
as `COMMONNET_SRC`, which nothing fetches or removes, is left out. A block whose layers fail half way (`block.py:192`), capabilities cached per
endpoint (`transport.py:310`) and a failed move (`node.py:1452`) are listed as hazards without a property.

## 7. Plan

1. Proofs: the parts and compact files of `Hub`, once the prover can reason about folds.
2. A block at the level of layers, and capabilities per server, for the two hazards of requests
   that no property covers.
3. Three stages in `Chain`, four peers in `Mover`, if their instances can be made small enough.
