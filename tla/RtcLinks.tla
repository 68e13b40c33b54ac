------------------------------ MODULE RtcLinks ------------------------------
(***************************************************************************)
(* Direct links between peers: BlockClient's background upgrade            *)
(* (commonnet/net/client.py), RtcClient and RtcServer (commonnet/net/      *)
(* rtc.py), and the server that a node stops and starts at one address     *)
(* (commonnet/net/server.py).  A call goes over the link that is ready, or *)
(* over HTTP while one is negotiated; a link that fails in the middle of a *)
(* call sends the call again over HTTP.                                    *)
(*                                                                         *)
(* ICE, DTLS and the framing of messages are one step: a link opens or it  *)
(* does not, and may end at any time.                                      *)
(***************************************************************************)
EXTENDS Integers, FiniteSets

CONSTANTS
  Owner,        \* those that keep link state: a node, a transport
  Endpoint,
  Slots,        \* negotiations waiting or running in this process
  MaxEndpoints, \* an owner keeps state for
  MaxLinks,     \* links begun
  MaxFaults,    \* links that end or do not open, servers stopped, owners closed
  OfferWaits    \* whether a server may be stopped while it prepares its answer

VARIABLES
  state,    \* per owner and endpoint: no state, or its link, its negotiation and its pause
  jobs,     \* the negotiations, by the link they make
  slots, inflight, \* _RTC_SLOTS taken, _RTC_INFLIGHT
  shared,   \* _RTC_LINKS
  link,     \* per link its endpoint, the server it leads to, and whether it is ready
  server,   \* per endpoint the server that answers there, by number (odd: running)
  call,     \* per owner the call it makes
  faults

vars == <<state, jobs, slots, inflight, shared, link, server, call, faults>>

Link == 1..MaxLinks
NoState == [job |-> 0, peer |-> 0, pause |-> FALSE]
NoJob == [at |-> "none", owner |-> CHOOSE o \in Owner : TRUE, e |-> CHOOSE e \in Endpoint : TRUE]
NoCall == [at |-> "idle", e |-> CHOOSE e \in Endpoint : TRUE, link |-> 0]
NoLink == [server |-> 0, ready |-> FALSE]

Init == /\ state = [o \in Owner |-> [e \in Endpoint |-> NoState]]
        /\ jobs = [l \in Link |-> NoJob] /\ slots = 0 /\ inflight = {}
        /\ shared = [e \in Endpoint |-> 0] /\ link = [l \in Link |-> NoLink]
        /\ server = [e \in Endpoint |-> 1] /\ call = [o \in Owner |-> NoCall] /\ faults = 0

Fault == faults < MaxFaults /\ faults' = faults + 1
Ready(l) == l # 0 /\ link[l].ready
Shut(l) == IF l = 0 THEN link ELSE [link EXCEPT ![l].ready = FALSE]
Alive(l) == jobs[l].at \in {"queued", "health", "offer", "answer", "open"}
Fresh(l) == jobs[l].at = "none" /\ \A k \in Link : k < l => jobs[k].at # "none"

-----------------------------------------------------------------------------
\* BlockClient._rtc_peer.  Blocked by a negotiation of its own, by the pause after the last
\* one, by the number of endpoints it knows.
Known(o) == {e \in Endpoint : state[o][e] # NoState}
Blocked(o, e) == IF state[o][e] = NoState THEN Cardinality(Known(o)) >= MaxEndpoints
                 ELSE state[o][e].pause \/ (state[o][e].job # 0 /\ Alive(state[o][e].job))
Over(o, e, l) == call' = [call EXCEPT ![o] = [at |-> "direct", e |-> e, link |-> l]]
ByHttp(o, e) == call' = [call EXCEPT ![o] = [at |-> "http", e |-> e, link |-> 0]]

UseLink(o, e) ==
  /\ call[o].at = "idle"
  /\ \E l \in {shared[e], state[o][e].peer} :
       /\ Ready(l) /\ (l = shared[e] \/ (~Ready(shared[e]) /\ e \notin inflight))
       /\ Over(o, e, l)
  /\ UNCHANGED <<state, jobs, slots, inflight, shared, link, server, faults>>
NoUpgrade(o, e) ==
  /\ call[o].at = "idle" /\ ~Ready(shared[e])
  /\ e \in inflight \/ (~Ready(state[o][e].peer) /\ (Blocked(o, e) \/ slots = Slots))
  /\ ByHttp(o, e)
  /\ IF e \in inflight THEN UNCHANGED <<state, link>>
     ELSE /\ link' = Shut(state[o][e].peer)  \* a link found closed is retired
          /\ state' = [state EXCEPT ![o][e].peer = 0]
  /\ UNCHANGED <<jobs, slots, inflight, shared, server, faults>>
UpgradeUnasked(o, e) ==
  \E l \in Link :
    /\ Fresh(l) /\ call[o].at = "idle" /\ ~Ready(shared[e]) /\ ~Ready(state[o][e].peer)
    /\ ~Blocked(o, e) /\ slots < Slots
    /\ slots' = slots + 1 /\ inflight' = inflight \cup {e}
    /\ link' = Shut(state[o][e].peer)
    /\ state' = [state EXCEPT ![o][e] = [job |-> l, peer |-> 0, pause |-> TRUE]]
    /\ jobs' = [jobs EXCEPT ![l] = [at |-> "queued", owner |-> o, e |-> e]]
    /\ ByHttp(o, e) /\ UNCHANGED <<shared, server, faults>>
Upgrade(o, e) ==
  \E l \in Link :
    /\ Fresh(l) /\ call[o].at = "idle" /\ ~Ready(shared[e]) /\ ~Ready(state[o][e].peer)
    /\ e \notin inflight /\ ~Blocked(o, e) /\ slots < Slots
    /\ slots' = slots + 1 /\ inflight' = inflight \cup {e}
    /\ link' = Shut(state[o][e].peer)
    /\ state' = [state EXCEPT ![o][e] = [job |-> l, peer |-> 0, pause |-> TRUE]]
    /\ jobs' = [jobs EXCEPT ![l] = [at |-> "queued", owner |-> o, e |-> e]]
    /\ ByHttp(o, e) /\ UNCHANGED <<shared, server, faults>>
\* RTC_RETRY_SECONDS have passed.
PauseEnds(o, e) == /\ state[o][e].pause /\ state' = [state EXCEPT ![o][e].pause = FALSE]
                   /\ UNCHANGED <<jobs, slots, inflight, shared, link, server, call, faults>>

-----------------------------------------------------------------------------
\* _call: a link that fails is dropped, and the same call goes by HTTP.
Direct(o) == call[o].at = "direct"
Answered(o) == /\ \/ call[o].at = "http"
                  \/ Direct(o) /\ Ready(call[o].link)
               /\ call' = [call EXCEPT ![o] = NoCall]
               /\ UNCHANGED <<state, jobs, slots, inflight, shared, link, server, faults>>
RetriesLink(o) ==
  /\ Direct(o) /\ ~Ready(call[o].link)
  /\ state' = [state EXCEPT ![o][call[o].e].peer = 0]
  /\ UNCHANGED <<jobs, slots, inflight, shared, link, server, call, faults>>
FallsBack(o) ==
  LET e == call[o].e
      l == call[o].link
  IN /\ Direct(o) /\ ~Ready(l)
     /\ ByHttp(o, e)
     /\ IF state[o][e].peer = l
        THEN state' = [state EXCEPT ![o][e].peer = 0, ![o][e].pause = TRUE]
        ELSE UNCHANGED state
     /\ UNCHANGED <<jobs, slots, inflight, shared, link, server, faults>>
\* A direct reply that is lost or late ends the link (_Link._fault).
Lost(o) == /\ Direct(o) /\ Ready(call[o].link) /\ Fault /\ link' = Shut(call[o].link)
           /\ UNCHANGED <<state, jobs, slots, inflight, shared, server, call>>

-----------------------------------------------------------------------------
\* _connect_rtc, in the upgrade pool.
Serves(n) == n % 2 = 1
Goes(l, to) == jobs' = [jobs EXCEPT ![l].at = to]
RunJob(l) == /\ jobs[l].at = "queued" /\ Goes(l, "health")
             /\ UNCHANGED <<state, slots, inflight, shared, link, server, call, faults>>
Health(l) == /\ jobs[l].at = "health" /\ Serves(server[jobs[l].e]) /\ Goes(l, "offer")
             /\ UNCHANGED <<state, slots, inflight, shared, link, server, call, faults>>
\* RtcServer._offer, begun while the server runs.
Offer(l) == /\ jobs[l].at = "offer" /\ Serves(server[jobs[l].e])
            /\ link' = [link EXCEPT ![l].server = server[jobs[l].e]] /\ Goes(l, "answer")
            /\ UNCHANGED <<state, slots, inflight, shared, server, call, faults>>
Open(l) == /\ jobs[l].at = "answer"
           /\ OfferWaits \/ link[l].server = server[jobs[l].e]
           /\ link' = [link EXCEPT ![l].ready = TRUE] /\ Goes(l, "open")
           /\ UNCHANGED <<state, slots, inflight, shared, server, call, faults>>
\* What remains whatever happened: the endpoint and the slot are given back.
Release(l) == /\ slots' = slots - 1 /\ inflight' = inflight \ {jobs[l].e} /\ Goes(l, "done")
KeepAnyway(l) ==
  LET o == jobs[l].owner
      e == jobs[l].e
  IN /\ jobs[l].at = "open" /\ Release(l)
     /\ state' = IF state[o][e].job = l THEN [state EXCEPT ![o][e].peer = l] ELSE state
     /\ shared' = [shared EXCEPT ![e] = l]
     /\ UNCHANGED <<link, server, call, faults>>
\* The link is kept unless its owner was closed meanwhile.
Keep(l) ==
  LET o == jobs[l].owner
      e == jobs[l].e
  IN /\ jobs[l].at = "open" /\ Release(l)
     /\ IF state[o][e].job = l
        THEN /\ state' = [state EXCEPT ![o][e].peer = l] /\ shared' = [shared EXCEPT ![e] = l]
             /\ UNCHANGED link
        ELSE link' = Shut(l) /\ UNCHANGED <<state, shared>>
     /\ UNCHANGED <<server, call, faults>>
FailHolding(l) ==
  /\ jobs[l].at \in {"health", "offer", "answer"}
  /\ Fault \/ (UNCHANGED faults /\ (~Serves(server[jobs[l].e]) \/ jobs[l].at = "answer"))
  /\ Goes(l, "done") /\ slots' = slots - 1 /\ UNCHANGED inflight
  /\ UNCHANGED <<state, shared, link, server, call>>
Fail(l) ==
  /\ jobs[l].at \in {"health", "offer", "answer"}
  /\ Fault \/ (UNCHANGED faults /\ (~Serves(server[jobs[l].e]) \/ jobs[l].at = "answer"))
  /\ Release(l)
  /\ UNCHANGED <<state, shared, link, server, call>>

\* RtcPeers.close: what has not begun is cancelled, which gives its slot back.
Mine(o) == {l \in Link : \E e \in Endpoint : state[o][e].job = l}
Cancelled(o) == {l \in Mine(o) : jobs[l].at = "queued"}
Close(o) ==
  /\ Fault /\ Known(o) # {}
  /\ state' = [state EXCEPT ![o] = [e \in Endpoint |-> NoState]]
  /\ jobs' = [l \in Link |-> IF l \in Cancelled(o) THEN [jobs[l] EXCEPT !.at = "cancelled"] ELSE jobs[l]]
  /\ slots' = slots - Cardinality(Cancelled(o))
  /\ link' = [l \in Link |-> IF \E e \in Endpoint : state[o][e].peer = l
                             THEN [link[l] EXCEPT !.ready = FALSE] ELSE link[l]]
  /\ UNCHANGED <<inflight, shared, server, call>>

\* BlockServer.stop, and the next server at the same address.  Stopping closes the links
\* that the server has, which the answer being prepared is not yet.
StopHttpOnly(e) == /\ Serves(server[e]) /\ Fault /\ server' = [server EXCEPT ![e] = @ + 1]
                   /\ UNCHANGED <<state, jobs, slots, inflight, shared, link, call>>
Stop(e) == /\ Serves(server[e]) /\ Fault /\ server' = [server EXCEPT ![e] = @ + 1]
           /\ link' = [l \in Link |-> IF jobs[l].e = e THEN [link[l] EXCEPT !.ready = FALSE] ELSE link[l]]
           /\ UNCHANGED <<state, jobs, slots, inflight, shared, call>>
Start(e) == /\ ~Serves(server[e]) /\ server' = [server EXCEPT ![e] = @ + 1]
            /\ UNCHANGED <<state, jobs, slots, inflight, shared, link, call, faults>>
LinkEnds(l) == /\ link[l].ready /\ Fault /\ link' = Shut(l)
               /\ UNCHANGED <<state, jobs, slots, inflight, shared, server, call>>

-----------------------------------------------------------------------------
Negotiate(l) == RunJob(l) \/ Health(l) \/ Offer(l) \/ Open(l) \/ Keep(l) \/ Fail(l)
Calls(o) == Answered(o) \/ FallsBack(o)
Next == \/ \E o \in Owner : \/ \E e \in Endpoint : UseLink(o, e) \/ NoUpgrade(o, e)
                                                  \/ Upgrade(o, e) \/ PauseEnds(o, e)
                            \/ Calls(o) \/ Lost(o) \/ Close(o)
        \/ \E l \in Link : Negotiate(l) \/ LinkEnds(l)
        \/ \E e \in Endpoint : Stop(e) \/ Start(e)
Spec == /\ Init /\ [][Next]_vars
        /\ \A o \in Owner : WF_vars(Calls(o))
        /\ \A l \in Link : WF_vars(Negotiate(l))
        /\ \A e \in Endpoint : WF_vars(Start(e))

-----------------------------------------------------------------------------
\* Types of the state.
TypeOK == /\ slots \in 0..Slots /\ inflight \subseteq Endpoint
          /\ \A o \in Owner, e \in Endpoint : state[o][e].peer \in 0..MaxLinks
          /\ \A e \in Endpoint : shared[e] \in 0..MaxLinks

Live == {l \in Link : Alive(l)}
\* The slots are those of the negotiations that wait or run: none is lost when one fails, is
\* cancelled or ends after its owner.
SlotsCounted == slots = Cardinality(Live)
\* One negotiation per endpoint at a time, whoever asked for it.
OneAtATime == \A k, l \in Live : jobs[k].e = jobs[l].e => k = l
\* A negotiation that ends after close_connections leaves no link behind ("pending upgrade
\* cannot resurrect after cleanup"): a ready link belongs to an owner, or to its negotiation.
NothingResurrects == \A l \in Link : Ready(l) =>
                       Alive(l) \/ \E o \in Owner, e \in Endpoint : state[o][e].peer = l
\* A link leads to the server that its endpoint's HTTP calls reach (docs/automatic-
\* connectivity.md 24: changing the channel does not discard session state).
SameServer == \A l \in Link : Ready(l) => link[l].server = server[jobs[l].e]
RtcSound == SlotsCounted /\ OneAtATime /\ NothingResurrects /\ SameServer

\* A call ends, by the link or by HTTP, whatever becomes of the link.
CallsEnd == \A o \in Owner : call[o].at # "idle" ~> call[o].at = "idle"
\* An endpoint is given back when nothing negotiates with it any more.
EndpointsReturn == \A e \in Endpoint : e \in inflight ~> e \notin inflight
=============================================================================
