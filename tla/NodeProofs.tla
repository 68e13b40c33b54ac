------------------------------- MODULE NodeProofs -------------------------------
(***************************************************************************)
(* What a node publishes is served: for any windows, any number of tunnels *)
(* lost, loads failed and moves, and whether or not the opener may exit    *)
(* (NodeLifecycle).  And its direct links to others (RtcLinks): slots,     *)
(* negotiations, links and the servers they lead to are consistent, for    *)
(* any owners, endpoints and bounds.  Its own address and the ports it     *)
(* holds open (Direct), the service of its machine and the processes a     *)
(* join leads to (PeerService), the reports of its user (Reports), the     *)
(* transports and streams of its local API (Serve), the files its weights  *)
(* are read from (Hub), the programs it runs (Runtime) and its own         *)
(* (Update); and the node of the retired network (LegacyNode, WorkerProxy).*)
(***************************************************************************)
EXTENDS NodeLifecycle, Sequences, FiniteSetTheorems, TLAPS

CONSTANTS Owner, Endpoint, Slots, MaxEndpoints, MaxLinks, MaxFaults, OfferWaits
VARIABLES state, jobs, slots, inflight, shared, link, server, call, faults
R == INSTANCE RtcLinks

-----------------------------------------------------------------------------
\* The life cycle: the inductive invariant.

Fields == {"state", "window", "url", "server", "tunnel", "stop", "leave", "bad"}

\* What assigning to a field needs: the records have it.
Shape ==
  /\ DOMAIN node = Fields
  /\ DOMAIN th = Thread
  /\ \A t \in Thread : DOMAIN th[t] = {"pc", "back", "will", "held"}

\* Where start() is before the node is up, and with a server already.
Starting == th["main"].pc \in {"load", "bound", "open", "opening", "up"}
Started == th["main"].pc \in {"bound", "open", "opening", "up"}
Stopping == th["main"].pc \in {"tellLeaving", "silence", "unserve", "close", "closing",
                               "join", "done"}

\* Where move() is: it has said that it is loading, and has a server again.
Opening == th["maintain"].pc \in {"bound", "open", "opening"} /\ th["maintain"].back = "moved"
Reloaded == Opening \/ th["maintain"].pc = "moved"
Moving == Reloaded \/ th["maintain"].pc \in {"unserve", "reload"}

\* Where a thread returns to from what both share.
BackInv ==
  /\ th["main"].back = "up"
  /\ th["maintain"].pc \in {"open", "opening"} => th["maintain"].back \in {"sign", "look", "moved"}
  /\ th["maintain"].pc = "bound" => th["maintain"].back = "moved"
  /\ th["maintain"].pc \in {"close", "closing"} => th["maintain"].back \in {"sign", "look"}

StopInv == node.stop <=> Stopping

\* Why PublishedIsServed holds.  While either thread has no server to show, or
\* a new one, the state is loading and so is what was said last.
ServedInv ==
  ~node.stop =>
    /\ node.state = "up" => node.server = node.window
    /\ said.state = "up" => node.server = said.window
    /\ Starting => node.state = "loading" /\ said.state # "up"
    /\ Started => node.server = th["main"].will
    /\ th["maintain"].pc = "tellLoading" \/ Moving => node.state = "loading"
    /\ Moving => said.state # "up"
    /\ Moving \/ th["maintain"].pc \in {"move", "tellLoading"} => ~Starting
    /\ Reloaded => node.server = th["maintain"].will

IInv == Shape /\ BackInv /\ StopInv /\ ServedInv

\* Every step leaves the node and the threads their fields.
LEMMA ShapeStep ==
  ASSUME Shape, [Next]_vars
  PROVE  Shape'
<1> USE DEF Shape, Go, GoBack, At, net, Fields, Thread
<1>1. ASSUME NEW t \in Thread, NEW l, NEW next, Say(t, l, next)
      PROVE  Shape'
  BY <1>1 DEF Say, Record
<1>2. ASSUME NEW t \in Thread, NEW l, NEW w, NEW b,
             Serve(t, l, w, b)
      PROVE  Shape'
  BY <1>2 DEF Serve
<1>3. ASSUME NEW t \in Thread, NEW l, NEW next, ServeFails(t, l, next)
      PROVE  Shape'
  BY <1>3 DEF ServeFails
<1>4. ASSUME NEW t \in Thread, Bound(t) PROVE Shape'
  BY <1>4 DEF Bound
<1>5. ASSUME NEW t \in Thread, BeginOpen(t) PROVE Shape'
  BY <1>5 DEF BeginOpen
<1>6. ASSUME NEW t \in Thread, EndOpen(t) PROVE Shape'
  BY <1>6 DEF EndOpen
<1>7. ASSUME NEW t \in Thread, OpenFails(t) PROVE Shape'
  BY <1>7 DEF OpenFails
<1>8. ASSUME NEW t \in Thread, NEW next, Unserve(t, next)
      PROVE  Shape'
  BY <1>8 DEF Unserve
<1>9. ASSUME NEW t \in Thread, TakeTunnel(t) PROVE Shape'
  BY <1>9 DEF TakeTunnel
<1>10. ASSUME NEW t \in Thread, NEW next, EndTunnel(t, next)
       PROVE  Shape'
  BY <1>10 DEF EndTunnel
<1>11. CASE Main
  <2>1. CASE Load
    BY <2>1, <1>2, <1>3 DEF Load
  <2>2. CASE Up \/ Wait \/ Stop \/ StopGossip \/ Join
    BY <2>2 DEF Up, Wait, Stop, StopGossip, Join
  <2> QED BY <1>11, <2>1, <2>2, <1>1, <1>4, <1>5, <1>6, <1>7, <1>8, <1>9, <1>10 DEF Main
<1>12. CASE Maintain
  <2>1. CASE Wake \/ Resume
    BY <2>1 DEF Wake, Resume
  <2>2. CASE Check
    BY <2>2 DEF Check
  <2>3. CASE Look \/ Move \/ Moved
    BY <2>3 DEF Look, Move, Moved
  <2>4. CASE Reload
    BY <2>4, <1>2, <1>3 DEF Reload
  <2> QED BY <1>12, <2>1, <2>2, <2>3, <2>4, <1>1, <1>4, <1>5, <1>6, <1>7, <1>8, <1>9, <1>10
      DEF Maintain
<1>13. CASE Gossip \/ Signal
  BY <1>13 DEF Gossip, Signal, Record
<1>14. ASSUME NEW u, Break(u) PROVE Shape'
  BY <1>14 DEF Break
<1>15. CASE UNCHANGED vars
  BY <1>15 DEF vars
<1> QED BY <1>11, <1>12, <1>13, <1>14, <1>15 DEF Next

\* Every step of a thread, a signal or a tunnel keeps the rest of IInv.
LEMMA IInvStep ==
  ASSUME IInv, [Next]_vars
  PROVE  (BackInv /\ StopInv /\ ServedInv)'
<1> USE DEF IInv, Shape, BackInv, StopInv, ServedInv, Starting, Started, Stopping, Opening,
            Reloaded, Moving, Go, GoBack, At, net, Fields, Thread
<1>1. CASE Main
  <2>1. CASE Load
    BY <2>1 DEF Load, Serve, ServeFails
  <2>2. CASE Bound("main")
    BY <2>2 DEF Bound
  <2>3. CASE BeginOpen("main")
    BY <2>3 DEF BeginOpen
  <2>4. CASE EndOpen("main")
    BY <2>4 DEF EndOpen
  <2>5. CASE OpenFails("main")
    BY <2>5 DEF OpenFails
  <2>6. CASE Up
    BY <2>6 DEF Up
  <2>7. CASE Say("main", "tell", "wait")
    BY <2>7 DEF Say, Record
  <2>8. CASE Wait
    BY <2>8 DEF Wait
  <2>9. CASE Stop
    <3>1. node'.stop = TRUE /\ th'["main"].pc = "tellLeaving" /\ th'["main"].back = "up"
      BY <2>9 DEF Stop
    <3>2. th'["maintain"] = th["maintain"]
      BY <2>9 DEF Stop
    <3>3. StopInv' /\ ServedInv'
      BY <3>1
    <3> QED BY <3>1, <3>2, <3>3
  <2>10. CASE Say("main", "tellLeaving", "silence")
    BY <2>10 DEF Say, Record
  <2>11. CASE StopGossip \/ Join
    BY <2>11 DEF StopGossip, Join
  <2>12. CASE Unserve("main", "close")
    BY <2>12 DEF Unserve
  <2>13. CASE TakeTunnel("main")
    BY <2>13 DEF TakeTunnel
  <2>14. CASE EndTunnel("main", "join")
    BY <2>14 DEF EndTunnel
  <2> QED BY <1>1, <2>1, <2>2, <2>3, <2>4, <2>5, <2>6, <2>7,
             <2>8, <2>9, <2>10, <2>11, <2>12, <2>13, <2>14
      DEF Main
<1>2. CASE Maintain
  <2>1. CASE Wake
    BY <2>1 DEF Wake
  <2>2. CASE Resume
    BY <2>2 DEF Resume
  <2>3. CASE Say("maintain", "sign", "check")
    BY <2>3 DEF Say, Record
  <2>4. CASE Check
    BY <2>4 DEF Check
  <2>5. CASE Look
    BY <2>5 DEF Look
  <2>6. CASE Move
    BY <2>6 DEF Move
  <2>7. CASE Say("maintain", "tellLoading", "unserve")
    BY <2>7 DEF Say, Record
  <2>8. CASE Unserve("maintain", "reload")
    BY <2>8 DEF Unserve
  <2>9. CASE Reload
    BY <2>9 DEF Reload, Serve, ServeFails
  <2>10. CASE Moved
    BY <2>10 DEF Moved
  <2>11. CASE Say("maintain", "tell", "sleep")
    BY <2>11 DEF Say, Record
  <2>12. CASE Bound("maintain")
    BY <2>12 DEF Bound
  <2>13. CASE BeginOpen("maintain")
    BY <2>13 DEF BeginOpen
  <2>14. CASE EndOpen("maintain")
    BY <2>14 DEF EndOpen
  <2>15. CASE OpenFails("maintain")
    BY <2>15 DEF OpenFails
  <2>16. CASE TakeTunnel("maintain")
    BY <2>16 DEF TakeTunnel
  <2>17. CASE EndTunnel("maintain", "open")
    BY <2>17 DEF EndTunnel
  <2> QED BY <1>2, <2>1, <2>2, <2>3, <2>4, <2>5, <2>6, <2>7, <2>8,
             <2>9, <2>10, <2>11, <2>12, <2>13, <2>14, <2>15, <2>16, <2>17
      DEF Maintain
<1>3. CASE Gossip
  BY <1>3 DEF Gossip, Record
<1>4. CASE Signal
  BY <1>4 DEF Signal
<1>5. ASSUME NEW u, Break(u) PROVE (BackInv /\ StopInv /\ ServedInv)'
  BY <1>5 DEF Break
<1>6. CASE UNCHANGED vars
  BY <1>6 DEF vars
<1> QED BY <1>1, <1>2, <1>3, <1>4, <1>5, <1>6 DEF Next

\* It holds when the process starts.
LEMMA IInvInit ==
  ASSUME Init
  PROVE  IInv
BY DEF Init, IInv, Shape, BackInv, StopInv, ServedInv, Starting, Started, Stopping, Opening,
       Reloaded, Moving, Fields, Thread

\* Peers are never sent to a window that is not served: in every behaviour,
\* until the node is stopping, the newest record that says "up" names the
\* window its server holds (start, move, _sign_snapshot).
THEOREM UpIsServed == Spec => []PublishedIsServed
<1>1. Init => IInv
  BY IInvInit
<1>2. IInv /\ [Next]_vars => IInv'
  BY ShapeStep, IInvStep DEF IInv
<1>3. IInv => PublishedIsServed
  BY DEF IInv, ServedInv, PublishedIsServed
<1> QED BY <1>1, <1>2, <1>3, PTL DEF Spec

-----------------------------------------------------------------------------
\* Direct links: the inductive invariant.

\* There is an owner and an endpoint to speak of, and the bounds are numbers.
Sized == /\ Owner # {} /\ Endpoint # {}
         /\ Slots \in Nat /\ MaxEndpoints \in Nat /\ MaxLinks \in Nat /\ MaxFaults \in Nat

Phases == {"none", "queued", "health", "offer", "answer", "open", "done", "cancelled"}
Entry == [job : 0..MaxLinks, peer : 0..MaxLinks, pause : BOOLEAN]
LinkTypes ==
  /\ state \in [Owner -> [Endpoint -> Entry]]
  /\ jobs \in [R!Link -> [at : Phases, owner : Owner, e : Endpoint]]
  /\ slots \in 0..Slots /\ inflight \subseteq Endpoint
  /\ shared \in [Endpoint -> 0..MaxLinks]
  /\ link \in [R!Link -> [server : Nat, ready : BOOLEAN]]
  /\ server \in [Endpoint -> Nat]
  /\ call \in [Owner -> [at : {"idle", "direct", "http"}, e : Endpoint, link : 0..MaxLinks]]
  /\ faults \in Nat

\* A negotiation has its endpoint to itself, and the endpoint is marked.
Apart == \A l \in R!Live : /\ jobs[l].e \in inflight
                           /\ \A k \in R!Live : jobs[k].e = jobs[l].e => k = l

\* A ready link is its negotiation's or, once that is done, an owner's; an owner whose negotiation
\* is under way has no link at the endpoint that the new one would replace.
Owned ==
  /\ \A l \in R!Link : link[l].ready =>
       \/ jobs[l].at = "open"
       \/ jobs[l].at = "done" /\ \E o \in Owner, e \in Endpoint : state[o][e].peer = l
  /\ \A o \in Owner, e \in Endpoint : state[o][e].job # 0 =>
       /\ jobs[state[o][e].job].at # "none"
       /\ R!Alive(state[o][e].job) => state[o][e].peer = 0

\* A ready link leads to the server that runs at its endpoint, and an answer is of a server that ran.
Led == ~OfferWaits => \A l \in R!Link :
  /\ link[l].ready => link[l].server = server[jobs[l].e] /\ R!Serves(link[l].server)
  /\ jobs[l].at = "answer" => R!Serves(link[l].server)

LinkInv == LinkTypes /\ R!SlotsCounted /\ Apart /\ Owned /\ Led

-----------------------------------------------------------------------------
\* What a step changes.

\* An instance counts as the library does.
LEMMA SameCount == \A S : R!Cardinality(S) = Cardinality(S)
  BY DEF R!Cardinality, Cardinality

\* A link that is shut is not ready any more, and no other changes.
LEMMA Shutting ==
  ASSUME LinkTypes, NEW l \in 0..MaxLinks, link' = R!Shut(l)
  PROVE  /\ link' \in [R!Link -> [server : Nat, ready : BOOLEAN]]
         /\ \A k \in R!Link : /\ link'[k].server = link[k].server
                              /\ link'[k].ready <=> link[k].ready /\ k # l
<1>1. CASE l = 0
  BY <1>1 DEF LinkTypes, R!Shut, R!Link
<1>2. CASE l # 0
  <2>1. l \in R!Link /\ link' = [link EXCEPT ![l].ready = FALSE]
    BY <1>2 DEF R!Shut, R!Link, LinkTypes
  <2>2. link \in [R!Link -> [server : Nat, ready : BOOLEAN]]
    BY DEF LinkTypes
  <2>3. link' \in [R!Link -> [server : Nat, ready : BOOLEAN]]
    BY <2>1, <2>2
  <2>4. ASSUME NEW k \in R!Link
        PROVE  link'[k].server = link[k].server /\ (link'[k].ready <=> link[k].ready /\ k # l)
    <3>1. CASE k = l
      BY <2>1, <2>2, <3>1
    <3>2. CASE k # l
      BY <2>1, <2>2, <3>2
    <3> QED BY <3>1, <3>2
  <2> QED BY <2>3, <2>4
<1> QED BY <1>1, <1>2

\* What is kept of one owner's endpoint changes, and nothing else.
LEMMA Entered ==
  ASSUME LinkTypes, NEW o \in Owner, NEW e \in Endpoint, NEW v \in Entry,
         state' = [state EXCEPT ![o] = [@ EXCEPT ![e] = v]]
  PROVE  /\ state' \in [Owner -> [Endpoint -> Entry]] /\ state'[o][e] = v
         /\ \A x \in Owner, y \in Endpoint : (x = o /\ y = e) \/ state'[x][y] = state[x][y]
<1> DEFINE row == [state[o] EXCEPT ![e] = v]
<1>1. state \in [Owner -> [Endpoint -> Entry]]
  BY DEF LinkTypes
<1>2. state[o] \in [Endpoint -> Entry]
  BY <1>1
<1>3. /\ row \in [Endpoint -> Entry] /\ row[e] = v
      /\ \A y \in Endpoint : y = e \/ row[y] = state[o][y]
  BY <1>2
<1>4. state' = [state EXCEPT ![o] = row]
  OBVIOUS
<1> HIDE DEF row
<1> QED BY <1>1, <1>3, <1>4

\* A negotiation that is kept at an endpoint is one of the links'.
LEMMA JobIsLink ==
  ASSUME Sized, NEW s \in [Owner -> [Endpoint -> Entry]]
  PROVE  \A o \in Owner, e \in Endpoint : s[o][e].job # 0 => s[o][e].job \in R!Link
<1> SUFFICES ASSUME NEW o \in Owner, NEW e \in Endpoint, s[o][e].job # 0
             PROVE  s[o][e].job \in R!Link
  OBVIOUS
<1>1. s[o][e] \in Entry
  OBVIOUS
<1>2. s[o][e].job \in 0..MaxLinks /\ MaxLinks \in Nat
  BY <1>1 DEF Entry, Sized
<1> QED BY <1>2 DEF R!Link

\* The negotiations that wait or run are some of finitely many.
LEMMA LiveIs ==
  ASSUME Sized, LinkTypes
  PROVE  IsFiniteSet(R!Live) /\ R!Live \subseteq R!Link /\ Cardinality(R!Live) \in Nat
<1>1. IsFiniteSet(R!Link)
  BY FS_Interval DEF Sized, R!Link
<1>2. R!Live \subseteq R!Link
  BY DEF R!Live
<1> QED BY <1>1, <1>2, FS_Subset, FS_CardinalityType

\* Links may end, and owners may forget links that have: nobody negotiates.
LEMMA QuietStep ==
  ASSUME Sized, LinkInv, LinkTypes', UNCHANGED <<jobs, slots, inflight, server>>,
         \A l \in R!Link : link'[l].server = link[l].server /\ (link'[l].ready => link[l].ready),
         \A o \in Owner, e \in Endpoint :
           /\ state'[o][e].job = state[o][e].job
           /\ \/ state'[o][e].peer = state[o][e].peer
              \/ state'[o][e].peer = 0 /\ \A l \in R!Link : state[o][e].peer = l => ~link'[l].ready
  PROVE  LinkInv'
<1>1. R!Live' = R!Live /\ \A l : (R!Alive(l)' <=> R!Alive(l))
  BY DEF R!Live, R!Alive
<1>2. R!SlotsCounted' /\ Apart'
  BY <1>1 DEF LinkInv, R!SlotsCounted, Apart
<1>3. Owned'
  <2>1. ASSUME NEW l \in R!Link, link'[l].ready
        PROVE  \/ jobs[l].at = "open"
               \/ jobs[l].at = "done" /\ \E o \in Owner, e \in Endpoint : state'[o][e].peer = l
    <3>1. CASE jobs[l].at = "open"
      BY <3>1
    <3>2. CASE jobs[l].at # "open"
      <4>1. PICK o \in Owner, e \in Endpoint : jobs[l].at = "done" /\ state[o][e].peer = l
        BY <2>1, <3>2 DEF LinkInv, Owned
      <4>2. state'[o][e].peer = l
        BY <2>1, <4>1
      <4> QED BY <4>1, <4>2
    <3> QED BY <3>1, <3>2
  <2>2. ASSUME NEW o \in Owner, NEW e \in Endpoint, NEW j \in R!Link, state'[o][e].job = j
        PROVE  jobs'[j].at # "none" /\ (R!Alive(j)' => state'[o][e].peer = 0)
    <3>1. state[o][e].job = j /\ j # 0
      BY <2>2 DEF R!Link
    <3> QED BY <1>1, <3>1 DEF LinkInv, Owned
  <2>3. \A o \in Owner, e \in Endpoint : state'[o][e].job # 0 => state'[o][e].job \in R!Link
    <3>1. state' \in [Owner -> [Endpoint -> Entry]]
      BY DEF LinkTypes
    <3> QED BY <3>1, JobIsLink
  <2> QED BY <2>1, <2>2, <2>3 DEF Owned, R!Alive
<1>4. Led'
  BY DEF LinkInv, Led
<1> QED BY <1>2, <1>3, <1>4 DEF LinkInv

\* A step of a negotiation that is not its last.
LEMMA GoesStep ==
  ASSUME Sized, LinkInv, LinkTypes', NEW l \in R!Link, NEW to \in {"health", "offer", "answer", "open"},
         R!Alive(l), jobs[l].at # "open", R!Goes(l, to), UNCHANGED <<state, slots, inflight, server>>,
         \A k \in R!Link \ {l} : link'[k] = link[k],
         link'[l].ready => to = "open" /\ (~OfferWaits => /\ link'[l].server = server[jobs[l].e]
                                                           /\ R!Serves(link'[l].server)),
         to = "answer" => R!Serves(link'[l].server)
  PROVE  LinkInv'
<1>1. /\ jobs' = [jobs EXCEPT ![l].at = to] /\ jobs'[l].at = to /\ jobs'[l].e = jobs[l].e
      /\ \A k \in R!Link \ {l} : jobs'[k] = jobs[k]
  BY DEF R!Goes, LinkInv, LinkTypes
<1>2. \A k \in R!Link : (R!Alive(k)' <=> R!Alive(k)) /\ jobs'[k].e = jobs[k].e
  BY <1>1 DEF R!Alive
<1>3. R!Live' = R!Live
  BY <1>2 DEF R!Live
<1>4. R!SlotsCounted' /\ Apart'
  BY <1>2, <1>3 DEF LinkInv, R!SlotsCounted, Apart, R!Live
<1>5. Owned'
  <2>1. ASSUME NEW k \in R!Link, link'[k].ready
        PROVE  \/ jobs'[k].at = "open"
               \/ jobs'[k].at = "done" /\ \E o \in Owner, e \in Endpoint : state[o][e].peer = k
    BY <1>1, <2>1 DEF LinkInv, Owned
  <2>2. ASSUME NEW o \in Owner, NEW e \in Endpoint, NEW j \in R!Link, state[o][e].job = j
        PROVE  jobs'[j].at # "none" /\ (R!Alive(j)' => state[o][e].peer = 0)
    <3>1. j # 0
      BY DEF R!Link
    <3> QED BY <1>1, <1>2, <2>2, <3>1 DEF LinkInv, Owned
  <2>3. \A o \in Owner, e \in Endpoint : state[o][e].job # 0 => state[o][e].job \in R!Link
    <3>1. state \in [Owner -> [Endpoint -> Entry]]
      BY DEF LinkInv, LinkTypes
    <3> QED BY <3>1, JobIsLink
  <2> QED BY <2>1, <2>2, <2>3 DEF Owned, R!Alive
<1>6. Led'
  <2> SUFFICES ASSUME ~OfferWaits, NEW k \in R!Link
               PROVE  /\ link'[k].ready =>
                           link'[k].server = server[jobs'[k].e] /\ R!Serves(link'[k].server)
                      /\ jobs'[k].at = "answer" => R!Serves(link'[k].server)
    BY DEF Led
  <2>1. CASE k = l
    BY <1>1, <2>1
  <2>2. CASE k # l
    BY <1>1, <2>2 DEF LinkInv, Led
  <2> QED BY <2>1, <2>2
<1> QED BY <1>4, <1>5, <1>6 DEF LinkInv

\* A negotiation that ends gives back its slot and its endpoint.
LEMMA Released ==
  ASSUME Sized, LinkInv, NEW l \in R!Link, R!Alive(l), R!Release(l)
  PROVE  /\ R!SlotsCounted' /\ Apart' /\ slots' \in 0..Slots /\ inflight' \subseteq Endpoint
         /\ jobs' \in [R!Link -> [at : Phases, owner : Owner, e : Endpoint]]
         /\ jobs'[l].at = "done" /\ ~R!Alive(l)'
         /\ \A k \in R!Link \ {l} : jobs'[k] = jobs[k] /\ (R!Alive(k)' <=> R!Alive(k))
         /\ \A k \in R!Link : jobs'[k].e = jobs[k].e
<1>1. LinkTypes /\ jobs' = [jobs EXCEPT ![l].at = "done"] /\ slots' = slots - 1
      /\ inflight' = inflight \ {jobs[l].e}
  BY DEF LinkInv, R!Release, R!Goes
<1>2. jobs' \in [R!Link -> [at : Phases, owner : Owner, e : Endpoint]]
  <2> DEFINE Job == [at : Phases, owner : Owner, e : Endpoint]
             after == [jobs[l] EXCEPT !.at = "done"]
  <2>1. jobs \in [R!Link -> Job] /\ jobs[l] \in Job
    BY <1>1 DEF LinkTypes
  <2>2. after \in Job
    BY <2>1 DEF Phases
  <2>3. jobs' = [jobs EXCEPT ![l] = after]
    BY <1>1
  <2> HIDE DEF Job, after
  <2>4. jobs' \in [R!Link -> Job]
    BY <2>1, <2>2, <2>3
  <2> QED BY <2>4 DEF Job
<1>3. /\ jobs'[l].at = "done" /\ jobs'[l].e = jobs[l].e
      /\ \A k \in R!Link \ {l} : jobs'[k] = jobs[k]
  BY <1>1 DEF LinkTypes
<1>4. ~R!Alive(l)' /\ \A k \in R!Link \ {l} : (R!Alive(k)' <=> R!Alive(k))
  BY <1>3 DEF R!Alive
<1>5. R!Live' = R!Live \ {l} /\ l \in R!Live
  BY <1>4 DEF R!Live
<1>6. Cardinality(R!Live') = Cardinality(R!Live) - 1 /\ Cardinality(R!Live') \in Nat
  <2>1. IsFiniteSet(R!Live) /\ Cardinality(R!Live) \in Nat
    BY <1>1, LiveIs
  <2>2. IsFiniteSet(R!Live') /\ Cardinality(R!Live') = Cardinality(R!Live) - 1
    BY <1>5, <2>1, FS_RemoveElement
  <2> QED BY <2>2, FS_CardinalityType
<1>7. R!SlotsCounted' /\ slots' \in 0..Slots
  <2>1. slots = Cardinality(R!Live) /\ slots \in 0..Slots /\ Slots \in Nat
    BY <1>1, SameCount DEF LinkInv, R!SlotsCounted, LinkTypes, Sized
  <2>2. slots' = Cardinality(R!Live')
    BY <1>1, <1>6, <2>1
  <2> QED BY <1>1, <1>6, <2>1, <2>2, SameCount DEF R!SlotsCounted
<1>8. Apart'
  BY <1>1, <1>3, <1>5 DEF LinkInv, Apart, R!Live
<1> QED BY <1>1, <1>2, <1>3, <1>4, <1>7, <1>8 DEF LinkTypes

\* The endpoint, the slot and the link of a negotiation that failed.
LEMMA FailStep ==
  ASSUME Sized, LinkInv, NEW l \in R!Link, R!Fail(l)
  PROVE  LinkInv'
<1>1. /\ LinkTypes /\ Owned /\ Led
  BY DEF LinkInv
<1>2. /\ jobs[l].at \in {"health", "offer", "answer"} /\ R!Alive(l) /\ R!Release(l)
      /\ UNCHANGED <<state, shared, link, server, call>> /\ faults' \in Nat
  BY <1>1 DEF R!Fail, R!Alive, R!Fault, LinkTypes
<1>3. /\ R!SlotsCounted' /\ Apart' /\ slots' \in 0..Slots /\ inflight' \subseteq Endpoint
      /\ jobs' \in [R!Link -> [at : Phases, owner : Owner, e : Endpoint]]
      /\ jobs'[l].at = "done" /\ ~R!Alive(l)'
      /\ \A k \in R!Link \ {l} : jobs'[k] = jobs[k] /\ (R!Alive(k)' <=> R!Alive(k))
      /\ \A k \in R!Link : jobs'[k].e = jobs[k].e
  BY <1>2, Released
<1>4. LinkTypes'
  BY <1>1, <1>2, <1>3 DEF LinkTypes
<1>5. ~link[l].ready
  BY <1>1, <1>2 DEF Owned
<1>6. Owned'
  <2>1. ASSUME NEW k \in R!Link, link[k].ready
        PROVE  \/ jobs'[k].at = "open"
               \/ jobs'[k].at = "done" /\ \E o \in Owner, e \in Endpoint : state[o][e].peer = k
    BY <1>1, <1>3, <1>5, <2>1 DEF Owned
  <2>2. ASSUME NEW o \in Owner, NEW e \in Endpoint, NEW j \in R!Link, state[o][e].job = j
        PROVE  jobs'[j].at # "none" /\ (R!Alive(j)' => state[o][e].peer = 0)
    <3>1. j # 0
      BY DEF R!Link
    <3> QED BY <1>1, <1>3, <2>2, <3>1 DEF Owned
  <2>3. \A o \in Owner, e \in Endpoint : state[o][e].job # 0 => state[o][e].job \in R!Link
    <3>1. state \in [Owner -> [Endpoint -> Entry]]
      BY <1>1 DEF LinkTypes
    <3> QED BY <3>1, JobIsLink
  <2> QED BY <1>2, <2>1, <2>2, <2>3 DEF Owned, R!Alive
<1>7. Led'
  BY <1>1, <1>2, <1>3 DEF Led
<1> QED BY <1>3, <1>4, <1>6, <1>7 DEF LinkInv

\* A link that opened is kept, or shut when its owner has forgotten it.
LEMMA KeepStep ==
  ASSUME Sized, LinkInv, NEW l \in R!Link, R!Keep(l)
  PROVE  LinkInv'
<1> DEFINE o == jobs[l].owner
           e == jobs[l].e
<1>1. /\ LinkTypes /\ Owned /\ Led
  BY DEF LinkInv
<1>2. /\ jobs[l].at = "open" /\ R!Alive(l) /\ R!Release(l) /\ UNCHANGED <<server, call, faults>>
      /\ o \in Owner /\ e \in Endpoint /\ l # 0 /\ l \in 0..MaxLinks
  BY <1>1 DEF R!Keep, R!Alive, LinkTypes, R!Link
<1>3. /\ R!SlotsCounted' /\ Apart' /\ slots' \in 0..Slots /\ inflight' \subseteq Endpoint
      /\ jobs' \in [R!Link -> [at : Phases, owner : Owner, e : Endpoint]]
      /\ jobs'[l].at = "done" /\ ~R!Alive(l)'
      /\ \A k \in R!Link \ {l} : jobs'[k] = jobs[k] /\ (R!Alive(k)' <=> R!Alive(k))
      /\ \A k \in R!Link : jobs'[k].e = jobs[k].e
  BY <1>2, Released
<1>4. \/ /\ state[o][e].job = l /\ state' = [state EXCEPT ![o][e].peer = l]
         /\ shared' = [shared EXCEPT ![e] = l] /\ link' = link
      \/ link' = R!Shut(l) /\ UNCHANGED <<state, shared>>
  BY DEF R!Keep
<1> HIDE DEF o, e
<1>5. /\ link' \in [R!Link -> [server : Nat, ready : BOOLEAN]]
      /\ \A k \in R!Link : link'[k].server = link[k].server /\ (link'[k].ready => link[k].ready)
  BY <1>1, <1>2, <1>4, Shutting DEF LinkTypes
<1>6. /\ state' \in [Owner -> [Endpoint -> Entry]]
      /\ shared' \in [Endpoint -> 0..MaxLinks]
      /\ \A x \in Owner, y \in Endpoint :
           /\ state'[x][y].job = state[x][y].job
           /\ \/ state'[x][y].peer = state[x][y].peer
              \/ x = o /\ y = e /\ state'[x][y].peer = l /\ state[x][y].job = l
  <2>1. CASE link' = R!Shut(l) /\ UNCHANGED <<state, shared>>
    BY <1>1, <2>1 DEF LinkTypes
  <2>2. CASE /\ state[o][e].job = l /\ state' = [state EXCEPT ![o][e].peer = l]
             /\ shared' = [shared EXCEPT ![e] = l]
    <3> DEFINE v == [state[o][e] EXCEPT !.peer = l]
    <3>1. state[o][e] \in Entry
      BY <1>1, <1>2 DEF LinkTypes
    <3>2. v \in Entry /\ v.peer = l /\ v.job = state[o][e].job
      BY <1>2, <3>1 DEF Entry
    <3>3. state' = [state EXCEPT ![o] = [@ EXCEPT ![e] = v]]
      BY <2>2
    <3> HIDE DEF v
    <3>4. /\ state' \in [Owner -> [Endpoint -> Entry]] /\ state'[o][e] = v
          /\ \A x \in Owner, y \in Endpoint : (x = o /\ y = e) \/ state'[x][y] = state[x][y]
      <4>1. LinkTypes /\ o \in Owner /\ e \in Endpoint /\ v \in Entry
        BY <1>1, <1>2, <3>2
      <4> QED BY <3>3, <4>1, Entered
    <3>5. shared' \in [Endpoint -> 0..MaxLinks]
      BY <1>1, <1>2, <2>2 DEF LinkTypes
    <3> QED BY <2>2, <3>2, <3>4, <3>5
  <2> QED BY <1>4, <2>1, <2>2
<1>7. LinkTypes'
  BY <1>1, <1>2, <1>3, <1>5, <1>6 DEF LinkTypes
<1>8. Owned'
  <2>1. ASSUME NEW k \in R!Link, link'[k].ready
        PROVE  \/ jobs'[k].at = "open"
               \/ jobs'[k].at = "done" /\ \E x \in Owner, y \in Endpoint : state'[x][y].peer = k
    <3>1. CASE k = l
      <4>1. state' = [state EXCEPT ![o][e].peer = l]
        BY <1>1, <1>2, <1>4, <2>1, <3>1, Shutting
      <4>2. state'[o][e].peer = l
        BY <1>1, <1>2, <4>1 DEF LinkTypes, Entry
      <4> QED BY <1>2, <1>3, <3>1, <4>2
    <3>2. CASE k # l /\ jobs[k].at = "open"
      BY <1>3, <3>2
    <3>3. CASE k # l /\ jobs[k].at # "open"
      <4>1. PICK x \in Owner, y \in Endpoint : jobs[k].at = "done" /\ state[x][y].peer = k
        BY <1>1, <1>5, <2>1, <3>3 DEF Owned
      <4>2. state'[x][y].peer = k
        <5> SUFFICES ASSUME state[x][y].job = l PROVE FALSE
          BY <1>6, <4>1
        <5>1. state[x][y].peer = 0
          BY <1>1, <1>2 DEF Owned
        <5> QED BY <4>1, <5>1 DEF R!Link
      <4> QED BY <1>3, <3>3, <4>1, <4>2
    <3> QED BY <3>1, <3>2, <3>3
  <2>2. ASSUME NEW x \in Owner, NEW y \in Endpoint, NEW j \in R!Link, state'[x][y].job = j
        PROVE  jobs'[j].at # "none" /\ (R!Alive(j)' => state'[x][y].peer = 0)
    <3>1. j # 0 /\ state[x][y].job = j
      BY <1>6, <2>2 DEF R!Link
    <3>2. jobs[j].at # "none" /\ (R!Alive(j) => state[x][y].peer = 0)
      BY <1>1, <3>1 DEF Owned
    <3>3. CASE j = l
      BY <1>3, <3>3
    <3>4. CASE j # l
      BY <1>3, <1>6, <3>1, <3>2, <3>4
    <3> QED BY <3>3, <3>4
  <2>3. \A x \in Owner, y \in Endpoint : state'[x][y].job # 0 => state'[x][y].job \in R!Link
    <3>1. state' \in [Owner -> [Endpoint -> Entry]]
      BY <1>6
    <3> QED BY <3>1, JobIsLink
  <2> QED BY <2>1, <2>2, <2>3 DEF Owned, R!Alive
<1>9. Led'
  <2>1. \A k \in R!Link : jobs'[k].at = "answer" => jobs[k].at = "answer"
    BY <1>3
  <2> QED BY <1>1, <1>2, <1>3, <1>5, <2>1 DEF Led
<1> QED BY <1>3, <1>7, <1>8, <1>9 DEF LinkInv

\* A negotiation is queued for an endpoint with nobody else's under way.
LEMMA UpgradeStep ==
  ASSUME Sized, LinkInv, NEW o \in Owner, NEW e \in Endpoint, R!Upgrade(o, e)
  PROVE  LinkInv'
<1>1. /\ LinkTypes /\ Owned /\ Led /\ Apart /\ R!SlotsCounted
  BY DEF LinkInv
<1>2. PICK l \in R!Link :
        /\ R!Fresh(l) /\ ~R!Ready(state[o][e].peer) /\ e \notin inflight /\ slots < Slots
        /\ slots' = slots + 1 /\ inflight' = inflight \cup {e}
        /\ link' = R!Shut(state[o][e].peer)
        /\ state' = [state EXCEPT ![o][e] = [job |-> l, peer |-> 0, pause |-> TRUE]]
        /\ jobs' = [jobs EXCEPT ![l] = [at |-> "queued", owner |-> o, e |-> e]]
        /\ R!ByHttp(o, e) /\ UNCHANGED <<shared, server, faults>>
  BY DEF R!Upgrade
<1>3. jobs[l].at = "none" /\ l \in Nat /\ l # 0 /\ l \in 0..MaxLinks
  BY <1>2 DEF R!Fresh, R!Link, Sized
<1>4. /\ state' \in [Owner -> [Endpoint -> Entry]]
      /\ state'[o][e] = [job |-> l, peer |-> 0, pause |-> TRUE]
      /\ \A x \in Owner, y \in Endpoint : (x = o /\ y = e) \/ state'[x][y] = state[x][y]
  <2> DEFINE v == [job |-> l, peer |-> 0, pause |-> TRUE]
  <2>1. v \in Entry
    <3>1. 0 \in 0..MaxLinks
      BY DEF Sized
    <3> QED BY <1>3, <3>1 DEF Entry
  <2>2. state' = [state EXCEPT ![o] = [@ EXCEPT ![e] = v]]
    BY <1>2
  <2> HIDE DEF v
  <2>3. /\ state' \in [Owner -> [Endpoint -> Entry]] /\ state'[o][e] = v
        /\ \A x \in Owner, y \in Endpoint : (x = o /\ y = e) \/ state'[x][y] = state[x][y]
    <3>1. LinkTypes /\ v \in Entry
      BY <1>1, <2>1
    <3> QED BY <2>2, <3>1, Entered
  <2> QED BY <2>3 DEF v
<1>5. /\ link' \in [R!Link -> [server : Nat, ready : BOOLEAN]]
      /\ \A k \in R!Link : /\ link'[k].server = link[k].server /\ (link'[k].ready => link[k].ready)
                           /\ state[o][e].peer = k => ~link'[k].ready
  <2>1. state[o][e].peer \in 0..MaxLinks
    BY <1>1 DEF LinkTypes, Entry
  <2> QED BY <1>1, <1>2, <2>1, Shutting
<1>6. /\ jobs' \in [R!Link -> [at : Phases, owner : Owner, e : Endpoint]]
      /\ jobs'[l] = [at |-> "queued", owner |-> o, e |-> e]
      /\ \A k \in R!Link \ {l} : jobs'[k] = jobs[k]
  <2> DEFINE Job == [at : Phases, owner : Owner, e : Endpoint]
             j == [at |-> "queued", owner |-> o, e |-> e]
  <2>1. j \in Job
    BY DEF Phases
  <2>2. jobs \in [R!Link -> Job] /\ jobs' = [jobs EXCEPT ![l] = j]
    BY <1>1, <1>2 DEF LinkTypes
  <2>3. jobs' \in [R!Link -> Job] /\ jobs'[l] = j /\ \A k \in R!Link \ {l} : jobs'[k] = jobs[k]
    <3> HIDE DEF j, Job
    <3> QED BY <2>1, <2>2
  <2> QED BY <2>3
<1>7. /\ R!Live' = R!Live \cup {l} /\ l \notin R!Live
      /\ \A k \in R!Link \ {l} : (R!Alive(k)' <=> R!Alive(k))
  <2>1. jobs'[l].at = "queued" /\ \A k \in R!Link \ {l} : jobs'[k] = jobs[k]
    BY <1>6
  <2>2. R!Alive(l)' /\ ~R!Alive(l) /\ \A k \in R!Link \ {l} : (R!Alive(k)' <=> R!Alive(k))
    BY <1>3, <2>1 DEF R!Alive
  <2> QED BY <2>2 DEF R!Live
<1>8. R!SlotsCounted' /\ slots' \in 0..Slots
  <2>1. IsFiniteSet(R!Live) /\ slots = Cardinality(R!Live)
    BY <1>1, LiveIs, SameCount DEF R!SlotsCounted
  <2>2. Cardinality(R!Live') = Cardinality(R!Live) + 1
    BY <1>7, <2>1, FS_AddElement
  <2>3. slots \in 0..Slots /\ Slots \in Nat
    BY <1>1 DEF LinkTypes, Sized
  <2> QED BY <1>2, <2>1, <2>2, <2>3, SameCount DEF R!SlotsCounted
<1>9. LinkTypes'
  <2>1. call' \in [Owner -> [at : {"idle", "direct", "http"}, e : Endpoint, link : 0..MaxLinks]]
    <3>1. [at |-> "http", e |-> e, link |-> 0]
            \in [at : {"idle", "direct", "http"}, e : Endpoint, link : 0..MaxLinks]
      BY DEF Sized
    <3> QED BY <1>1, <1>2, <3>1 DEF R!ByHttp, LinkTypes
  <2> QED BY <1>1, <1>2, <1>4, <1>5, <1>6, <1>8, <2>1 DEF LinkTypes
<1>10. Apart'
  <2>1. \A k \in R!Live : jobs[k].e # e
    BY <1>1, <1>2 DEF Apart
  <2>2. \A k \in R!Live : jobs'[k] = jobs[k]
    BY <1>6, <1>7 DEF R!Live
  <2>3. jobs'[l].e = e
    BY <1>6
  <2> QED BY <1>1, <1>2, <1>7, <2>1, <2>2, <2>3 DEF Apart
<1>11. Owned'
  <2>1. ASSUME NEW k \in R!Link, link'[k].ready
        PROVE  \/ jobs'[k].at = "open"
               \/ jobs'[k].at = "done" /\ \E x \in Owner, y \in Endpoint : state'[x][y].peer = k
    <3>1. k # l /\ jobs'[k] = jobs[k] /\ link[k].ready /\ state[o][e].peer # k
      <4>1. link[k].ready /\ jobs[k].at # "none"
        BY <1>1, <1>5, <2>1 DEF Owned
      <4> QED BY <1>3, <1>5, <1>6, <2>1, <4>1
    <3> QED BY <1>1, <1>4, <3>1 DEF Owned
  <2>2. ASSUME NEW x \in Owner, NEW y \in Endpoint, NEW j \in R!Link, state'[x][y].job = j
        PROVE  jobs'[j].at # "none" /\ (R!Alive(j)' => state'[x][y].peer = 0)
    <3>1. CASE x = o /\ y = e
      BY <1>4, <1>6, <2>2, <3>1
    <3>2. CASE ~(x = o /\ y = e)
      <4>1. state'[x][y] = state[x][y] /\ j # 0
        BY <1>4, <3>2 DEF R!Link
      <4>2. jobs[j].at # "none" /\ (R!Alive(j) => state[x][y].peer = 0)
        BY <1>1, <2>2, <4>1 DEF Owned
      <4>3. j # l
        BY <1>3, <4>2
      <4> QED BY <1>6, <1>7, <4>1, <4>2, <4>3
    <3> QED BY <3>1, <3>2
  <2>3. \A x \in Owner, y \in Endpoint : state'[x][y].job # 0 => state'[x][y].job \in R!Link
    <3>1. state' \in [Owner -> [Endpoint -> Entry]]
      BY <1>4
    <3> QED BY <3>1, JobIsLink
  <2> QED BY <2>1, <2>2, <2>3 DEF Owned, R!Alive
<1>12. Led'
  <2> SUFFICES ASSUME ~OfferWaits, NEW k \in R!Link
               PROVE  /\ link'[k].ready =>
                           link'[k].server = server[jobs'[k].e] /\ R!Serves(link'[k].server)
                      /\ jobs'[k].at = "answer" => R!Serves(link'[k].server)
    BY <1>2 DEF Led
  <2>1. CASE k = l
    <3>1. ~link[k].ready
      BY <1>1, <1>3, <2>1 DEF Owned
    <3> QED BY <1>5, <1>6, <2>1, <3>1
  <2>2. CASE k # l
    BY <1>1, <1>5, <1>6, <2>2 DEF Led
  <2> QED BY <2>1, <2>2
<1> QED BY <1>8, <1>9, <1>10, <1>11, <1>12 DEF LinkInv

\* An owner is closed: what it had queued gives its slots back, its links are shut.
LEMMA CloseStep ==
  ASSUME Sized, LinkInv, NEW o \in Owner, R!Close(o)
  PROVE  LinkInv'
<1> DEFINE gone == R!Cancelled(o)
           held(l) == \E e \in Endpoint : state[o][e].peer = l
<1>1. /\ LinkTypes /\ Owned /\ Led /\ Apart /\ R!SlotsCounted
  BY DEF LinkInv
<1>2. /\ state' = [state EXCEPT ![o] = [e \in Endpoint |-> R!NoState]]
      /\ jobs' = [l \in R!Link |-> IF l \in gone THEN [jobs[l] EXCEPT !.at = "cancelled"] ELSE jobs[l]]
      /\ slots' = slots - Cardinality(gone)
      /\ link' = [l \in R!Link |-> IF held(l) THEN [link[l] EXCEPT !.ready = FALSE] ELSE link[l]]
      /\ UNCHANGED <<inflight, shared, server, call>> /\ faults' \in Nat
  BY <1>1, SameCount DEF R!Close, R!Fault, LinkTypes
<1>3. gone \subseteq R!Link /\ \A l \in gone : jobs[l].at = "queued"
  BY DEF R!Cancelled, R!Mine
<1> HIDE DEF gone, held
<1>4. /\ jobs' \in [R!Link -> [at : Phases, owner : Owner, e : Endpoint]]
      /\ \A l \in R!Link : /\ jobs'[l].e = jobs[l].e
                           /\ l \in gone => jobs'[l].at = "cancelled"
                           /\ l \notin gone => jobs'[l] = jobs[l]
  <2> DEFINE Job == [at : Phases, owner : Owner, e : Endpoint]
             after(l) == IF l \in gone THEN [jobs[l] EXCEPT !.at = "cancelled"] ELSE jobs[l]
  <2>1. ASSUME NEW l \in R!Link
        PROVE  /\ after(l) \in Job /\ after(l).e = jobs[l].e
               /\ l \in gone => after(l).at = "cancelled"
               /\ l \notin gone => after(l) = jobs[l]
    <3>1. jobs[l] \in Job
      BY <1>1 DEF LinkTypes
    <3>2. [jobs[l] EXCEPT !.at = "cancelled"] \in Job
      BY <3>1 DEF Phases
    <3> QED BY <3>1, <3>2
  <2>2. jobs' = [l \in R!Link |-> after(l)]
    BY <1>2
  <2> HIDE DEF after
  <2> QED BY <2>1, <2>2
<1>5. /\ link' \in [R!Link -> [server : Nat, ready : BOOLEAN]]
      /\ \A l \in R!Link : /\ link'[l].server = link[l].server
                           /\ link'[l].ready <=> link[l].ready /\ ~held(l)
  BY <1>1, <1>2 DEF LinkTypes
<1>6. /\ state' \in [Owner -> [Endpoint -> Entry]]
      /\ \A x \in Owner, y \in Endpoint :
           IF x = o THEN state'[x][y].job = 0 /\ state'[x][y].peer = 0 ELSE state'[x][y] = state[x][y]
  <2>1. R!NoState \in Entry /\ R!NoState.job = 0 /\ R!NoState.peer = 0
    BY DEF R!NoState, Entry, Sized
  <2>2. [e \in Endpoint |-> R!NoState] \in [Endpoint -> Entry]
    BY <2>1
  <2>3. state' \in [Owner -> [Endpoint -> Entry]]
    BY <1>1, <1>2, <2>2 DEF LinkTypes
  <2>4. ASSUME NEW x \in Owner, NEW y \in Endpoint
        PROVE  IF x = o THEN state'[x][y] = R!NoState ELSE state'[x][y] = state[x][y]
    BY <1>1, <1>2 DEF LinkTypes
  <2> QED BY <2>1, <2>3, <2>4
<1>7. R!Live' = R!Live \ gone /\ gone \subseteq R!Live
  BY <1>3, <1>4 DEF R!Live, R!Alive
<1>8. R!SlotsCounted' /\ slots' \in 0..Slots
  <2>1. IsFiniteSet(R!Live) /\ slots = Cardinality(R!Live) /\ R!Live \cap gone = gone
    BY <1>1, <1>7, LiveIs, SameCount DEF R!SlotsCounted
  <2>2. /\ IsFiniteSet(R!Live \ gone)
        /\ Cardinality(R!Live \ gone) = Cardinality(R!Live) - Cardinality(R!Live \cap gone)
    BY <2>1, FS_Difference
  <2>3. slots' = Cardinality(R!Live')
    BY <1>2, <1>7, <2>1, <2>2
  <2>4. Cardinality(R!Live') \in Nat /\ Cardinality(R!Live') <= Cardinality(R!Live)
    <3>1. (R!Live \ gone) \subseteq R!Live
      OBVIOUS
    <3>2. Cardinality(R!Live \ gone) <= Cardinality(R!Live)
      BY <2>1, <3>1, FS_Subset
    <3> QED BY <1>7, <2>2, <3>2, FS_CardinalityType
  <2>5. slots \in 0..Slots /\ Slots \in Nat
    BY <1>1 DEF LinkTypes, Sized
  <2> QED BY <2>1, <2>3, <2>4, <2>5, SameCount DEF R!SlotsCounted
<1>9. LinkTypes'
  BY <1>1, <1>2, <1>4, <1>5, <1>6, <1>8 DEF LinkTypes
<1>10. Apart'
  <2>1. \A l \in R!Live' : l \in R!Live /\ jobs'[l].e = jobs[l].e
    BY <1>4, <1>7 DEF R!Live
  <2> QED BY <1>1, <1>2, <2>1 DEF Apart
<1>11. Owned'
  <2>1. ASSUME NEW l \in R!Link, link'[l].ready
        PROVE  \/ jobs'[l].at = "open"
               \/ jobs'[l].at = "done" /\ \E x \in Owner, y \in Endpoint : state'[x][y].peer = l
    <3>1. link[l].ready /\ ~held(l) /\ l \notin gone
      BY <1>1, <1>3, <1>5, <2>1 DEF Owned
    <3>2. \A y \in Endpoint : state[o][y].peer # l
      BY <3>1 DEF held
    <3>3. jobs'[l] = jobs[l]
      BY <1>4, <3>1
    <3>4. CASE jobs[l].at = "open"
      BY <3>3, <3>4
    <3>5. CASE jobs[l].at # "open"
      <4>1. PICK x \in Owner, y \in Endpoint : jobs[l].at = "done" /\ state[x][y].peer = l
        BY <1>1, <3>1, <3>5 DEF Owned
      <4>2. state'[x][y].peer = l
        BY <1>6, <3>2, <4>1
      <4> QED BY <3>3, <4>1, <4>2
    <3> QED BY <3>4, <3>5
  <2>2. ASSUME NEW x \in Owner, NEW y \in Endpoint, NEW j \in R!Link, state'[x][y].job = j
        PROVE  jobs'[j].at # "none" /\ (R!Alive(j)' => state'[x][y].peer = 0)
    <3>1. j # 0
      BY DEF R!Link
    <3>2. x # o /\ state'[x][y] = state[x][y]
      BY <1>6, <2>2, <3>1
    <3>3. jobs[j].at # "none" /\ (R!Alive(j) => state[x][y].peer = 0)
      BY <1>1, <2>2, <3>1, <3>2 DEF Owned
    <3> QED BY <1>4, <3>2, <3>3 DEF R!Alive
  <2>3. \A x \in Owner, y \in Endpoint : state'[x][y].job # 0 => state'[x][y].job \in R!Link
    <3>1. state' \in [Owner -> [Endpoint -> Entry]]
      BY <1>6
    <3> QED BY <3>1, JobIsLink
  <2> QED BY <2>1, <2>2, <2>3 DEF Owned, R!Alive
<1>12. Led'
  <2>1. \A l \in R!Link : jobs'[l].at = "answer" => jobs[l].at = "answer"
    BY <1>4
  <2> QED BY <1>1, <1>2, <1>4, <1>5, <2>1 DEF Led
<1> QED BY <1>8, <1>9, <1>10, <1>11, <1>12 DEF LinkInv


\* A server stops, which shuts its links, or the next one starts at the address.
LEMMA ServerStep ==
  ASSUME Sized, LinkInv, NEW e \in Endpoint, R!Stop(e) \/ R!Start(e)
  PROVE  LinkInv'
<1>1. /\ LinkTypes /\ Owned /\ Led
  BY DEF LinkInv
<1>2. /\ server' = [server EXCEPT ![e] = @ + 1] /\ faults' \in Nat
      /\ UNCHANGED <<state, jobs, slots, inflight, shared, call>>
  BY <1>1 DEF R!Stop, R!Start, R!Fault, LinkTypes
<1>3. server' \in [Endpoint -> Nat] /\ \A y \in Endpoint \ {e} : server'[y] = server[y]
  BY <1>1, <1>2 DEF LinkTypes
<1>4. /\ link' \in [R!Link -> [server : Nat, ready : BOOLEAN]]
      /\ \A l \in R!Link : link'[l].server = link[l].server /\ (link'[l].ready => link[l].ready)
      /\ \A l \in R!Link : jobs[l].e = e /\ link'[l].ready => ~R!Serves(server[e])
  <2>1. CASE R!Stop(e)
    <3>1. link' = [l \in R!Link |-> IF jobs[l].e = e THEN [link[l] EXCEPT !.ready = FALSE] ELSE link[l]]
      BY <2>1 DEF R!Stop
    <3> QED BY <1>1, <3>1 DEF LinkTypes
  <2>2. CASE R!Start(e)
    BY <1>1, <2>2 DEF R!Start, LinkTypes
  <2> QED BY <2>1, <2>2
<1>5. LinkTypes'
  BY <1>1, <1>2, <1>3, <1>4 DEF LinkTypes
<1>6. R!SlotsCounted' /\ Apart'
  BY <1>2 DEF LinkInv, R!SlotsCounted, Apart, R!Live, R!Alive
<1>7. Owned'
  BY <1>1, <1>2, <1>4 DEF Owned, R!Alive
<1>8. Led'
  <2> SUFFICES ASSUME ~OfferWaits, NEW l \in R!Link
               PROVE  /\ link'[l].ready =>
                           link'[l].server = server'[jobs[l].e] /\ R!Serves(link'[l].server)
                      /\ jobs[l].at = "answer" => R!Serves(link'[l].server)
    BY <1>2 DEF Led
  <2>1. jobs[l].at = "answer" => R!Serves(link'[l].server)
    BY <1>1, <1>4 DEF Led
  <2>2. ASSUME link'[l].ready
        PROVE  link'[l].server = server'[jobs[l].e] /\ R!Serves(link'[l].server)
    <3>1. link[l].server = server[jobs[l].e] /\ R!Serves(link[l].server)
      BY <1>1, <1>4, <2>2 DEF Led
    <3>2. jobs[l].e # e
      BY <1>4, <2>2, <3>1
    <3>3. jobs[l].e \in Endpoint
      BY <1>1 DEF LinkTypes
    <3> QED BY <1>3, <1>4, <3>1, <3>2, <3>3
  <2> QED BY <2>1, <2>2
<1> QED BY <1>5, <1>6, <1>7, <1>8 DEF LinkInv

\* A negotiation that is under way makes a step, or its link opens.
LEMMA NegotiateStep ==
  ASSUME Sized, LinkInv, NEW l \in R!Link, R!RunJob(l) \/ R!Health(l) \/ R!Offer(l) \/ R!Open(l)
  PROVE  LinkInv'
<1>1. /\ LinkTypes /\ Owned /\ Led
  BY DEF LinkInv
<1> DEFINE Job == [at : Phases, owner : Owner, e : Endpoint]
<1>2. ASSUME NEW to \in {"health", "offer", "answer", "open"}, R!Goes(l, to)
      PROVE  jobs' \in [R!Link -> Job]
  <2>1. jobs[l] \in Job
    BY <1>1 DEF LinkTypes
  <2>2. [jobs[l] EXCEPT !.at = to] \in Job
    BY <2>1 DEF Phases
  <2> QED BY <1>1, <1>2, <2>2 DEF R!Goes, LinkTypes
<1>3. jobs[l].e \in Endpoint
  BY <1>1 DEF LinkTypes
<1>4. CASE R!RunJob(l) \/ R!Health(l)
  <2>1. PICK to \in {"health", "offer"} :
          /\ R!Goes(l, to) /\ jobs[l].at \in {"queued", "health"}
          /\ UNCHANGED <<state, slots, inflight, shared, link, server, call, faults>>
    BY <1>4 DEF R!RunJob, R!Health
  <2>2. R!Alive(l) /\ jobs[l].at # "open" /\ ~link[l].ready
    BY <1>1, <2>1 DEF R!Alive, Owned
  <2>3. LinkTypes'
    BY <1>1, <1>2, <2>1 DEF LinkTypes
  <2> QED BY <2>1, <2>2, <2>3, GoesStep
<1>5. CASE R!Offer(l)
  <2>1. /\ jobs[l].at = "offer" /\ R!Serves(server[jobs[l].e]) /\ R!Goes(l, "answer")
        /\ link' = [link EXCEPT ![l].server = server[jobs[l].e]]
        /\ UNCHANGED <<state, slots, inflight, shared, server, call, faults>>
    BY <1>5 DEF R!Offer
  <2>2. R!Alive(l) /\ ~link[l].ready
    BY <1>1, <2>1 DEF R!Alive, Owned
  <2>3. /\ link' \in [R!Link -> [server : Nat, ready : BOOLEAN]]
        /\ \A k \in R!Link \ {l} : link'[k] = link[k]
        /\ link'[l].server = server[jobs[l].e] /\ link'[l].ready = link[l].ready
    BY <1>1, <1>3, <2>1 DEF LinkTypes
  <2>4. LinkTypes'
    BY <1>1, <1>2, <2>1, <2>3 DEF LinkTypes
  <2> QED BY <2>1, <2>2, <2>3, <2>4, GoesStep
<1>6. CASE R!Open(l)
  <2>1. /\ jobs[l].at = "answer" /\ (OfferWaits \/ link[l].server = server[jobs[l].e])
        /\ R!Goes(l, "open") /\ link' = [link EXCEPT ![l].ready = TRUE]
        /\ UNCHANGED <<state, slots, inflight, shared, server, call, faults>>
    BY <1>6 DEF R!Open
  <2>2. R!Alive(l) /\ ~link[l].ready
    BY <1>1, <2>1 DEF R!Alive, Owned
  <2>3. /\ link' \in [R!Link -> [server : Nat, ready : BOOLEAN]]
        /\ \A k \in R!Link \ {l} : link'[k] = link[k]
        /\ link'[l].server = link[l].server
    BY <1>1, <2>1 DEF LinkTypes
  <2>4. LinkTypes'
    BY <1>1, <1>2, <2>1, <2>3 DEF LinkTypes
  <2>5. ~OfferWaits => link'[l].server = server[jobs[l].e] /\ R!Serves(link'[l].server)
    BY <1>1, <2>1, <2>3 DEF Led
  <2> QED BY <2>1, <2>2, <2>3, <2>4, <2>5, GoesStep
<1> QED BY <1>4, <1>5, <1>6


\* Calls begin, end and fall back; pauses pass; links end.
LEMMA CallStep ==
  ASSUME Sized, LinkInv, NEW o \in Owner, NEW e \in Endpoint,
         R!UseLink(o, e) \/ R!NoUpgrade(o, e) \/ R!PauseEnds(o, e)
  PROVE  LinkInv'
<1> DEFINE Calling == [at : {"idle", "direct", "http"}, e : Endpoint, link : 0..MaxLinks]
<1>1. LinkTypes /\ state[o][e] \in Entry /\ state[o][e].peer \in 0..MaxLinks /\ 0 \in 0..MaxLinks
  BY DEF LinkInv, LinkTypes, Entry, Sized
<1>2. CASE R!UseLink(o, e)
  <2>1. PICK l \in {shared[e], state[o][e].peer} :
          /\ call' = [call EXCEPT ![o] = [at |-> "direct", e |-> e, link |-> l]]
          /\ UNCHANGED <<state, jobs, slots, inflight, shared, link, server, faults>>
    BY <1>2 DEF R!UseLink, R!Over
  <2>2. l \in 0..MaxLinks
    BY <1>1 DEF LinkTypes
  <2>3. call' \in [Owner -> Calling]
    <3>1. [at |-> "direct", e |-> e, link |-> l] \in Calling
      BY <2>2
    <3> HIDE DEF Calling
    <3>2. call \in [Owner -> Calling]
      BY <1>1 DEF LinkTypes, Calling
    <3> QED BY <2>1, <3>1, <3>2
  <2>4. LinkTypes'
    BY <1>1, <2>1, <2>3 DEF LinkTypes
  <2> QED BY <2>1, <2>4, QuietStep
<1>3. CASE R!NoUpgrade(o, e)
  <2>1. /\ call' = [call EXCEPT ![o] = [at |-> "http", e |-> e, link |-> 0]]
        /\ UNCHANGED <<jobs, slots, inflight, shared, server, faults>>
        /\ \/ UNCHANGED <<state, link>>
           \/ link' = R!Shut(state[o][e].peer) /\ state' = [state EXCEPT ![o][e].peer = 0]
    BY <1>3 DEF R!NoUpgrade, R!ByHttp
  <2>2. call' \in [Owner -> Calling]
    <3>1. [at |-> "http", e |-> e, link |-> 0] \in Calling
      BY <1>1
    <3> HIDE DEF Calling
    <3>2. call \in [Owner -> Calling]
      BY <1>1 DEF LinkTypes, Calling
    <3> QED BY <2>1, <3>1, <3>2
  <2>3. CASE UNCHANGED <<state, link>>
    <3>1. LinkTypes'
      BY <1>1, <2>1, <2>2, <2>3 DEF LinkTypes
    <3> QED BY <2>1, <2>3, <3>1, QuietStep
  <2>4. CASE link' = R!Shut(state[o][e].peer) /\ state' = [state EXCEPT ![o][e].peer = 0]
    <3> DEFINE v == [state[o][e] EXCEPT !.peer = 0]
    <3>1. v \in Entry /\ v.peer = 0 /\ v.job = state[o][e].job
      BY <1>1 DEF Entry
    <3>2. state' = [state EXCEPT ![o] = [@ EXCEPT ![e] = v]]
      BY <2>4
    <3> HIDE DEF v
    <3>3. /\ state' \in [Owner -> [Endpoint -> Entry]] /\ state'[o][e] = v
          /\ \A x \in Owner, y \in Endpoint : (x = o /\ y = e) \/ state'[x][y] = state[x][y]
      <4>1. LinkTypes /\ v \in Entry
        BY <1>1, <3>1
      <4> QED BY <3>2, <4>1, Entered
    <3>4. /\ link' \in [R!Link -> [server : Nat, ready : BOOLEAN]]
          /\ \A k \in R!Link : /\ link'[k].server = link[k].server
                               /\ link'[k].ready <=> link[k].ready /\ k # state[o][e].peer
      BY <1>1, <2>4, Shutting
    <3>5. LinkTypes'
      BY <1>1, <2>1, <2>2, <3>3, <3>4 DEF LinkTypes
    <3>6. \A x \in Owner, y \in Endpoint :
            /\ state'[x][y].job = state[x][y].job
            /\ \/ state'[x][y].peer = state[x][y].peer
               \/ state'[x][y].peer = 0 /\ \A l \in R!Link : state[x][y].peer = l => ~link'[l].ready
      BY <3>1, <3>3, <3>4
    <3> QED BY <2>1, <3>4, <3>5, <3>6, QuietStep
  <2> QED BY <2>1, <2>3, <2>4
<1>4. CASE R!PauseEnds(o, e)
  <2> DEFINE v == [state[o][e] EXCEPT !.pause = FALSE]
  <2>1. v \in Entry /\ v.peer = state[o][e].peer /\ v.job = state[o][e].job
    BY <1>1 DEF Entry
  <2>2. state' = [state EXCEPT ![o] = [@ EXCEPT ![e] = v]]
        /\ UNCHANGED <<jobs, slots, inflight, shared, link, server, call, faults>>
    BY <1>4 DEF R!PauseEnds
  <2> HIDE DEF v
  <2>3. /\ state' \in [Owner -> [Endpoint -> Entry]] /\ state'[o][e] = v
        /\ \A x \in Owner, y \in Endpoint : (x = o /\ y = e) \/ state'[x][y] = state[x][y]
    <3>1. LinkTypes /\ v \in Entry
      BY <1>1, <2>1
    <3> QED BY <2>2, <3>1, Entered
  <2>4. LinkTypes'
    BY <1>1, <2>2, <2>3 DEF LinkTypes
  <2> QED BY <2>1, <2>2, <2>3, <2>4, QuietStep
<1> QED BY <1>2, <1>3, <1>4

\* A call that is answered, falls back to HTTP or loses its link keeps the invariant.
LEMMA ReplyStep ==
  ASSUME Sized, LinkInv, NEW o \in Owner, R!Answered(o) \/ R!FallsBack(o) \/ R!Lost(o)
  PROVE  LinkInv'
<1> DEFINE Calling == [at : {"idle", "direct", "http"}, e : Endpoint, link : 0..MaxLinks]
           e == call[o].e
           l == call[o].link
<1>1. LinkTypes /\ e \in Endpoint /\ l \in 0..MaxLinks /\ 0 \in 0..MaxLinks
  BY DEF LinkInv, LinkTypes, Sized
<1>2. CASE R!Answered(o)
  <2>1. R!NoCall \in Calling
    BY <1>1 DEF R!NoCall
  <2>2. call' \in [Owner -> Calling]
    <3> HIDE DEF Calling
    <3>2. call \in [Owner -> Calling]
      BY <1>1 DEF LinkTypes, Calling
    <3> QED BY <1>2, <2>1, <3>2 DEF R!Answered
  <2>3. LinkTypes'
    BY <1>1, <1>2, <2>2 DEF LinkTypes, R!Answered
  <2> QED BY <1>2, <2>3, QuietStep DEF R!Answered
<1>3. CASE R!FallsBack(o)
  <2>1. /\ call' = [call EXCEPT ![o] = [at |-> "http", e |-> e, link |-> 0]]
        /\ ~R!Ready(l) /\ UNCHANGED <<jobs, slots, inflight, shared, link, server, faults>>
        /\ \/ UNCHANGED state
           \/ /\ state[o][e].peer = l
              /\ state' = [state EXCEPT ![o][e].peer = 0, ![o][e].pause = TRUE]
    BY <1>3 DEF R!FallsBack, R!ByHttp
  <2>2. call' \in [Owner -> Calling]
    <3> DEFINE c == [at |-> "http", e |-> e, link |-> 0]
    <3>1. c \in Calling
      BY <1>1
    <3> HIDE DEF Calling, c
    <3>2. call \in [Owner -> Calling]
      BY <1>1 DEF LinkTypes, Calling
    <3> QED BY <2>1, <3>1, <3>2 DEF c
  <2> HIDE DEF e, l
  <2>3. CASE UNCHANGED state
    <3>1. LinkTypes'
      BY <1>1, <2>1, <2>2, <2>3 DEF LinkTypes
    <3> QED BY <2>1, <2>3, <3>1, QuietStep
  <2>4. CASE /\ state[o][e].peer = l
             /\ state' = [state EXCEPT ![o][e].peer = 0, ![o][e].pause = TRUE]
    <3> DEFINE v == [state[o][e] EXCEPT !.peer = 0, !.pause = TRUE]
    <3>1. v \in Entry /\ v.peer = 0 /\ v.job = state[o][e].job
      <4>1. state[o][e] \in Entry
        BY <1>1 DEF LinkTypes
      <4> QED BY <1>1, <4>1 DEF Entry
    <3>2. state' = [state EXCEPT ![o] = [@ EXCEPT ![e] = v]]
      BY <1>1, <2>4 DEF LinkTypes
    <3> HIDE DEF v
    <3>3. /\ state' \in [Owner -> [Endpoint -> Entry]] /\ state'[o][e] = v
          /\ \A x \in Owner, y \in Endpoint : (x = o /\ y = e) \/ state'[x][y] = state[x][y]
      <4>1. LinkTypes /\ e \in Endpoint /\ v \in Entry
        BY <1>1, <3>1
      <4> QED BY <3>2, <4>1, Entered
    <3>4. LinkTypes'
      BY <1>1, <2>1, <2>2, <3>3 DEF LinkTypes
    <3>5. \A k \in R!Link : k = l => ~link[k].ready
      BY <2>1 DEF R!Ready, R!Link
    <3>6. \A x \in Owner, y \in Endpoint :
            /\ state'[x][y].job = state[x][y].job
            /\ \/ state'[x][y].peer = state[x][y].peer
               \/ state'[x][y].peer = 0 /\ \A k \in R!Link : state[x][y].peer = k => ~link'[k].ready
      BY <2>1, <2>4, <3>1, <3>3, <3>5
    <3> QED BY <2>1, <3>4, <3>6, QuietStep
  <2> QED BY <2>1, <2>3, <2>4
<1>4. CASE R!Lost(o)
  <2>1. link' = R!Shut(l) /\ faults' \in Nat
        /\ UNCHANGED <<state, jobs, slots, inflight, shared, server, call>>
    BY <1>1, <1>4 DEF R!Lost, R!Fault, LinkTypes
  <2> HIDE DEF l
  <2>2. /\ link' \in [R!Link -> [server : Nat, ready : BOOLEAN]]
        /\ \A k \in R!Link : link'[k].server = link[k].server /\ (link'[k].ready => link[k].ready)
    BY <1>1, <2>1, Shutting
  <2>3. LinkTypes'
    BY <1>1, <2>1, <2>2 DEF LinkTypes
  <2> QED BY <2>1, <2>2, <2>3, QuietStep
<1> QED BY <1>2, <1>3, <1>4

\* So does a link that ends.
LEMMA EndStep ==
  ASSUME Sized, LinkInv, NEW l \in R!Link, R!LinkEnds(l)
  PROVE  LinkInv'
<1>1. LinkTypes /\ l \in 0..MaxLinks
  BY DEF LinkInv, R!Link, Sized
<1>2. link' = R!Shut(l) /\ faults' \in Nat
      /\ UNCHANGED <<state, jobs, slots, inflight, shared, server, call>>
  BY <1>1 DEF R!LinkEnds, R!Fault, LinkTypes
<1>3. /\ link' \in [R!Link -> [server : Nat, ready : BOOLEAN]]
      /\ \A k \in R!Link : link'[k].server = link[k].server /\ (link'[k].ready => link[k].ready)
  BY <1>1, <1>2, Shutting
<1>4. LinkTypes'
  BY <1>1, <1>2, <1>3 DEF LinkTypes
<1> QED BY <1>2, <1>3, <1>4, QuietStep

-----------------------------------------------------------------------------
\* The invariant holds.

\* At the start there is no link and no negotiation.
LEMMA LinkInvInit == ASSUME Sized, R!Init PROVE LinkInv
<1>1. /\ R!NoState \in Entry /\ R!NoState.job = 0
      /\ R!NoJob \in [at : Phases, owner : Owner, e : Endpoint] /\ R!NoJob.at = "none"
      /\ R!NoCall \in [at : {"idle", "direct", "http"}, e : Endpoint, link : 0..MaxLinks]
      /\ R!NoLink \in [server : Nat, ready : BOOLEAN] /\ ~R!NoLink.ready
  <2>1. (CHOOSE o \in Owner : TRUE) \in Owner /\ (CHOOSE e \in Endpoint : TRUE) \in Endpoint
    BY DEF Sized
  <2>2. 0 \in 0..MaxLinks
    BY DEF Sized
  <2> QED BY <2>1, <2>2 DEF R!NoState, Entry, R!NoJob, Phases, R!NoCall, R!NoLink
<1>2. LinkTypes
  <2>1. 0 \in 0..MaxLinks /\ 0 \in 0..Slots
    BY DEF Sized
  <2> QED BY <1>1, <2>1 DEF R!Init, LinkTypes
<1>3. R!Live = {} /\ \A l : ~(l \in R!Link /\ R!Alive(l))
  BY <1>1 DEF R!Init, R!Live, R!Alive
<1>4. R!SlotsCounted /\ Apart
  BY <1>3, FS_EmptySet, SameCount DEF R!Init, R!SlotsCounted, Apart
<1>5. Owned /\ Led
  BY <1>1, <1>3 DEF R!Init, Owned, Led
<1> QED BY <1>2, <1>4, <1>5 DEF LinkInv

\* Every step keeps the invariant.
LEMMA LinkInvStep == ASSUME Sized, LinkInv, [R!Next]_(R!vars) PROVE LinkInv'
<1>1. CASE UNCHANGED R!vars
  <2>1. LinkTypes'
    BY <1>1 DEF LinkInv, LinkTypes, R!vars
  <2> QED BY <1>1, <2>1, QuietStep DEF R!vars
<1>2. ASSUME NEW o \in Owner, NEW e \in Endpoint, R!Upgrade(o, e)
      PROVE  LinkInv'
  BY <1>2, UpgradeStep
<1>3. ASSUME NEW o \in Owner, NEW e \in Endpoint,
             R!UseLink(o, e) \/ R!NoUpgrade(o, e) \/ R!PauseEnds(o, e)
      PROVE  LinkInv'
  BY <1>3, CallStep
<1>4. ASSUME NEW o \in Owner, R!Calls(o) \/ R!Lost(o)
      PROVE  LinkInv'
  BY <1>4, ReplyStep DEF R!Calls
<1>5. ASSUME NEW o \in Owner, R!Close(o)
      PROVE  LinkInv'
  BY <1>5, CloseStep
<1>6. ASSUME NEW l \in R!Link, R!Negotiate(l) \/ R!LinkEnds(l)
      PROVE  LinkInv'
  BY <1>6, NegotiateStep, KeepStep, FailStep, EndStep DEF R!Negotiate
<1>7. ASSUME NEW e \in Endpoint, R!Stop(e) \/ R!Start(e)
      PROVE  LinkInv'
  BY <1>7, ServerStep
<1> QED BY <1>1, <1>2, <1>3, <1>4, <1>5, <1>6, <1>7 DEF R!Next

\* Fairness put aside.
LEMMA LinkSafety == R!Spec => R!Init /\ [][R!Next]_(R!vars)
  BY PTL DEF R!Spec

\* Every slot taken is a negotiation's, whatever fails, is cancelled or outlives its owner; an
\* endpoint has one negotiation at a time; and none leaves a link behind that no owner would shut.
\* (client.py: the upgrade pool, _rtc_peer, _connect_rtc and RtcPeers.close.)
THEOREM LinksCounted ==
  Sized => (R!Spec => [](R!TypeOK /\ R!SlotsCounted /\ R!OneAtATime /\ R!NothingResurrects))
<1> SUFFICES ASSUME Sized
             PROVE  R!Spec => [](R!TypeOK /\ R!SlotsCounted /\ R!OneAtATime /\ R!NothingResurrects)
  OBVIOUS
<1>1. R!Init => LinkInv
  BY LinkInvInit
<1>2. LinkInv /\ [R!Next]_(R!vars) => LinkInv'
  BY LinkInvStep
<1>3. LinkInv => R!TypeOK /\ R!SlotsCounted /\ R!OneAtATime /\ R!NothingResurrects
  BY DEF LinkInv, LinkTypes, Entry, R!TypeOK, Apart, R!OneAtATime, Owned,
         R!NothingResurrects, R!Ready, R!Alive
<1> QED BY <1>1, <1>2, <1>3, LinkSafety, PTL

\* A call over a link reaches the server that its endpoint's HTTP calls reach, provided that no
\* server is stopped while it prepares its answer.  (server.py: stop; rtc.py: RtcServer._offer.)
THEOREM LinksSound == Sized /\ ~OfferWaits => (R!Spec => []R!RtcSound)
<1> SUFFICES ASSUME Sized, ~OfferWaits PROVE R!Spec => []R!RtcSound
  OBVIOUS
<1>1. R!Init => LinkInv
  BY LinkInvInit
<1>2. LinkInv /\ [R!Next]_(R!vars) => LinkInv'
  BY LinkInvStep
<1>3. LinkInv => R!RtcSound
  BY DEF LinkInv, Apart, R!OneAtATime, Owned,
         R!NothingResurrects, R!Ready, R!Alive, Led, R!SameServer, R!RtcSound
<1> QED BY <1>1, <1>2, <1>3, LinkSafety, PTL

-----------------------------------------------------------------------------
(* The address of a node's own, and the ports it holds open (Direct).      *)

CONSTANTS Net, Cfg, Ip, Dials, MaxIds, MaxSleeps, MaxMoves
VARIABLES
  cfg, around, ip, router, ids, renewing, lost, deleted, pc, tries, denied, candidate, mapping, decision,
  gw, connected, dht, serving, url, tunnel, bad, slept, started, sleeps, moves, dFaults

D == INSTANCE Direct WITH net <- around, held <- mapping, server <- serving, faults <- dFaults

DirectSized == /\ Dials \in Nat \ {0} /\ MaxIds \in Nat
               /\ Cfg \subseteq [manual : BOOLEAN, fallback : BOOLEAN, gateway : BOOLEAN]

Deciding == {"upnp", "pcp", "pmp", "address", "check"}
DirectTypes ==
  /\ D!TypeOK /\ cfg \in Cfg /\ ids \in 0 .. MaxIds /\ tries \in Int
  /\ renewing \in [1 .. MaxIds -> {"off", "on", "ending"}]
  /\ serving \in {"none", "tls", "plain"}
  /\ pc \in {"address", "check"} => candidate.kind \in {"manual", "mapped", "stun"}
  /\ pc = "check" => tries # 0
\* There is a decision or one is being made, and the gateway's word is only kept with the decision it led to.
Decides == /\ pc \in Deciding => decision.kind = "none"
           /\ decision.kind = "none" => gw # "yes"
           /\ slept => pc \in {"idle", "stopped"}
\* Whose thread renews what: the one of the decision, or one that ends.
Renews == /\ mapping # 0 => pc \in {"address", "check"} \/ decision.kind # "none"
          /\ \A i \in 1 .. MaxIds : /\ renewing[i] = "on" => i = mapping
                                    /\ renewing[i] = "ending" => i \in lost \cup deleted
          /\ \A e \in router : e.id # 0
\* What the server is while the node decides, and what it was started for.
Serves ==
  /\ pc \in Deciding \cup {"publish"} => serving = "tls"
  /\ pc = "publish" => D!IsDirect(decision)
  /\ pc \in {"fallback", "tunnel"} => ~D!IsDirect(decision)
  /\ pc = "tunnel" => cfg.fallback /\ serving = "plain"
  /\ serving = "plain" => cfg.fallback
  /\ pc = "idle" /\ serving = "tls" => D!IsDirect(decision)
  /\ pc = "idle" /\ url = "direct" => serving = "tls"
  /\ pc = "idle" /\ url = "tunnel" => serving = "plain"
  /\ url = "direct" => D!IsDirect(decision)
  /\ url = "tunnel" => tunnel # "none" /\ cfg.fallback
DirectInv == DirectTypes /\ Decides /\ Renews /\ Serves /\ D!Believed /\ D!NoStray

USE DEF D!NoAddress, D!IsDirect, D!Fault

\* At the start no address is known and no port is open.
LEMMA DirectInitIs == ASSUME DirectSized, D!Init PROVE DirectInv
  BY DEF DirectSized, D!Init, DirectInv, DirectTypes, D!TypeOK, Decides, Renews, Serves, D!Believed, D!NoStray, Deciding

\* What release leaves: no thread but one that ends, and no port but of a deletion that was lost or confirmed.
LEMMA ReleaseIs ==
  ASSUME DirectSized, DirectInv, D!Release
  PROVE  /\ mapping' = 0 /\ ids' = ids /\ renewing' \in [1 .. MaxIds -> {"off", "on", "ending"}]
         /\ \A i \in 1 .. MaxIds : /\ renewing'[i] # "on"
                                   /\ renewing'[i] = "ending" => i \in lost' \cup deleted'
         /\ D!NoStray' /\ \A e \in router' : e.id # 0
<1>1. CASE mapping = 0
  BY <1>1 DEF DirectSized, DirectInv, DirectTypes, Renews, D!NoStray, D!Release, D!mappings, D!TypeOK
<1>2. CASE mapping # 0
  <2>1. mapping \in 1 .. MaxIds
    BY <1>2 DEF DirectInv, DirectTypes, D!TypeOK, DirectSized
  <2>2. PICK ended \in D!Ended(renewing[mapping]) : renewing' = [renewing EXCEPT ![mapping] = ended]
    BY <1>2 DEF D!Release
  <2>3. ended \in {"off", "ending"}
    BY DEF D!Ended
  <2>4. /\ mapping' = 0 /\ ids' = ids
        /\ lost \subseteq lost' /\ deleted \subseteq deleted' /\ mapping \in lost' \cup deleted'
        /\ router' \subseteq router
    BY <1>2 DEF D!Release
  <2>5. renewing' \in [1 .. MaxIds -> {"off", "on", "ending"}]
    BY <2>1, <2>2, <2>3 DEF DirectInv, DirectTypes
  <2>6. \A i \in 1 .. MaxIds : /\ renewing'[i] # "on"
                               /\ renewing'[i] = "ending" => i \in lost' \cup deleted'
    BY <2>1, <2>2, <2>3, <2>4 DEF DirectInv, DirectTypes, Renews
  <2>7. D!NoStray'
    BY <2>4 DEF DirectInv, D!NoStray
  <2>8. \A e \in router' : e.id # 0
    BY <2>4 DEF DirectInv, Renews
  <2> QED BY <2>4, <2>5, <2>6, <2>7, <2>8
<1> QED BY <1>1, <1>2

\* An action that has nothing to do with the router.
LEMMA RouterIs ==
  ASSUME DirectInv, UNCHANGED D!mappings, UNCHANGED mapping,
         mapping # 0 => pc' \in {"address", "check"} \/ decision'.kind # "none"
  PROVE  Renews' /\ D!NoStray' /\ ids' = ids /\ renewing' = renewing
  BY DEF DirectInv, Renews, D!NoStray, D!mappings

\* What an action owes beside the router's part: the types, the decision, the server and what is believed.
Owes == DirectTypes' /\ Decides' /\ Serves' /\ D!Believed'
USE DEF D!decide, D!mappings, D!bounds, D!served

\* The server that comes up owes nobody an address yet.
LEMMA ServeKeeps == ASSUME DirectSized, DirectInv, D!Serve PROVE DirectInv'
<1>1. Owes
  BY DEF DirectSized, DirectInv, DirectTypes, D!TypeOK, Decides, Serves, Renews, D!Believed, Deciding, Owes, D!Serve
<1>2. Renews' /\ D!NoStray'
  BY RouterIs DEF DirectInv, Renews, Decides, Deciding, D!Serve
<1> QED BY <1>1, <1>2 DEF DirectInv, Owes

\* What is published was decided.
LEMMA PublishKeeps == ASSUME DirectSized, DirectInv, D!Publish PROVE DirectInv'
<1>1. Owes
  BY DEF DirectSized, DirectInv, DirectTypes, D!TypeOK, Decides, Serves, Renews, D!Believed, Deciding, Owes, D!Publish
<1>2. Renews' /\ D!NoStray'
  BY RouterIs DEF DirectInv, Renews, Decides, Deciding, D!Publish
<1> QED BY <1>1, <1>2 DEF DirectInv, Owes

\* Falling back serves through a tunnel, or gives up.
LEMMA FallbackKeeps == ASSUME DirectSized, DirectInv, D!Fallback PROVE DirectInv'
<1>1. Owes
  BY DEF DirectSized, DirectInv, DirectTypes, D!TypeOK, Decides, Serves, Renews, D!Believed, Deciding, Owes, D!Fallback, D!Raise
<1>2. Renews' /\ D!NoStray'
  BY RouterIs DEF DirectInv, Renews, Decides, Deciding, D!Fallback, D!Raise
<1> QED BY <1>1, <1>2 DEF DirectInv, Owes

\* A tunnel that opens, or does not, disturbs no decision.
LEMMA TunnelKeeps == ASSUME DirectSized, DirectInv, D!OpenTunnel PROVE DirectInv'
<1>1. Owes
  BY DEF DirectSized, DirectInv, DirectTypes, D!TypeOK, Decides, Serves, Renews, D!Believed, Deciding, Owes, D!OpenTunnel, D!Raise
<1>2. Renews' /\ D!NoStray'
  BY RouterIs DEF DirectInv, Renews, Decides, Deciding, D!OpenTunnel, D!Raise
<1> QED BY <1>1, <1>2 DEF DirectInv, Owes

\* Nor does looking whether it answers.
LEMMA CheckKeeps == ASSUME DirectSized, DirectInv, D!CheckTunnel PROVE DirectInv'
<1>1. Owes
  BY DEF DirectSized, DirectInv, DirectTypes, D!TypeOK, Decides, Serves, Renews, D!Believed, Deciding, Owes, D!CheckTunnel, D!Answers
<1>2. Renews' /\ D!NoStray'
  BY RouterIs DEF DirectInv, Renews, Decides, Deciding, D!CheckTunnel, D!Answers
<1> QED BY <1>1, <1>2 DEF DirectInv, Owes

\* A move to another window keeps the address and the port.
LEMMA MoveKeeps == ASSUME DirectSized, DirectInv, D!Move PROVE DirectInv'
<1>1. Owes
  BY DEF DirectSized, DirectInv, DirectTypes, D!TypeOK, Decides, Serves, Renews, D!Believed, Deciding, Owes, D!Move
<1>2. Renews' /\ D!NoStray'
  BY RouterIs DEF DirectInv, Renews, Decides, Deciding, D!Move
<1> QED BY <1>1, <1>2 DEF DirectInv, Owes

\* Another network makes no decision, and unmakes none.
LEMMA NetKeeps == ASSUME DirectSized, DirectInv, D!NetUp \/ D!Changes PROVE DirectInv'
<1>1. Owes
  BY DEF DirectSized, DirectInv, DirectTypes, D!TypeOK, Decides, Serves, Renews, D!Believed, Deciding, Owes, D!NetUp, D!Changes
<1>2. Renews' /\ D!NoStray'
  BY RouterIs DEF DirectInv, Renews, Decides, Deciding, D!NetUp, D!Changes
<1> QED BY <1>1, <1>2 DEF DirectInv, Owes


\* Of what is asked for, the router's answer is held or lost.
LEMMA AskKeeps ==
  ASSUME DirectSized, DirectInv, pc \in {"upnp", "pcp", "pmp"},
         NEW leases, NEW next \in {"pcp", "pmp", "address"}, D!Ask(leases, next)
  PROVE  DirectInv'
<1>1. Owes
  BY DEF DirectSized, DirectInv, DirectTypes, D!TypeOK, Decides, Serves, Renews, D!Believed, Deciding, Owes,
         D!Ask, D!Grant
<1>2. mapping = 0
  BY DEF DirectInv, Decides, Renews, Deciding
<1>3. CASE mapping' = ids + 1
  <2>1. ids \in Nat /\ ids + 1 # 0
    BY DEF DirectInv, DirectTypes, DirectSized
  <2>2. /\ pc' = "address" /\ lost' = lost /\ deleted' = deleted
        /\ \E lease \in leases : /\ D!Grant(lease)
                                 /\ renewing' = [renewing EXCEPT ![ids + 1] = IF lease = "timed" THEN "on" ELSE "off"]
    BY <1>2, <1>3, <2>1 DEF D!Ask
  <2>3. PICK lease \in leases : /\ D!Grant(lease)
                                /\ renewing' = [renewing EXCEPT ![ids + 1] = IF lease = "timed" THEN "on" ELSE "off"]
    BY <2>2
  <2>4. ids < MaxIds /\ ids + 1 \in 1 .. MaxIds /\ router' = router \cup {[id |-> ids + 1, lease |-> lease]}
    BY <2>1, <2>3 DEF D!Grant, DirectSized
  <2>5. Renews'
    BY <1>2, <1>3, <2>2, <2>3, <2>4 DEF DirectInv, DirectTypes, Renews
  <2>6. D!NoStray'
    <3> SUFFICES ASSUME NEW e \in router' PROVE e.id \in {mapping'} \cup lost' \cup deleted'
      BY DEF D!NoStray
    <3>1. CASE e \in router
      BY <1>2, <2>2, <3>1 DEF DirectInv, Renews, D!NoStray
    <3>2. CASE e = [id |-> ids + 1, lease |-> lease]
      BY <1>3, <3>2
    <3> QED BY <2>4, <3>1, <3>2
  <2> QED BY <1>1, <2>5, <2>6 DEF DirectInv, Owes
<1>4. CASE mapping' # ids + 1
  <2>1. mapping' = mapping /\ renewing' = renewing /\ deleted' = deleted
        /\ \/ router' = router /\ lost' = lost
           \/ router' = router \cup {[id |-> ids + 1, lease |-> "timed"]} /\ lost' = lost \cup {ids + 1}
    BY <1>4 DEF D!Ask, D!Grant
  <2>2. Renews'
    BY <1>2, <2>1 DEF DirectInv, DirectTypes, DirectSized, Renews
  <2>3. D!NoStray'
    BY <2>1 DEF DirectInv, D!NoStray
  <2> QED BY <1>1, <2>2, <2>3 DEF DirectInv, Owes
<1> QED BY <1>3, <1>4

\* What is unreachable has given its port back.
LEMMA UnreachableIs ==
  ASSUME DirectSized, DirectInv, pc \in {"address", "check"}, D!Unreachable,
         cfg' = cfg, tries' \in 0 .. Dials, D!TypeOK => gw' \in {"unasked", "none", "other", "no"}, UNCHANGED D!served,
         slept' = slept
  PROVE  DirectInv'
<1>1. /\ mapping' = 0 /\ ids' = ids /\ renewing' \in [1 .. MaxIds -> {"off", "on", "ending"}]
      /\ \A i \in 1 .. MaxIds : /\ renewing'[i] # "on"
                                /\ renewing'[i] = "ending" => i \in lost' \cup deleted'
      /\ D!NoStray' /\ \A e \in router' : e.id # 0
  BY ReleaseIs DEF D!Unreachable
<1>2. Owes
  BY <1>1 DEF DirectSized, DirectInv, DirectTypes, D!TypeOK, Decides, Serves, D!Believed, Deciding, Owes, D!Unreachable
<1> QED BY <1>1, <1>2 DEF DirectInv, Owes, Renews

\* The address asked for is a candidate, or the node is unreachable.
LEMMA AddressKeeps == ASSUME DirectSized, DirectInv, D!Address PROVE DirectInv'
<1>1. CASE D!Unreachable /\ UNCHANGED <<tries, denied>>
  BY <1>1, UnreachableIs DEF D!Address, DirectInv, DirectTypes, D!TypeOK, Decides, Deciding
<1>2. CASE ~(D!Unreachable /\ UNCHANGED <<tries, denied>>)
  <2>1. \E a : /\ candidate' = [candidate EXCEPT !.ip = a] /\ pc' = "check" /\ tries' = Dials
               /\ UNCHANGED <<decision, mapping, D!mappings, dFaults>>
    BY <1>2 DEF D!Address
  <2>2. candidate'.kind \in {"manual", "mapped", "stun"}
    BY <2>1 DEF D!Address, DirectInv, DirectTypes
  <2>3. Owes
    BY <2>1, <2>2 DEF DirectSized, DirectInv, DirectTypes, D!TypeOK, Decides, Serves, D!Believed, Deciding, Owes, D!Address
  <2>4. Renews' /\ D!NoStray'
    BY <2>1, RouterIs
  <2> QED BY <2>3, <2>4 DEF DirectInv, Owes
<1> QED BY <1>1, <1>2

\* A candidate is believed when somebody outside reached it.
LEMMA DialKeeps == ASSUME DirectSized, DirectInv, D!Dial PROVE DirectInv'
<1> PICK g \in D!GatewaySays, h \in D!HelperSays :
      LET no == denied \/ D!Answer(g, h) = "no"
      IN /\ gw' = g
         /\ connected' = IF (gw = "unasked" /\ g = "yes") \/ h = "yes" THEN connected \cup {candidate.ip}
                         ELSE connected
         /\ \/ /\ D!Answer(g, h) # "yes" /\ tries > 1 /\ tries' = tries - 1 /\ denied' = no
               /\ UNCHANGED <<pc, decision, candidate, mapping, D!mappings, dFaults>>
            \/ /\ D!Answer(g, h) = "yes" \/ tries = 1
               /\ tries' = 0 /\ denied' = FALSE
               /\ \/ D!Answer(g, h) = "yes" /\ D!Published(candidate.kind)
                  \/ D!Answer(g, h) # "yes" /\ candidate.kind = "manual" /\ ~no /\ D!Published("manual")
                  \/ D!Answer(g, h) # "yes" /\ (candidate.kind # "manual" \/ no) /\ D!Unreachable
  BY DEF D!Dial
<1>1. /\ pc = "check" /\ decision.kind = "none" /\ gw # "yes" /\ ~slept /\ serving = "tls"
      /\ candidate.kind \in {"manual", "mapped", "stun"} /\ tries \in 0 .. Dials /\ Dials \in Nat
      /\ UNCHANGED <<cfg, around, ip, D!served, D!bounds>>
  BY DEF D!Dial, DirectInv, DirectTypes, D!TypeOK, Decides, Serves, Deciding, DirectSized
<1>2. g \in {"none", "other", "yes", "no"} /\ (D!Answer(g, h) = "yes" <=> g = "yes" \/ h = "yes")
  BY <1>1 DEF D!GatewaySays, D!Answer, DirectInv, DirectTypes, D!TypeOK
<1>3. g = "yes" => gw = "unasked"
  BY <1>1 DEF D!GatewaySays
<1>4. CASE D!Answer(g, h) # "yes" /\ tries > 1 /\ pc' = pc /\ tries' = tries - 1
           /\ UNCHANGED <<decision, candidate, mapping, D!mappings, dFaults>>
  <2>1. Owes
    BY <1>1, <1>2, <1>4 DEF DirectInv, DirectTypes, D!TypeOK, Decides, Serves, D!Believed, Deciding, Owes
  <2>2. Renews' /\ D!NoStray'
    BY <1>1, <1>4, RouterIs
  <2> QED BY <2>1, <2>2 DEF DirectInv, Owes
<1>5. ASSUME NEW kind, D!Published(kind), D!Answer(g, h) = "yes" \/ kind = "manual",
             kind \in {"manual", "mapped", "stun"}, tries' = 0
      PROVE  DirectInv'
  <2>1. Owes
    BY <1>1, <1>2, <1>3, <1>5 DEF DirectInv, DirectTypes, D!TypeOK, Decides, Serves, D!Believed, Deciding, Owes, D!Published
  <2>2. Renews' /\ D!NoStray'
    BY <1>1, <1>5, RouterIs DEF D!Published
  <2> QED BY <2>1, <2>2 DEF DirectInv, Owes
<1>6. CASE D!Answer(g, h) # "yes" /\ D!Unreachable /\ tries' = 0
  BY <1>1, <1>2, <1>6, UnreachableIs
<1> QED BY <1>1, <1>4, <1>5, <1>6

\* A sleep leaves what was decided to be forgotten on waking.
LEMMA SleepKeeps == ASSUME DirectSized, DirectInv, D!Sleep PROVE DirectInv'
<1>1. Owes
  BY DEF DirectSized, DirectInv, DirectTypes, D!TypeOK, Decides, Serves, D!Believed, Deciding, Owes, D!Sleep
<1>2. Renews' /\ D!NoStray'
  BY DEF DirectInv, Decides, Renews, D!NoStray, D!Sleep
<1> QED BY <1>1, <1>2 DEF DirectInv, Owes

\* Reopening and stopping release the port.
LEMMA LetGoKeeps == ASSUME DirectSized, DirectInv, D!Reopen \/ D!Stop PROVE DirectInv'
<1>1. /\ mapping' = 0 /\ ids' = ids /\ renewing' \in [1 .. MaxIds -> {"off", "on", "ending"}]
      /\ \A i \in 1 .. MaxIds : /\ renewing'[i] # "on"
                                /\ renewing'[i] = "ending" => i \in lost' \cup deleted'
      /\ D!NoStray' /\ \A e \in router' : e.id # 0
  BY ReleaseIs DEF D!Reopen, D!Stop
<1>2. Owes
  BY <1>1 DEF DirectSized, DirectInv, DirectTypes, D!TypeOK, Decides, Serves, D!Believed, Deciding, Owes,
              D!Reopen, D!Stop, D!Bound
<1> QED BY <1>1, <1>2 DEF DirectInv, Owes, Renews

\* The router, and the threads that renew what it has granted.
LEMMA RouterKeeps ==
  ASSUME DirectSized, DirectInv, (\E i \in 1 .. MaxIds : D!Renew(i)) \/ (\E e \in router : D!Lapse(e))
  PROVE  DirectInv'
<1>1. UNCHANGED <<cfg, around, ip, ids, lost, deleted, pc, D!decide, D!served, D!bounds>>
  BY DEF D!Renew, D!Lapse
<1>2. CASE \E i \in 1 .. MaxIds : D!Renew(i)
  <2> PICK i \in 1 .. MaxIds : D!Renew(i)
    BY <1>2
  <2>1. i \in {mapping} \cup lost \cup deleted
    BY DEF D!Renew, DirectInv, Renews
  <2>2. router' \subseteq router \cup {[id |-> i, lease |-> "timed"]}
    BY DEF D!Renew
  <2>3. \A e \in router' : e \in router \/ e.id = i
    BY <2>2
  <2>4. D!NoStray' /\ \A e \in router' : e.id # 0
    BY <1>1, <2>1, <2>3 DEF DirectInv, Renews, D!NoStray
  <2>5. renewing' = renewing \/ renewing' = [renewing EXCEPT ![i] = "off"]
    BY DEF D!Renew
  <2>6. /\ renewing' \in [1 .. MaxIds -> {"off", "on", "ending"}]
        /\ \A j \in 1 .. MaxIds : renewing'[j] \in {renewing[j], "off"}
    BY <2>5 DEF DirectInv, DirectTypes
  <2>7. Renews'
    BY <1>1, <2>4, <2>6 DEF DirectInv, Renews
  <2>8. Owes
    BY <1>1, <2>6 DEF DirectInv, DirectTypes, D!TypeOK, Decides, Serves, D!Believed, Deciding, Owes
  <2> QED BY <2>4, <2>7, <2>8 DEF DirectInv, Owes
<1>3. CASE \E e \in router : D!Lapse(e)
  <2>1. router' \subseteq router /\ renewing' = renewing
    BY <1>3 DEF D!Lapse
  <2>2. D!NoStray' /\ Renews'
    BY <1>1, <2>1 DEF DirectInv, Renews, D!NoStray
  <2>3. Owes
    BY <1>1, <2>1 DEF DirectInv, DirectTypes, D!TypeOK, Decides, Serves, D!Believed, Deciding, Owes
  <2> QED BY <2>2, <2>3 DEF DirectInv, Owes
<1> QED BY <1>2, <1>3

\* Every step keeps the invariant.
LEMMA DirectStep == ASSUME DirectSized, DirectInv, [D!Next]_(D!vars) PROVE DirectInv'
<1>1. CASE UNCHANGED D!vars
  <2>1. Owes
    BY <1>1 DEF D!vars, DirectInv, DirectTypes, D!TypeOK, Decides, Serves, D!Believed, Deciding, Owes
  <2>2. Renews' /\ D!NoStray'
    BY <1>1 DEF D!vars, DirectInv, Renews, D!NoStray
  <2> QED BY <2>1, <2>2 DEF DirectInv, Owes
<1>2. CASE D!Upnp \/ D!Pcp \/ D!Pmp
  BY <1>2, AskKeeps DEF D!Upnp, D!Pcp, D!Pmp
<1>3. CASE D!Next
  BY <1>2, <1>3, ServeKeeps, AddressKeeps, DialKeeps, PublishKeeps, FallbackKeeps, TunnelKeeps, CheckKeeps,
     LetGoKeeps, MoveKeeps, SleepKeeps, NetKeeps, RouterKeeps DEF D!Next, D!Steps
<1> QED BY <1>1, <1>3

\* And it says what the run checks.
LEMMA DirectIsSound == ASSUME DirectInv PROVE D!TypeOK /\ D!DirectSound
  BY DEF DirectInv, DirectTypes, Serves, D!DirectSound, D!Served

\* An address the node found by itself is believed only after somebody outside has connected to it from
\* where the machine is now; a port left open in the router is the decision's, or of an answer or a
\* deletion that was under way; and what is published is served, however often the machine sleeps, the network
\* changes, the router restarts and the node moves (direct.py, net/nat.py, node.py's _after_resume).
THEOREM AddressSound == ASSUME DirectSized PROVE D!Spec => [](D!TypeOK /\ D!DirectSound)
<1>1. D!Init => DirectInv
  BY DirectInitIs
<1>2. DirectInv /\ [D!Next]_(D!vars) => DirectInv'
  BY DirectStep
<1>3. DirectInv => D!TypeOK /\ D!DirectSound
  BY DirectIsSound
<1> QED BY <1>1, <1>2, <1>3, PTL DEF D!Spec

-----------------------------------------------------------------------------
(* A peer as a process of its machine (PeerService).                       *)

CONSTANTS Options, MaxCommands
VARIABLES proc, service, asked, status, tick, source, staging, venv, disturbed, leave, pids, commands, sFaults

S == INSTANCE PeerService WITH faults <- sFaults

ServiceSized == Options \subseteq S!Asks

Steps == S!SetUp \cup S!Running \cup {"off"}
Leaves == {"idle", "read", "wait", "remove", "done"}
ServiceTypes ==
  /\ proc \in [S!Process -> [pc : Steps, ask : S!Asks \cup {S!NoService}, pid : Nat, code : 0 .. 3]]
  /\ pids \in Nat /\ \A p \in S!Process : proc[p].pid <= pids
  /\ status \in [state : {"absent", "starting", "up", "stopped", "error"}, pid : Nat] /\ status.pid <= pids
  /\ tick \in [S!Process -> {"none", "up"}]
  /\ source \in 0 .. 3 /\ staging \in 0 .. 3 /\ disturbed \subseteq S!Process
  /\ leave \in [pc : Leaves, pid : Nat]
  /\ service \in S!Asks \cup {S!NoService} /\ asked \in S!Asks \cup {S!NoService}
\* Who has been through the set-up finds the code whole, and who unpacks it moves it in whole, if no other wrote
\* the code meanwhile: one that begins to is setting up as well.
CodeInv ==
  /\ \A p \in S!Process \ disturbed :
       /\ proc[p].pc \in {"runtime", "venv", "pip", "import"} => source = 2
       /\ proc[p].pc = "node" /\ proc[p].pid = 0 => source = 2
       /\ proc[p].pc \in {"swap", "clear", "replace"} => staging = 2
  /\ \A p \in S!Process :
       /\ proc[p].pc \notin S!Running => proc[p].pid = 0
       /\ proc[p].pc = "up" => proc[p].pid # 0
  /\ S!WholeCode
\* No two processes have one id, and the last status of one that has ended names none.
PidInv == /\ \A p, q \in S!Process : proc[p].pid # 0 /\ proc[p].pid = proc[q].pid => p = q
          /\ S!LastStatus
\* What the service runs is what it was installed with, until it is told to end.
AskedInv == /\ service # S!NoService => asked \in S!Asks /\ service = S!ServiceArgv(asked)
            /\ proc["service"].pc \notin {"off", "leaving"} =>
                 asked \in S!Asks /\ proc["service"].ask = S!ServiceArgv(asked)
            /\ S!LeftForGood
ServiceInv == ServiceTypes /\ CodeInv /\ PidInv /\ AskedInv

\* The service's command line asks for what it was installed with, but for an API that is switched off.
LEMMA ArgvIs ==
  ASSUME NEW ask \in S!Asks
  PROVE  S!ServiceArgv(ask) \in S!Asks /\ (ask.api # "off" => S!Runs(S!ServiceArgv(ask)) = S!Runs(ask))
<1>1. ask.network \in {"plain", "named", "preset"} /\ ask.api \in {"unset", "off", "port"}
      /\ ask.direct \in {"unset", "no", "forced"}
  BY DEF S!Asks
<1>2. S!ServiceArgv(ask) = [network |-> ask.network, api |-> IF ask.api = "off" THEN "unset" ELSE "port",
                            direct |-> ask.direct]
  BY DEF S!Asks, S!ServiceArgv
<1> QED BY <1>1, <1>2 DEF S!Asks, S!Runs, S!Direct

\* The invariant holds at the start.
LEMMA ServiceInitIs == S!Init => ServiceInv
  BY DEF S!Init, S!Off, S!NoService, S!Process, S!Running, S!SetUp, ServiceInv, ServiceTypes, CodeInv, PidInv, AskedInv,
     S!WholeCode, S!LastStatus, S!LeftForGood, Steps, Leaves

USE DEF S!Process, S!Running, S!SetUp, S!Off, S!Goes, S!Ends, S!Fault, S!disk, S!budget, S!rest, S!Command, S!Forgotten,
        S!SettingUp, S!WritesCode

\* A join in the terminal begins by looking at the code.
LEMMA JoinStep ==
  ASSUME ServiceSized, ServiceInv, S!Join
  PROVE  ServiceInv'
<1> DEFINE q == [S!Off EXCEPT !.pc = "check"]
<1>0. proc' = [proc EXCEPT !["terminal"] = q] /\ proc["terminal"].pc = "off" /\ leave' = [pc |-> "idle", pid |-> 0]
      /\ UNCHANGED <<service, asked, status, tick, S!disk, pids, sFaults>>
  BY DEF S!Join
<1>a. /\ q \in [pc : Steps, ask : S!Asks \cup {S!NoService}, pid : Nat, code : 0 .. 3]
      /\ q.pc = "check" /\ q.pid = 0 /\ q.code = 0
  <2>1. /\ S!Off \in [pc : Steps, ask : S!Asks \cup {S!NoService}, pid : Nat, code : 0 .. 3]
        /\ S!Off.pid = 0 /\ S!Off.code = 0
    BY DEF Steps
  <2> HIDE DEF S!Off
  <2> QED BY <2>1 DEF Steps
<1> HIDE DEF q
<1>1. ServiceTypes'
  BY <1>0, <1>a DEF ServiceSized, ServiceInv, ServiceTypes, CodeInv, Steps, Leaves, S!Process
<1>2. CodeInv'
  BY <1>0, <1>a DEF ServiceSized, ServiceInv, ServiceTypes, CodeInv, S!WholeCode, S!Process
<1>3. PidInv'
  BY <1>0, <1>a DEF ServiceInv, ServiceTypes, PidInv, S!LastStatus, S!Process
<1>4. AskedInv'
  BY <1>0, <1>a DEF ServiceInv, ServiceTypes, AskedInv, S!LeftForGood, S!Process
<1> QED BY <1>1, <1>2, <1>3, <1>4 DEF ServiceInv

\* Whole code that is found is used as it is.
LEMMA PreflightStep ==
  ASSUME ServiceSized, ServiceInv, NEW p \in S!Process, S!Preflight(p) \/ S!Reuse(p)
  PROVE  ServiceInv'
<1>1. ServiceTypes'
  BY DEF ServiceSized, ServiceInv, ServiceTypes, CodeInv, Steps, Leaves, S!Preflight, S!Reuse
<1>2. CodeInv'
  BY DEF ServiceSized, ServiceInv, ServiceTypes, CodeInv, S!WholeCode, S!Preflight, S!Reuse
<1>3. PidInv'
  BY DEF ServiceInv, ServiceTypes, PidInv, S!LastStatus, S!Preflight, S!Reuse
<1>4. AskedInv'
  BY DEF ServiceInv, ServiceTypes, AskedInv, S!LeftForGood, S!Preflight, S!Reuse
<1> QED BY <1>1, <1>2, <1>3, <1>4 DEF ServiceInv

\* Code is unpacked beside what is there.
LEMMA UnpackStep ==
  ASSUME ServiceSized, ServiceInv, NEW p \in S!Process, S!Fetch(p) \/ S!Unpack(p)
  PROVE  ServiceInv'
<1>1. ServiceTypes'
  BY DEF ServiceSized, ServiceInv, ServiceTypes, CodeInv, Steps, Leaves, S!Fetch, S!Unpack
<1>2. CodeInv'
  BY DEF ServiceSized, ServiceInv, ServiceTypes, CodeInv, S!WholeCode, S!Fetch, S!Unpack
<1>3. PidInv'
  BY DEF ServiceInv, ServiceTypes, PidInv, S!LastStatus, S!Fetch, S!Unpack
<1>4. AskedInv'
  BY DEF ServiceInv, ServiceTypes, AskedInv, S!LeftForGood, S!Fetch, S!Unpack
<1> QED BY <1>1, <1>2, <1>3, <1>4 DEF ServiceInv

\* It takes the place of what is there.
LEMMA SwapStep ==
  ASSUME ServiceSized, ServiceInv, NEW p \in S!Process, S!Swap(p) \/ S!Clear(p) \/ S!Replace(p)
  PROVE  ServiceInv'
<1>1. ServiceTypes'
  BY DEF ServiceSized, ServiceInv, ServiceTypes, CodeInv, Steps, Leaves, S!Swap, S!Clear, S!Replace
<1>2. CodeInv'
  BY DEF ServiceSized, ServiceInv, ServiceTypes, CodeInv, S!WholeCode, S!Swap, S!Clear, S!Replace
<1>3. PidInv'
  BY DEF ServiceInv, ServiceTypes, PidInv, S!LastStatus, S!Swap, S!Clear, S!Replace
<1>4. AskedInv'
  BY DEF ServiceInv, ServiceTypes, AskedInv, S!LeftForGood, S!Swap, S!Clear, S!Replace
<1> QED BY <1>1, <1>2, <1>3, <1>4 DEF ServiceInv

\* The runtime and the environment are set up over it.
LEMMA RuntimeStep ==
  ASSUME ServiceSized, ServiceInv, NEW p \in S!Process, S!Runtime(p) \/ S!MakeVenv(p) \/ S!Pip(p) \/ S!Import(p)
  PROVE  ServiceInv'
<1>1. ServiceTypes'
  BY DEF ServiceSized, ServiceInv, ServiceTypes, CodeInv, Steps, Leaves, S!Runtime, S!MakeVenv, S!Pip, S!Import
<1>2. CodeInv'
  BY DEF ServiceSized, ServiceInv, ServiceTypes, CodeInv, S!WholeCode, S!Runtime, S!MakeVenv, S!Pip, S!Import
<1>3. PidInv'
  BY DEF ServiceInv, ServiceTypes, PidInv, S!LastStatus, S!Runtime, S!MakeVenv, S!Pip, S!Import
<1>4. AskedInv'
  BY DEF ServiceInv, ServiceTypes, AskedInv, S!LeftForGood, S!Runtime, S!MakeVenv, S!Pip, S!Import
<1> QED BY <1>1, <1>2, <1>3, <1>4 DEF ServiceInv

\* A set-up that fails, or a node that finds no code, starts nothing.
LEMMA SetUpFailsStep ==
  ASSUME ServiceSized, ServiceInv, NEW p \in S!Process, S!SetUpFails(p) \/ S!CannotStart(p)
  PROVE  ServiceInv'
<1>1. ServiceTypes'
  <2>1. CASE S!SetUpFails(p)
    <3>1. /\ proc' = [proc EXCEPT ![p] = S!Off] /\ UNCHANGED <<service, asked, status, tick, leave, pids>>
          /\ source' = source /\ staging' \in {staging, 0} /\ disturbed' \subseteq S!Process
      BY <2>1 DEF ServiceInv, ServiceTypes, S!SetUpFails
    <3>2. S!Off \in [pc : Steps, ask : S!Asks \cup {S!NoService}, pid : Nat, code : 0 .. 3] /\ S!Off.pid = 0
      BY DEF Steps
    <3> HIDE DEF S!Off
    <3> QED BY <3>1, <3>2 DEF ServiceInv, ServiceTypes
  <2>2. CASE S!CannotStart(p)
    BY <2>2 DEF ServiceSized, ServiceInv, ServiceTypes, CodeInv, Steps, Leaves, S!CannotStart
  <2> QED BY <2>1, <2>2
<1>2. CodeInv'
  BY DEF ServiceSized, ServiceInv, ServiceTypes, CodeInv, S!WholeCode, S!SetUpFails, S!CannotStart
<1>3. PidInv'
  BY DEF ServiceInv, ServiceTypes, PidInv, S!LastStatus, S!SetUpFails, S!CannotStart
<1>4. AskedInv'
  BY DEF ServiceInv, ServiceTypes, AskedInv, S!LeftForGood, S!SetUpFails, S!CannotStart
<1> QED BY <1>1, <1>2, <1>3, <1>4 DEF ServiceInv

\* A process that starts is given an id nobody had.
LEMMA StartStep ==
  ASSUME ServiceSized, ServiceInv, NEW p \in S!Process, S!Start(p)
  PROVE  ServiceInv'
<1>1. ServiceTypes'
  BY DEF ServiceSized, ServiceInv, ServiceTypes, CodeInv, Steps, Leaves, S!Start
<1>2. CodeInv'
  BY DEF ServiceSized, ServiceInv, ServiceTypes, CodeInv, S!WholeCode, S!Start
<1>3. PidInv'
  BY DEF ServiceInv, ServiceTypes, PidInv, S!LastStatus, S!Start
<1>4. AskedInv'
  BY DEF ServiceInv, ServiceTypes, AskedInv, S!LeftForGood, S!Start
<1> QED BY <1>1, <1>2, <1>3, <1>4 DEF ServiceInv

\* A node that is up writes its own status.
LEMMA UpStep ==
  ASSUME ServiceSized, ServiceInv, NEW p \in S!Process, S!NodeUp(p) \/ S!TickReads(p) \/ S!TickWrites(p)
  PROVE  ServiceInv'
<1>1. ServiceTypes'
  BY DEF ServiceSized, ServiceInv, ServiceTypes, CodeInv, Steps, Leaves, S!NodeUp, S!TickReads, S!TickWrites
<1>2. CodeInv'
  BY DEF ServiceSized, ServiceInv, ServiceTypes, CodeInv, S!WholeCode, S!NodeUp, S!TickReads, S!TickWrites
<1>3. PidInv'
  BY DEF ServiceInv, ServiceTypes, PidInv, S!LastStatus, S!NodeUp, S!TickReads, S!TickWrites
<1>4. AskedInv'
  BY DEF ServiceInv, ServiceTypes, AskedInv, S!LeftForGood, S!NodeUp, S!TickReads, S!TickWrites
<1> QED BY <1>1, <1>2, <1>3, <1>4 DEF ServiceInv

\* One that ends writes its last status, or is killed before.
LEMMA ProcessEndStep ==
  ASSUME ServiceSized, ServiceInv, NEW p \in S!Process, S!Leaves(p) \/ S!NodeFails(p) \/ S!Crash(p)
  PROVE  ServiceInv'
<1>1. ServiceTypes'
  <2>1. CASE S!Leaves(p)
    BY <2>1 DEF ServiceSized, ServiceInv, ServiceTypes, CodeInv, Steps, Leaves, S!Leaves
  <2>2. CASE S!NodeFails(p)
    BY <2>2 DEF ServiceSized, ServiceInv, ServiceTypes, CodeInv, Steps, Leaves, S!NodeFails
  <2>3. CASE S!Crash(p)
    BY <2>3 DEF ServiceSized, ServiceInv, ServiceTypes, CodeInv, Steps, Leaves, S!Crash
  <2> QED BY <2>1, <2>2, <2>3
<1>2. CodeInv'
  BY DEF ServiceSized, ServiceInv, ServiceTypes, CodeInv, S!WholeCode, S!Leaves, S!NodeFails, S!Crash
<1>3. PidInv'
  BY DEF ServiceInv, ServiceTypes, PidInv, S!LastStatus, S!Leaves, S!NodeFails, S!Crash
<1>4. AskedInv'
  BY DEF ServiceInv, ServiceTypes, AskedInv, S!LeftForGood, S!Leaves, S!NodeFails, S!Crash
<1> QED BY <1>1, <1>2, <1>3, <1>4 DEF ServiceInv

\* Installing sets the command line asked for.
LEMMA InstallStep ==
  ASSUME ServiceSized, ServiceInv, S!Install
  PROVE  ServiceInv'
<1> PICK ask \in Options : service' = S!ServiceArgv(ask) /\ asked' = ask
  BY DEF S!Install
<1>0. /\ ask \in S!Asks /\ service' \in S!Asks /\ service' = S!ServiceArgv(asked')
      /\ proc' = [proc EXCEPT !["service"] = S!Stopped(@)] /\ leave' = [pc |-> "idle", pid |-> 0]
      /\ commands' = commands + 1 /\ UNCHANGED <<status, tick, S!disk, pids, sFaults>>
  BY ArgvIs DEF ServiceSized, S!Install
<1>1. ServiceTypes'
  BY <1>0 DEF ServiceSized, ServiceInv, ServiceTypes, CodeInv, Steps, Leaves, S!Stopped
<1>2. CodeInv'
  BY <1>0 DEF ServiceSized, ServiceInv, ServiceTypes, CodeInv, S!WholeCode, S!Stopped
<1>3. PidInv'
  BY <1>0 DEF ServiceInv, ServiceTypes, PidInv, S!LastStatus, S!Stopped
<1>4. AskedInv'
  BY <1>0 DEF ServiceInv, ServiceTypes, AskedInv, S!LeftForGood, S!Stopped
<1> QED BY <1>1, <1>2, <1>3, <1>4 DEF ServiceInv

\* The service manager starts what is installed.
LEMMA ServiceStartsStep ==
  ASSUME ServiceSized, ServiceInv, S!ServiceStarts
  PROVE  ServiceInv'
<1> DEFINE q == [S!Off EXCEPT !.pc = "check", !.ask = service]
<1>0. service # S!NoService /\ service \in S!Asks /\ proc' = [proc EXCEPT !["service"] = q] /\ service' = service
      /\ proc["service"].pc = "off"
      /\ UNCHANGED <<asked, status, tick, S!disk, leave, pids, S!budget>>
  BY DEF S!ServiceStarts, ServiceInv, ServiceTypes
<1>a. /\ q \in [pc : Steps, ask : S!Asks \cup {S!NoService}, pid : Nat, code : 0 .. 3]
      /\ q.pc = "check" /\ q.ask = service /\ q.pid = 0 /\ q.code = 0
  <2>1. S!Off \in [pc : Steps, ask : S!Asks \cup {S!NoService}, pid : Nat, code : 0 .. 3] /\ S!Off.pid = 0 /\ S!Off.code = 0
    BY DEF Steps
  <2> HIDE DEF S!Off
  <2> QED BY <1>0, <2>1 DEF Steps
<1> HIDE DEF q
<1>1. ServiceTypes'
  BY <1>0, <1>a DEF ServiceSized, ServiceInv, ServiceTypes, CodeInv, Steps, Leaves, S!Process
<1>2. CodeInv'
  BY <1>0, <1>a DEF ServiceSized, ServiceInv, ServiceTypes, CodeInv, S!WholeCode, S!Process
<1>3. PidInv'
  BY <1>0, <1>a DEF ServiceInv, ServiceTypes, PidInv, S!LastStatus, S!Process
<1>4. AskedInv'
  BY <1>0, <1>a DEF ServiceInv, ServiceTypes, AskedInv, S!LeftForGood, S!Process
<1> QED BY <1>1, <1>2, <1>3, <1>4 DEF ServiceInv

\* Ctrl-C, and a peer that is asked to leave, change no code.
LEMMA SignalStep ==
  ASSUME ServiceSized, ServiceInv, S!CtrlC \/ S!Ask
  PROVE  ServiceInv'
<1>1. ServiceTypes'
  BY DEF ServiceSized, ServiceInv, ServiceTypes, CodeInv, Steps, Leaves, S!CtrlC, S!Ask, S!LeaveGoes
<1>2. CodeInv'
  BY DEF ServiceSized, ServiceInv, ServiceTypes, CodeInv, S!WholeCode, S!CtrlC, S!Ask, S!LeaveGoes
<1>3. PidInv'
  BY DEF ServiceInv, ServiceTypes, PidInv, S!LastStatus, S!CtrlC, S!Ask, S!LeaveGoes
<1>4. AskedInv'
  BY DEF ServiceInv, ServiceTypes, AskedInv, S!LeftForGood, S!CtrlC, S!Ask, S!LeaveGoes
<1> QED BY <1>1, <1>2, <1>3, <1>4 DEF ServiceInv

\* Leaving stops the service and removes it.
LEMMA LeaveStep ==
  ASSUME ServiceSized, ServiceInv, S!Leave \/ S!Waited \/ S!Remove
  PROVE  ServiceInv'
<1>1. ServiceTypes'
  BY DEF ServiceSized, ServiceInv, ServiceTypes, CodeInv, Steps, Leaves, S!Leave, S!Waited, S!Remove, S!LeaveGoes, S!Stopped, S!NoService
<1>2. CodeInv'
  BY DEF ServiceSized, ServiceInv, ServiceTypes, CodeInv, S!WholeCode, S!Leave, S!Waited, S!Remove, S!LeaveGoes, S!Stopped, S!NoService
<1>3. PidInv'
  BY DEF ServiceInv, ServiceTypes, PidInv, S!LastStatus, S!Leave, S!Waited, S!Remove, S!LeaveGoes, S!Stopped, S!NoService
<1>4. AskedInv'
  BY DEF ServiceInv, ServiceTypes, AskedInv, S!LeftForGood, S!Leave, S!Waited, S!Remove, S!LeaveGoes, S!Stopped, S!NoService
<1> QED BY <1>1, <1>2, <1>3, <1>4 DEF ServiceInv

\* Every step keeps the invariant.
LEMMA ServiceStep == ASSUME ServiceSized, ServiceInv, [S!Next]_(S!vars) PROVE ServiceInv'
<1>1. CASE UNCHANGED S!vars
  BY <1>1 DEF S!vars, ServiceInv, ServiceTypes, CodeInv, PidInv, AskedInv, S!WholeCode, S!LastStatus, S!LeftForGood
<1>2. ASSUME NEW p \in S!Process, S!Works(p) \/ S!SetUpFails(p) \/ S!TickReads(p) \/ S!NodeFails(p) \/ S!Crash(p)
      PROVE  ServiceInv'
  BY <1>2, PreflightStep, UnpackStep, SwapStep, RuntimeStep, SetUpFailsStep, StartStep, UpStep, ProcessEndStep DEF S!Works
<1>3. CASE S!Next
  BY <1>2, <1>3, JoinStep, InstallStep, ServiceStartsStep, SignalStep, LeaveStep DEF S!Next, S!Leaving
<1> QED BY <1>1, <1>3

\* And it says what the run checks.
LEMMA ServiceIsSound == ASSUME ServiceInv PROVE S!TypeOK /\ S!PeerSound
<1>1. S!TypeOK
  BY DEF ServiceInv, ServiceTypes, Steps, S!TypeOK
<1>2. S!WholeCode /\ S!LeftForGood /\ S!LastStatus
  BY DEF ServiceInv, CodeInv, PidInv, AskedInv
<1>3. asked = S!NoService \/ asked.api = "off" \/ S!SameAsAsked
  <2>1. CASE proc["service"].pc \in {"node", "up"}
    <3>1. asked \in S!Asks /\ proc["service"].ask = S!ServiceArgv(asked)
      BY <2>1 DEF ServiceInv, AskedInv
    <3> QED BY <3>1, ArgvIs DEF S!SameAsAsked
  <2>2. CASE proc["service"].pc \notin {"node", "up"}
    BY <2>2 DEF S!SameAsAsked
  <2> QED BY <2>1, <2>2
<1> QED BY <1>1, <1>2, <1>3 DEF S!PeerSound

\* However joins, services, failures, kills and `common leave` come between, and however set-ups of whatever version
\* overlap: no code runs that was unpacked in part, but where another set-up wrote it during a node's own;
\* the last status of a peer that ended in order stands; the service runs with the options it was installed with,
\* but for an API that is switched off; and once `common leave` is done nothing starts (join.py, layers.py, common.py).
THEOREM ServiceSound == ASSUME ServiceSized PROVE S!Spec => [](S!TypeOK /\ S!PeerSound)
<1>1. S!Init => ServiceInv
  BY ServiceInitIs
<1>2. ServiceInv /\ [S!Next]_(S!vars) => ServiceInv'
  BY ServiceStep
<1>3. ServiceInv => S!TypeOK /\ S!PeerSound
  BY ServiceIsSound
<1>4. S!Spec => S!Init /\ [][S!Next]_(S!vars)
  BY PTL DEF S!Spec
<1> QED BY <1>1, <1>2, <1>3, <1>4, PTL

-----------------------------------------------------------------------------
(* The reports of a user (Reports).                                        *)

CONSTANTS Command, MaxAsks, MaxReports, Foreign
VARIABLES asks, stash, about, saved, drawn, file, held, cli, clean, cFaults

P == INSTANCE Reports WITH faults <- cFaults

ReportsSized == MaxReports \in Nat /\ MaxIds \in Nat

Draws == 1 .. Len(drawn)
Posting == {"in", "409", "4xx", "down"}
Sending == Posting \cup {"send", "unlink"}
Commands == [pc : Sending \cup {"idle", "preview", "next"}, id : 0 .. MaxIds, rec : P!Records,
             again : BOOLEAN, left : SUBSET (P!Id \X P!Records)]
Texts == /\ asks \in Seq({"network", "local"}) /\ stash \in [q : Nat, local : BOOLEAN] /\ stash.q <= Len(asks)
         /\ about \in Seq(Nat) /\ Len(about) <= MaxReports
         /\ \A n \in 1 .. Len(about) : about[n] \in 1 .. Len(asks)
         /\ saved \subseteq 1 .. Len(about)
         /\ drawn \in Seq(Nat) /\ Len(drawn) <= MaxIds /\ \A i \in Draws : drawn[i] \in 1 .. Len(about)
         /\ clean \in BOOLEAN
\* The stash says where its question was answered, and only what the network answered is reported.
StashInv == /\ stash.q # 0 => (stash.local <=> asks[stash.q] = "local")
            /\ \A n \in 1 .. Len(about) : asks[about[n]] = "network"
\* A file, a copy of it, and what the gateway holds under an id are of the report the id was drawn for.
FileNamed(i) == /\ file[i].n # 0 => i \in Draws /\ file[i].n = drawn[i] /\ file[i].n \in saved
                /\ file[i].sent => held[i] # 0
HeldNamed(i) == held[i] > 0 => i \in Draws /\ held[i] = drawn[i] /\ held[i] \in saved
Cmd(c) ==
  /\ cli[c].pc \in Sending \cup {"preview"} =>
       cli[c].id \in Draws /\ cli[c].rec.n = drawn[cli[c].id] /\ ~cli[c].rec.sent
  /\ cli[c].pc \in Sending => cli[c].rec.n \in saved
  /\ cli[c].pc \in {"in", "409", "unlink"} => held[cli[c].id] # 0
  /\ cli[c].pc \in Posting => cli[c].rec.attempts >= 1
  /\ \A s \in cli[c].left : s[1] \in Draws /\ s[2].n = drawn[s[1]] /\ s[2].n \in saved /\ ~s[2].sent
  /\ cli[c].pc \in {"idle", "preview"} => cli[c].left = {}
Named == /\ \A i \in P!Id : FileNamed(i) /\ HeldNamed(i)
         /\ \A c \in Command : Cmd(c)
\* While nothing was killed and no two commands ran at once: the command's copies are the files; an id that is
\* not the last of its report was somebody else's, and so is one that was refused at the first try.
Last(i) == \A j \in Draws : drawn[j] = drawn[i] => j <= i
OneCommand == \A c, d \in Command : cli[c].pc # "idle" /\ cli[d].pc # "idle" => c = d
Older == \A i, j \in Draws : i < j /\ drawn[i] = drawn[j] => held[i] = P!Stranger
FileClean(i) ==
  /\ file[i].n # 0 => Last(i) \/ \E c \in Command : cli[c].pc = "unlink" /\ cli[c].id = i
  /\ file[i].n # 0 /\ file[i].attempts = 0 /\ held[i] > 0 =>
       \E c \in Command : cli[c].pc \in Posting /\ cli[c].id = i
CmdClean(c) ==
  /\ cli[c].pc \in Posting \cup {"send", "preview"} => Last(cli[c].id)
  /\ cli[c].pc = "preview" => held[cli[c].id] <= 0 /\ cli[c].rec.attempts = 0
  /\ cli[c].pc = "send" /\ cli[c].rec.attempts = 0 => held[cli[c].id] <= 0
  /\ cli[c].pc = "409" /\ cli[c].rec.attempts = 1 => held[cli[c].id] = P!Stranger
  /\ cli[c].pc = "unlink" =>
       /\ held[cli[c].id] = P!Stranger /\ ~Last(cli[c].id)
       /\ \A i \in Draws : drawn[i] = cli[c].rec.n /\ Last(i) => held[i] <= 0
       /\ \A s \in cli[c].left : s[2].n # cli[c].rec.n
  /\ \A s \in cli[c].left : file[s[1]] = s[2] /\ s[2].n # 0 /\ (cli[c].pc \in Sending => s[1] # cli[c].id)
CleanInv == OneCommand /\ Older /\ (\A i \in P!Id : FileClean(i)) /\ \A c \in Command : CmdClean(c)
Stored == file \in [P!Id -> P!Records] /\ held \in [P!Id -> P!Stranger .. MaxReports]
ReportInv == /\ Texts /\ Stored /\ cli \in [Command -> Commands]
             /\ StashInv /\ Named /\ P!KeptUntilIn /\ (clean => CleanInv)

-----------------------------------------------------------------------------
\* What every step owes.

Only(c) == cli' \in [Command -> Commands] /\ \A d \in Command \ {c} : cli'[d] = cli[d]
Grows == /\ Len(drawn) <= Len(drawn') /\ \A i \in Draws : drawn'[i] = drawn[i]
         /\ saved \subseteq saved' /\ \A i \in P!Id : held[i] # 0 => held'[i] = held[i]

\* What the parts of the state are made of, as the later leaves need it.
LEMMA Shapes ==
  ASSUME ReportsSized, ReportInv
  PROVE  /\ Len(drawn) \in Nat /\ Len(about) \in Nat /\ Len(asks) \in Nat /\ Draws \subseteq P!Id /\ 0 \notin saved
         /\ \A i \in P!Id : i \in Nat /\ held[i] \in Int /\ file[i].n \in 0 .. MaxReports /\ file[i].attempts \in Nat
         /\ \A c \in Command : cli[c] \in Commands
  BY DEF ReportInv, Texts, Stored, Draws, P!Id, P!Records, ReportsSized, P!Stranger

\* The file of an id, and a command, that a step leaves alone.
LEMMA FileKept ==
  ASSUME ReportsSized, ReportInv, Grows, NEW i \in P!Id, file'[i] = file[i] \/ file'[i] = P!NoFile
  PROVE  FileNamed(i)'
<1>1. CASE file'[i] = file[i]
  BY <1>1, Shapes DEF ReportInv, Named, FileNamed, Grows, Draws
<1>2. CASE file'[i] = P!NoFile
  BY <1>2 DEF P!NoFile, FileNamed
<1> QED BY <1>1, <1>2

\* What is said of a command stays so while it waits and the rest only grows.
LEMMA CmdKept ==
  ASSUME ReportsSized, ReportInv, Grows, NEW c \in Command, cli'[c] = cli[c]
  PROVE  Cmd(c)'
<1>1. Cmd(c) /\ \A i \in Draws : i \in Draws' /\ drawn'[i] = drawn[i] /\ (held[i] # 0 => held'[i] # 0)
  BY Shapes DEF ReportInv, Named, Grows, Draws
<1>2. saved \subseteq saved'
  BY DEF Grows
<1> QED BY <1>1, <1>2 DEF Cmd, Sending, Posting

\* A step of one command keeps Named when it does for that command, the files and the gateway.
LEMMA NamedStep ==
  ASSUME ReportsSized, ReportInv, Grows, NEW c \in Command, Only(c), Cmd(c)',
         \A i \in P!Id : FileNamed(i)' /\ HeldNamed(i)'
  PROVE  Named'
  BY CmdKept DEF Only, Named

\* What the gateway has under an id stays named.
LEMMA HeldKept == ASSUME ReportsSized, ReportInv, Grows, NEW i \in P!Id, held'[i] = held[i] PROVE HeldNamed(i)'
  BY Shapes DEF ReportInv, Named, HeldNamed, Grows, Draws

\* A saved report has its file still, or one of its ids is taken.
LEMMA KeptStep ==
  ASSUME ReportsSized, ReportInv, Grows, \A n \in saved' \ saved : \E i \in P!Id : file'[i].n = n,
         \A i \in P!Id : file[i].n # 0 => file'[i].n = file[i].n \/ held'[i] # 0
  PROVE  P!KeptUntilIn'
<1> SUFFICES ASSUME NEW n \in saved'
             PROVE  (\E i \in P!Id : file'[i].n = n) \/ \E i \in Draws' : drawn'[i] = n /\ held'[i] # 0
  BY DEF P!KeptUntilIn, Draws, Texts, ReportInv
<1>1. CASE n \notin saved
  BY <1>1
<1>2. CASE n \in saved
  <2>0. n # 0 /\ DOMAIN drawn = Draws
    BY <1>2, Shapes DEF ReportInv, Draws, Texts
  <2>1. (\E i \in P!Id : file[i].n = n) \/ \E i \in Draws : drawn[i] = n /\ held[i] # 0
    BY <1>2, <2>0 DEF ReportInv, P!KeptUntilIn
  <2>2. CASE \E i \in P!Id : file[i].n = n
    <3> PICK i \in P!Id : file[i].n = n
      BY <2>2
    <3>1. i \in Draws /\ drawn[i] = n
      BY <2>0 DEF ReportInv, Named, FileNamed
    <3>2. i \in Draws' /\ drawn'[i] = n
      BY <3>1, Shapes DEF Grows, Draws
    <3> QED BY <2>0, <3>2
  <2>3. CASE \E i \in Draws : drawn[i] = n /\ held[i] # 0
    BY <2>3, Shapes DEF Grows, Draws
  <2> QED BY <2>1, <2>2, <2>3
<1> QED BY <1>1, <1>2

\* A step of a command that leaves the drafts, the files and the gateway alone.
LEMMA CliOnly ==
  ASSUME ReportsSized, ReportInv, NEW c \in Command, Only(c), Cmd(c)',
         UNCHANGED <<asks, stash, about, saved, drawn, file, held>>, clean' \in BOOLEAN, clean' => CleanInv'
  PROVE  ReportInv'
<1>1. Grows
  BY Shapes DEF Grows
<1>2. Named'
  BY <1>1, FileKept, HeldKept, NamedStep
<1>3. P!KeptUntilIn'
  BY <1>1, KeptStep
<1>4. Texts' /\ Stored' /\ StashInv'
  BY DEF ReportInv, Texts, Stored, StashInv, Draws
<1> QED BY <1>2, <1>3, <1>4 DEF ReportInv, Only

-----------------------------------------------------------------------------
\* Step by step.

USE DEF P!Idle, P!NoFile, P!Nothing, P!Stranger, P!At, P!Go, P!Alone, P!Fault, P!store

\* A step of one command changes its own place only.
LEMMA CliIs ==
  ASSUME cli \in [Command -> Commands], NEW c \in Command, NEW x \in Commands, P!Go(c, x)
  PROVE  Only(c) /\ cli'[c] = x
  BY DEF Only

\* An idle command and an empty file are of their types.
LEMMA IdleIs == ASSUME ReportsSized PROVE P!Idle \in Commands /\ P!NoFile \in P!Records
<1>1. P!NoFile \in P!Records
  BY DEF ReportsSized, P!Records
<1>2. {} \in SUBSET (P!Id \X P!Records) /\ 0 \in 0 .. MaxIds
  BY DEF ReportsSized
<1> HIDE DEF P!NoFile
<1> QED BY <1>1, <1>2 DEF Commands

\* The command that runs, when no other does, and what it left of the files' part.
LEMMA GoneIdle ==
  ASSUME ReportsSized, ReportInv, NEW c \in Command, cli[c].pc \notin {"unlink"} \cup Posting, P!Go(c, P!Idle),
         UNCHANGED <<asks, stash, about, saved, drawn, file, held, clean>>
  PROVE  ReportInv'
<1>1. Only(c) /\ cli'[c].pc = "idle" /\ cli'[c].left = {}
  BY CliIs, IdleIs DEF ReportInv
<1>2. Cmd(c)'
  BY <1>1 DEF Cmd, Sending, Posting
<1>3. ASSUME clean' PROVE CleanInv'
  <2>0. CleanInv
    BY <1>3 DEF ReportInv
  <2>1. OneCommand' /\ Older'
    BY <1>1, <2>0 DEF Only, CleanInv, OneCommand, Older, Draws
  <2>2. \A i \in P!Id : FileClean(i)'
    BY <1>1, <2>0 DEF Only, CleanInv, FileClean, Last, Draws, Posting
  <2>3. \A d \in Command : CmdClean(d)'
    BY <1>1, <2>0 DEF Only, CleanInv, CmdClean, Last, Draws, Posting, Sending
  <2> QED BY <2>1, <2>2, <2>3 DEF CleanInv
<1> QED BY <1>1, <1>2, <1>3, CliOnly DEF ReportInv, Texts

\* A report that is declined, or cannot be saved, leaves no trace.
LEMMA DeclineStep == ASSUME ReportsSized, ReportInv, NEW c \in Command, P!Decline(c) \/ P!SaveFails(c) PROVE ReportInv'
  BY GoneIdle DEF P!Decline, P!SaveFails, Posting

\* A command that is killed forgets its copies; the files stay.
LEMMA KillStep == ASSUME ReportsSized, ReportInv, NEW c \in Command, P!Kill(c) PROVE ReportInv'
<1>1. Only(c) /\ cli'[c].pc = "idle" /\ cli'[c].left = {}
  BY CliIs, IdleIs DEF ReportInv, P!Kill
<1>2. Cmd(c)'
  BY <1>1 DEF Cmd, Sending, Posting
<1> QED BY <1>1, <1>2, CliOnly DEF P!Kill

\* A report that is agreed to gets its file.
LEMMA AgreeStep == ASSUME ReportsSized, ReportInv, NEW c \in Command, P!Agree(c) PROVE ReportInv'
<1>0. cli[c].id \in P!Id /\ cli[c].rec.n \in Nat
  BY Shapes DEF P!Agree, ReportInv, Named, Cmd, Commands, P!Records
<1> PICK k \in P!Id, n \in Nat : k = cli[c].id /\ n = cli[c].rec.n
  BY <1>0
<1>1. /\ cli[c] \in Commands /\ cli[c].pc = "preview" /\ k \in Draws /\ n = drawn[k] /\ n # 0
      /\ n \in 1 .. Len(about) /\ cli[c].left = {} /\ ~cli[c].rec.sent /\ cli[c].rec \in P!Records
      /\ UNCHANGED <<asks, stash, about, drawn, held, clean>>
      /\ saved' = saved \cup {n} /\ file' = [file EXCEPT ![k] = cli[c].rec]
  BY Shapes DEF P!Agree, ReportInv, Named, Cmd, Texts, Commands
<1>2. /\ Only(c) /\ cli'[c].pc \in {"idle", "send"} /\ (cli'[c].pc = "idle" => cli'[c].left = {})
      /\ cli'[c].pc = "send" => cli'[c].id = k /\ cli'[c].rec = cli[c].rec
      /\ cli'[c].left \in {{}, cli[c].left}
  <2>1. CASE P!Go(c, P!Idle)
    BY <2>1, CliIs, IdleIs DEF ReportInv
  <2>2. CASE P!Go(c, [cli[c] EXCEPT !.pc = "send", !.again = TRUE])
    <3> DEFINE x == [cli[c] EXCEPT !.pc = "send", !.again = TRUE]
    <3>1. x \in Commands /\ x.pc = "send" /\ x.id = k /\ x.rec = cli[c].rec /\ x.left = cli[c].left
      BY <1>1 DEF Commands, Sending
    <3> HIDE DEF x
    <3> QED BY <2>2, <3>1, CliIs DEF ReportInv, x
  <2> QED BY <2>1, <2>2 DEF P!Agree
<1>3. Grows
  BY <1>1, Shapes DEF Grows
<1>4. /\ file' \in [P!Id -> P!Records] /\ file'[k] = cli[c].rec
      /\ \A i \in P!Id \ {k} : file'[i] = file[i]
  BY <1>1 DEF ReportInv, Stored
<1>5. \A i \in P!Id : FileNamed(i)' /\ HeldNamed(i)'
  <2>1. FileNamed(k)'
    BY <1>1, <1>4 DEF FileNamed, Draws
  <2> QED BY <1>1, <1>3, <1>4, <2>1, FileKept, HeldKept
<1>6. Cmd(c)'
  <2>1. \A s \in cli'[c].left : s[1] \in Draws /\ s[2].n = drawn[s[1]] /\ s[2].n \in saved /\ ~s[2].sent
    BY <1>2 DEF ReportInv, Named, Cmd
  <2> QED BY <1>1, <1>2, <2>1 DEF Cmd, Draws, Posting, Sending
<1>7. Named'
  BY <1>2, <1>3, <1>5, <1>6, NamedStep
<1>8. P!KeptUntilIn'
  <2>1. \A i \in P!Id : file[i].n # 0 => file'[i].n = file[i].n
    BY <1>1, <1>4 DEF ReportInv, Named, FileNamed
  <2>2. \A m \in saved' \ saved : file'[k].n = m
    BY <1>1, <1>4 
  <2> QED BY <1>1, <1>3, <2>1, <2>2, KeptStep
<1>9. Texts' /\ StashInv' /\ Stored'
  BY <1>1, <1>4 DEF ReportInv, Texts, StashInv, Stored, Draws
<1>10. ASSUME clean' PROVE CleanInv'
  <2>0. CleanInv
    BY <1>1, <1>10 DEF ReportInv
  <2>1. OneCommand' /\ Older'
    BY <1>1, <1>2, <2>0 DEF Only, CleanInv, OneCommand, Older, Draws
  <2>2. Last(k) /\ held[k] <= 0 /\ cli[c].rec.attempts = 0
    BY <1>1, <2>0 DEF CleanInv, CmdClean
  <2>3. \A d \in Command \ {c} : cli[d].pc = "idle" /\ cli'[d] = cli[d] /\ cli[d].left = {}
    BY <1>1, <1>2, <2>0 DEF Only, CleanInv, OneCommand, ReportInv, Named, Cmd
  <2>4. \A i \in P!Id : FileClean(i)'
    <3>1. FileClean(k)'
      BY <1>1, <1>4, <2>2, Shapes DEF FileClean, Last, Draws
    <3>2. ASSUME NEW i \in P!Id \ {k} PROVE FileClean(i)'
      BY <1>1, <1>4, <2>0, <2>3 DEF CleanInv, FileClean, Last, Draws, Posting
    <3> QED BY <3>1, <3>2
  <2>5. CmdClean(c)'
    <3>1. cli'[c].left = {} /\ Last(k)' /\ (cli'[c].pc = "send" => cli'[c].id = k /\ held'[k] <= 0)
      BY <1>1, <1>2, <2>2 DEF Last, Draws
    <3> QED BY <1>2, <3>1 DEF CmdClean, Posting, Sending
  <2>6. \A d \in Command \ {c} : CmdClean(d)'
    BY <2>3 DEF CmdClean, Posting, Sending
  <2> QED BY <2>1, <2>4, <2>5, <2>6 DEF CleanInv
<1> QED BY <1>2, <1>7, <1>8, <1>9, <1>10 DEF ReportInv, Only

\* The command that runs while no other does.
LEMMA SoloIs ==
  ASSUME ReportsSized, ReportInv, NEW c \in Command, Only(c), \A d \in Command \ {c} : cli[d].pc = "idle"
  PROVE  OneCommand' /\ \A d \in Command \ {c} : CmdClean(d)'
<1>1. \A d \in Command \ {c} : cli'[d].pc = "idle" /\ cli'[d].left = {}
  BY DEF Only, ReportInv, Named, Cmd
<1> QED BY <1>1 DEF OneCommand, CmdClean, Posting, Sending

\* What an id drawn for a report adds.
LEMMA DrawnIs ==
  ASSUME ReportsSized, ReportInv, NEW n \in Nat, drawn' = Append(drawn, n), P!NewId \in P!Id
  PROVE  /\ P!NewId \in Nat \ Draws /\ P!NewId <= MaxIds /\ Len(drawn') = P!NewId /\ drawn' \in Seq(Nat)
         /\ Draws' = Draws \cup {P!NewId} /\ drawn'[P!NewId] = n /\ P!NewId > 0
         /\ \A i \in Draws : drawn'[i] = drawn[i] /\ drawn[i] \in 1 .. Len(about) /\ i < P!NewId
         /\ held[P!NewId] <= 0 /\ file[P!NewId].n = 0
<1>1. Len(drawn) \in Nat /\ drawn \in Seq(Nat) /\ \A i \in Draws : drawn[i] \in 1 .. Len(about)
  BY Shapes DEF ReportInv, Texts
<1>2. Len(drawn') = Len(drawn) + 1 /\ drawn'[Len(drawn) + 1] = n /\ drawn' \in Seq(Nat)
      /\ \A i \in Draws : drawn'[i] = drawn[i]
  BY <1>1 DEF Draws
<1>3. P!NewId = Len(drawn) + 1
  BY DEF P!NewId
<1>4. P!NewId \notin Draws /\ Draws' = Draws \cup {P!NewId}
  BY <1>1, <1>2, <1>3 DEF Draws
<1>5. held[P!NewId] <= 0 /\ file[P!NewId].n = 0
  BY <1>4, Shapes DEF ReportInv, Named, HeldNamed, FileNamed
<1> QED BY <1>1, <1>2, <1>3, <1>4, <1>5 DEF P!Id, ReportsSized, Draws

\* A report that is built gets an id of its own and the text of the last answer.
LEMMA BuildStep == ASSUME ReportsSized, ReportInv, NEW c \in Command, P!Build(c) PROVE ReportInv'
<1>0. P!NewId \in P!Id /\ Len(about) \in Nat /\ drawn' = Append(drawn, Len(about')) /\ Len(about') = Len(about) + 1
  <2>1. about \in Seq(Nat) /\ stash.q \in Nat /\ about' = Append(about, stash.q)
    BY DEF P!Build, ReportInv, Texts
  <2> QED BY <2>1 DEF P!Build
<1> PICK k \in Nat, n \in Nat : k = P!NewId /\ n = Len(about) + 1
  BY <1>0, DrawnIs
<1>1. /\ cli[c].pc = "idle" /\ stash.q \in 1 .. Len(asks) /\ asks[stash.q] = "network" /\ n <= MaxReports
      /\ UNCHANGED <<asks, stash, saved, file, held>>
      /\ clean' = (clean /\ \A d \in Command \ {c} : cli[d].pc = "idle")
  <2>1. stash \in [q : Nat, local : BOOLEAN] /\ stash.q <= Len(asks) /\ Len(about) \in Nat /\ Len(asks) \in Nat
    BY Shapes DEF ReportInv, Texts
  <2>2. stash.q # 0 /\ ~stash.local /\ Len(about) < MaxReports
    BY DEF P!Build
  <2>3. asks[stash.q] = "network"
    <3>1. asks \in Seq({"network", "local"}) /\ (stash.q # 0 => (stash.local <=> asks[stash.q] = "local"))
      BY DEF ReportInv, Texts, StashInv
    <3> QED BY <2>1, <2>2, <3>1
  <2>4. n <= MaxReports
    BY <2>1, <2>2 DEF ReportsSized
  <2> QED BY <2>1, <2>2, <2>3, <2>4 DEF P!Build
<1>2. /\ k \notin Draws /\ k <= MaxIds /\ k > 0 /\ Len(drawn') = k /\ drawn' \in Seq(Nat) /\ Draws' = Draws \cup {k}
      /\ drawn'[k] = n /\ held[k] <= 0 /\ k \in P!Id
      /\ \A i \in Draws : drawn'[i] = drawn[i] /\ drawn[i] \in Nat /\ 0 < drawn[i] /\ drawn[i] < n /\ i < k
  <2>1. \A i \in 1 .. Len(about) : i \in Nat /\ 0 < i /\ i < n
    BY <1>0
  <2>2. Len(about') = n
    BY <1>0
  <2> QED BY <1>0, <2>1, <2>2, DrawnIs
<1>3. /\ about' \in Seq(Nat) /\ about'[n] = stash.q /\ \A m \in 1 .. Len(about) : about'[m] = about[m]
  BY <1>0, <1>1 DEF P!Build, ReportInv, Texts
<1>4. Grows
  <2>1. Len(drawn) < k
    BY <1>0 DEF P!NewId, Texts, ReportInv
  <2> QED BY <1>1, <1>2, <2>1, Shapes DEF Grows
<1>5. Only(c) /\ cli'[c].pc = "preview" /\ cli'[c].id = k /\ cli'[c].rec.n = n /\ ~cli'[c].rec.sent
      /\ cli'[c].rec.attempts = 0 /\ cli'[c].left = {}
  <2> DEFINE r == [P!NoFile EXCEPT !.n = n]
             x == [P!Idle EXCEPT !.pc = "preview", !.id = k, !.rec = r]
  <2>0. P!Go(c, x)
    BY <1>0 DEF P!Build
  <2>1. r \in P!Records /\ r.n = n /\ ~r.sent /\ r.attempts = 0
    <3>1. n \in 0 .. MaxReports
      BY <1>1 DEF ReportsSized
    <3>2. P!NoFile \in P!Records /\ ~P!NoFile.sent /\ P!NoFile.attempts = 0
      BY IdleIs
    <3> HIDE DEF P!NoFile
    <3> QED BY <3>1, <3>2 DEF P!Records
  <2> HIDE DEF r
  <2>2. P!Idle \in Commands /\ P!Idle.left = {}
    BY IdleIs
  <2>3. k \in 0 .. MaxIds
    BY <1>2 DEF ReportsSized
  <2> HIDE DEF P!Idle
  <2>4. x \in Commands /\ x.pc = "preview" /\ x.id = k /\ x.rec = r /\ x.left = {}
    BY <2>1, <2>2, <2>3 DEF Commands
  <2> HIDE DEF x
  <2> QED BY <2>0, <2>1, <2>4, CliIs DEF ReportInv
<1>6. Cmd(c)'
  BY <1>2, <1>5 DEF Cmd, Posting, Sending
<1>7. Named'
  BY <1>1, <1>4, <1>5, <1>6, FileKept, HeldKept, NamedStep
<1>8. P!KeptUntilIn'
  BY <1>1, <1>4, KeptStep
<1>9. Texts' /\ StashInv' /\ Stored'
  <2>1. \A j \in Draws' : drawn'[j] \in 1 .. n
    <3>1. \A i \in Draws : drawn'[i] \in 1 .. n
      BY <1>2
    <3>2. n \in 1 .. n
      BY <1>0
    <3> QED BY <1>2, <3>1, <3>2
  <2>2. \A m \in 1 .. n : m \in 1 .. Len(about) \/ m = n
    BY <1>0
  <2>3. /\ \A m \in 1 .. n : about'[m] \in 1 .. Len(asks) /\ asks[about'[m]] = "network"
        /\ saved \subseteq 1 .. n
    <3>1. \A m \in 1 .. Len(about) : about[m] \in 1 .. Len(asks) /\ asks[about[m]] = "network"
      BY DEF ReportInv, Texts, StashInv
    <3>2. saved \subseteq 1 .. n
      BY <1>0 DEF ReportInv, Texts
    <3> QED BY <1>1, <1>3, <2>2, <3>1, <3>2
  <2>4. clean' \in BOOLEAN
    BY <1>1 DEF ReportInv, Texts
  <2>5. Texts'
    BY <1>0, <1>1, <1>2, <1>3, <2>1, <2>3, <2>4 DEF ReportInv, Texts
  <2>6. StashInv'
    BY <1>0, <1>1, <2>3 DEF ReportInv, StashInv
  <2> QED BY <1>1, <2>5, <2>6 DEF ReportInv, Stored
<1>10. ASSUME clean' PROVE CleanInv'
  <2>0. CleanInv /\ \A d \in Command \ {c} : cli[d].pc = "idle"
    BY <1>1, <1>10 DEF ReportInv
  <2>1. OneCommand' /\ \A d \in Command \ {c} : CmdClean(d)'
    BY <1>5, <2>0, SoloIs
  <2>2. \A i \in Draws : drawn'[i] # drawn'[k]
    BY <1>2
  <2>3. Older'
    BY <1>1, <1>2, <2>0, <2>2 DEF CleanInv, Older
  <2>5. Last(k)' /\ \A i \in Draws : Last(i) => Last(i)'
    BY <1>2, <2>2 DEF Last
  <2>6. \A i \in P!Id : FileClean(i)'
    <3> SUFFICES ASSUME NEW i \in P!Id PROVE FileClean(i)'
      OBVIOUS
    <3>1. file[i].n # 0 => i \in Draws
      BY DEF ReportInv, Named, FileNamed
    <3>2. file[i].n # 0 => Last(i) /\ ~(file[i].attempts = 0 /\ held[i] > 0)
      BY <1>1, <2>0 DEF CleanInv, FileClean, Posting
    <3> QED BY <1>1, <2>5, <3>1, <3>2 DEF FileClean
  <2>7. CmdClean(c)'
    BY <1>1, <1>2, <1>5, <2>5 DEF CmdClean, Posting, Sending
  <2> QED BY <2>1, <2>3, <2>6, <2>7 DEF CleanInv
<1> QED BY <1>5, <1>7, <1>8, <1>9, <1>10 DEF ReportInv, Only

\* A retry removes only files marked sent, and takes copies of the others.
LEMMA RetryStep == ASSUME ReportsSized, ReportInv, NEW c \in Command, P!Retry(c) PROVE ReportInv'
<1> PICK old \in SUBSET {i \in P!Id : file[i].sent} : P!Prune(old)
  BY DEF P!Retry
<1> DEFINE left == {<<i, file[i]>> : i \in {j \in P!Id : P!Kept(j)}}
<1>1. /\ cli[c].pc = "idle" /\ P!Alone(c) /\ P!Go(c, [P!Idle EXCEPT !.pc = "next", !.left = left])
      /\ UNCHANGED <<asks, stash, about, saved, drawn, held>>
  BY DEF P!Retry
<1>2. Grows
  BY <1>1, Shapes DEF Grows
<1>3. \A i \in P!Id : file'[i] = (IF i \in old THEN P!NoFile ELSE file[i])
  BY DEF P!Prune
<1>4. file' \in [P!Id -> P!Records]
  BY IdleIs DEF P!Prune, ReportInv, Stored
<1>5. left \subseteq P!Id \X P!Records
      /\ \A s \in left : s[1] \in P!Id /\ s[2] = file[s[1]] /\ s[2].n # 0 /\ ~s[2].sent
  BY DEF ReportInv, Stored, P!Kept
<1> HIDE DEF left
<1>6. Only(c) /\ cli'[c].pc = "next" /\ cli'[c].left = left
  <2> DEFINE x == [P!Idle EXCEPT !.pc = "next", !.left = left]
  <2>1. P!Idle \in Commands
    BY IdleIs
  <2> HIDE DEF P!Idle
  <2>2. x \in Commands /\ x.pc = "next" /\ x.left = left
    BY <1>5, <2>1 DEF Commands
  <2> HIDE DEF x
  <2> QED BY <1>1, <2>2, CliIs DEF ReportInv, x
<1>7. Cmd(c)'
  <2>1. \A s \in left : s[1] \in Draws /\ s[2].n = drawn[s[1]] /\ s[2].n \in saved
    BY <1>5 DEF ReportInv, Named, FileNamed
  <2> QED BY <1>1, <1>5, <1>6, <2>1 DEF Cmd, Draws, Posting, Sending
<1>8. Named'
  BY <1>1, <1>2, <1>3, <1>6, <1>7, FileKept, HeldKept, NamedStep
<1>9. P!KeptUntilIn'
  <2>1. \A i \in P!Id : i \in old => held[i] # 0
    BY DEF ReportInv, Named, FileNamed
  <2> QED BY <1>1, <1>2, <1>3, <2>1, KeptStep
<1>10. Texts' /\ StashInv' /\ Stored'
  BY <1>1, <1>4 DEF ReportInv, Texts, StashInv, Stored, Draws
<1>11. ASSUME clean' PROVE CleanInv'
  <2>0. CleanInv /\ \A d \in Command \ {c} : cli[d].pc = "idle"
    BY <1>1, <1>11 DEF ReportInv
  <2>1. OneCommand' /\ \A d \in Command \ {c} : CmdClean(d)'
    BY <1>6, <2>0, SoloIs
  <2>2. Older' /\ \A i \in Draws : Last(i) => Last(i)'
    BY <1>1, <2>0 DEF CleanInv, Older, Draws, Last
  <2>3. \A i \in P!Id : FileClean(i)'
    <3> SUFFICES ASSUME NEW i \in P!Id PROVE FileClean(i)'
      OBVIOUS
    <3>1. file[i].n # 0 => i \in Draws /\ Last(i) /\ ~(file[i].attempts = 0 /\ held[i] > 0)
      BY <1>1, <2>0 DEF CleanInv, FileClean, Posting, ReportInv, Named, FileNamed
    <3>2. file'[i].n # 0 => file'[i] = file[i]
      BY <1>3
    <3> QED BY <1>1, <2>2, <3>1, <3>2 DEF FileClean
  <2>4. CmdClean(c)'
    <3>1. \A s \in left : file'[s[1]] = s[2]
      BY <1>3, <1>5
    <3> QED BY <1>5, <1>6, <3>1 DEF CmdClean, Posting, Sending
  <2> QED BY <2>1, <2>2, <2>3, <2>4 DEF CleanInv
<1> QED BY <1>6, <1>8, <1>9, <1>10, <1>11 DEF ReportInv, Only

\* The next report is sent from the copy that was read at the start.
LEMMA NextOneStep == ASSUME ReportsSized, ReportInv, NEW c \in Command, P!Next1(c) PROVE ReportInv'
<1>1. CASE cli[c].left = {}
  BY <1>1, GoneIdle DEF P!Next1, Posting
<1>2. ASSUME NEW r \in cli[c].left,
             P!Go(c, [pc |-> "send", id |-> r[1], rec |-> r[2], again |-> TRUE, left |-> cli[c].left \ {r}])
      PROVE  ReportInv'
  <2>1. cli[c].pc = "next" /\ UNCHANGED <<asks, stash, about, saved, drawn, file, held, clean>>
    BY DEF P!Next1
  <2>2. /\ cli[c].left \in SUBSET (P!Id \X P!Records) /\ r \in P!Id \X P!Records
        /\ r[1] \in 0 .. MaxIds /\ r[1] \in Draws /\ r[2].n = drawn[r[1]] /\ r[2].n \in saved /\ ~r[2].sent
    BY Shapes DEF Commands, ReportInv, Named, Cmd, P!Id, ReportsSized
  <2>3. /\ Only(c) /\ cli'[c].pc = "send" /\ cli'[c].id = r[1] /\ cli'[c].rec = r[2]
        /\ cli'[c].left = cli[c].left \ {r}
    <3> DEFINE x == [pc |-> "send", id |-> r[1], rec |-> r[2], again |-> TRUE, left |-> cli[c].left \ {r}]
    <3>1. x \in Commands
      BY <2>2 DEF Commands, Sending
    <3> QED BY <1>2, <3>1, CliIs DEF ReportInv
  <2>4. Cmd(c)'
    <3>1. \A s \in cli[c].left : s[1] \in Draws /\ s[2].n = drawn[s[1]] /\ s[2].n \in saved /\ ~s[2].sent
      BY DEF ReportInv, Named, Cmd
    <3> QED BY <2>1, <2>2, <2>3, <3>1 DEF Cmd, Draws, Posting, Sending
  <2>5. ASSUME clean' PROVE CleanInv'
    <3>0. CleanInv /\ \A d \in Command \ {c} : cli[d].pc = "idle"
      BY <2>1, <2>5 DEF ReportInv, CleanInv, OneCommand
    <3>1. OneCommand' /\ \A d \in Command \ {c} : CmdClean(d)'
      BY <2>3, <3>0, SoloIs
    <3>2. Older' /\ \A i \in Draws : Last(i) => Last(i)'
      BY <2>1, <3>0 DEF CleanInv, Older, Draws, Last
    <3>3. \A i \in P!Id : file[i].n # 0 => i \in Draws /\ Last(i) /\ ~(file[i].attempts = 0 /\ held[i] > 0)
      BY <2>1, <3>0 DEF CleanInv, FileClean, Posting, ReportInv, Named, FileNamed
    <3>4. \A i \in P!Id : FileClean(i)'
      BY <2>1, <3>2, <3>3 DEF FileClean
    <3>5. \A s \in cli[c].left : file[s[1]] = s[2] /\ s[2].n # 0
      BY <3>0 DEF CleanInv, CmdClean
    <3>6. \A s \in cli[c].left \ {r} : s[1] # r[1]
      BY <2>2, <3>5
    <3>7. CmdClean(c)'
      <4>1. Last(r[1])' /\ (r[2].attempts = 0 => held[r[1]] <= 0)
        <5>1. r[1] \in P!Id /\ held[r[1]] \in Int
          BY <2>2, Shapes
        <5> QED BY <2>2, <3>2, <3>3, <3>5, <5>1
      <4> QED BY <2>1, <2>3, <3>5, <3>6, <4>1 DEF CmdClean, Posting, Sending
    <3> QED BY <3>1, <3>2, <3>4, <3>7 DEF CleanInv
  <2> QED BY <2>1, <2>3, <2>4, <2>5, CliOnly DEF ReportInv, Texts
<1> QED BY <1>1, <1>2 DEF P!Next1

\* The answer to a post, and what the gateway did before it answered or did not.
LEMMA PostedIs ==
  ASSUME ReportsSized, ReportInv, NEW c \in Command, cli[c].pc = "send", NEW reply \in Posting, P!Posted(c, reply),
         \/ held' = held
         \/ held[cli[c].id] = 0 /\ held' = [held EXCEPT ![cli[c].id] = cli[c].rec.n],
         reply = "in" => held'[cli[c].id] # 0,
         reply = "409" => held' = held /\ held[cli[c].id] # 0,
         UNCHANGED <<asks, stash, about, saved, drawn, file, clean>>
  PROVE  ReportInv'
<1>0. cli[c].id \in P!Id /\ cli[c].rec.n \in Nat /\ cli[c].rec.attempts \in Nat
  BY Shapes DEF ReportInv, Named, Cmd, Commands, P!Records, Sending
<1> PICK k \in P!Id, n \in Nat, a \in Nat : k = cli[c].id /\ n = cli[c].rec.n /\ a = cli[c].rec.attempts
  BY <1>0
<1>1. cli[c] \in Commands /\ k \in Draws /\ n = drawn[k] /\ n \in saved /\ ~cli[c].rec.sent /\ n # 0 /\ n <= MaxReports
  BY Shapes DEF ReportInv, Named, Cmd, Sending, Texts, Commands, P!Records
<1>2. /\ Only(c) /\ cli'[c].pc = reply /\ cli'[c].id = k /\ cli'[c].rec.n = n /\ ~cli'[c].rec.sent
      /\ cli'[c].rec.attempts = a + 1 /\ cli'[c].left = cli[c].left
  <2> PICK old \in Commands : old = cli[c]
    BY <1>1
  <2> DEFINE x == [old EXCEPT !.pc = reply, !.rec.attempts = @ + 1]
  <2>0. P!Go(c, x)
    BY DEF P!Posted
  <2>1. old.rec \in P!Records /\ old.rec.attempts = a /\ old.rec.n = n /\ ~old.rec.sent
    BY <1>1 DEF Commands
  <2>2. x \in Commands /\ x.pc = reply /\ x.id = k /\ x.rec.n = n /\ ~x.rec.sent /\ x.rec.attempts = a + 1
        /\ x.left = old.left
    <3> DEFINE y == [old.rec EXCEPT !.attempts = @ + 1]
    <3>1. y \in P!Records /\ y.n = n /\ ~y.sent /\ y.attempts = a + 1
      BY <2>1 DEF P!Records
    <3>2. x = [old EXCEPT !.pc = reply, !.rec = y]
      BY DEF Commands
    <3> HIDE DEF y
    <3>3. x.pc = reply /\ x.id = old.id /\ x.rec = y /\ x.left = old.left /\ x \in Commands
      BY <3>1, <3>2 DEF Commands, Sending
    <3> QED BY <3>1, <3>3
  <2> HIDE DEF x
  <2> QED BY <2>0, <2>2, CliIs DEF ReportInv
<1>3. /\ \A i \in P!Id : held[i] # 0 => held'[i] = held[i]
      /\ held' \in [P!Id -> P!Stranger .. MaxReports]
      /\ \A i \in P!Id \ {k} : held'[i] = held[i]
      /\ held'[k] = held[k] \/ held'[k] = n
  BY <1>1 DEF ReportInv, Stored, ReportsSized
<1>4. Grows
  BY <1>3, Shapes DEF Grows
<1>5. Cmd(c)'
  <2>1. \A s \in cli[c].left : s[1] \in Draws /\ s[2].n = drawn[s[1]] /\ s[2].n \in saved /\ ~s[2].sent
    BY DEF ReportInv, Named, Cmd
  <2> QED BY <1>1, <1>2, <2>1 DEF Cmd, Draws, Posting, Sending
<1>6. \A i \in P!Id : FileNamed(i)' /\ HeldNamed(i)'
  <2>1. HeldNamed(k)'
    BY <1>1, <1>3, <1>4, HeldKept DEF HeldNamed, Draws
  <2> QED BY <1>3, <1>4, <2>1, FileKept, HeldKept
<1>7. Named'
  BY <1>2, <1>4, <1>5, <1>6, NamedStep
<1>8. P!KeptUntilIn'
  BY <1>4, KeptStep
<1>9. Texts' /\ StashInv' /\ Stored'
  BY <1>3 DEF ReportInv, Texts, StashInv, Stored, Draws
<1>10. ASSUME clean' PROVE CleanInv'
  <2>0. CleanInv /\ \A d \in Command \ {c} : cli[d].pc = "idle"
    BY <1>10 DEF ReportInv, CleanInv, OneCommand
  <2>1. OneCommand' /\ \A d \in Command \ {c} : CmdClean(d)'
    BY <1>2, <2>0, SoloIs
  <2>2. Older' /\ \A i \in Draws : Last(i) => Last(i)'
    BY <1>3, <2>0, Shapes DEF CleanInv, Older, Draws, Last
  <2>3. \A i \in P!Id : file[i].n # 0 => i \in Draws /\ Last(i) /\ ~(file[i].attempts = 0 /\ held[i] > 0)
    BY <2>0 DEF CleanInv, FileClean, Posting, ReportInv, Named, FileNamed
  <2>4. \A i \in P!Id : FileClean(i)'
    BY <1>2, <1>3, <2>2, <2>3 DEF FileClean
  <2>5. CmdClean(c)'
    <3>1. Last(k) /\ (a = 0 => held[k] <= 0) /\ held[k] \in P!Stranger .. MaxReports
      BY <2>0, <1>1 DEF CleanInv, CmdClean, ReportInv, Stored
    <3>2. reply = "409" /\ a + 1 = 1 => held'[k] = P!Stranger
      BY <3>1 DEF ReportsSized
    <3>3. \A s \in cli[c].left : file[s[1]] = s[2] /\ s[2].n # 0 /\ s[1] # k
      BY <2>0 DEF CleanInv, CmdClean, Sending
    <3> QED BY <1>1, <1>2, <2>2, <3>1, <3>2, <3>3 DEF CmdClean, Posting, Sending
  <2> QED BY <2>1, <2>2, <2>4, <2>5 DEF CleanInv
<1> QED BY <1>2, <1>7, <1>8, <1>9, <1>10 DEF ReportInv, Only

\* A post is taken, refused or lost, with what was sent under the id.
LEMMA PostStep == ASSUME ReportsSized, ReportInv, NEW c \in Command, P!Post(c) \/ P!PostFails(c) PROVE ReportInv'
<1>0. cli[c].id \in P!Id /\ 0 \notin saved /\ (cli[c].pc = "send" => cli[c].rec.n \in saved)
  BY Shapes DEF ReportInv, Named, Cmd, Sending, P!Post, P!PostFails
<1>1. CASE P!Post(c)
  <2>1. CASE held[cli[c].id] = 0
    <3>1. held'[cli[c].id] # 0
      BY <1>0, <1>1, <2>1 DEF P!Post, ReportInv, Stored
    <3> QED BY <1>1, <2>1, <3>1, PostedIs DEF P!Post, Posting
  <2>2. CASE held[cli[c].id] # 0
    BY <1>1, <2>2, PostedIs DEF P!Post, Posting
  <2> QED BY <2>1, <2>2
<1>2. CASE P!PostFails(c)
  BY <1>2, PostedIs DEF P!PostFails, Posting
<1> QED BY <1>1, <1>2

\* What the command's part of the invariant says of the one that writes.
LEMMA WriterIs ==
  ASSUME ReportsSized, ReportInv, NEW c \in Command, cli[c].pc \in Sending
  PROVE  /\ cli[c] \in Commands /\ cli[c].rec \in P!Records /\ cli[c].id \in P!Id /\ cli[c].id \in Draws
         /\ cli[c].rec.n = drawn[cli[c].id] /\ cli[c].rec.n \in saved /\ ~cli[c].rec.sent /\ cli[c].rec.n \in Nat
         /\ cli[c].rec.n # 0 /\ cli[c].rec.attempts \in Nat
         /\ \A s \in cli[c].left : s[1] \in P!Id /\ s[1] \in Draws /\ s[2].n = drawn[s[1]] /\ s[2].n \in saved /\ ~s[2].sent
<1>1. cli[c] \in Commands /\ Cmd(c) /\ Draws \subseteq P!Id /\ 0 \notin saved
  BY Shapes DEF ReportInv, Named
<1> QED BY <1>1 DEF Cmd, Commands, P!Records

\* The record is written back into its file, as sent or as not sent.
LEMMA WrittenIs ==
  ASSUME ReportsSized, ReportInv, NEW c \in Command, cli[c].pc \in Posting, NEW sent \in BOOLEAN, P!Write(c, sent),
         sent => held[cli[c].id] # 0, P!Go(c, P!After(c)) \/ P!Go(c, P!Idle),
         UNCHANGED <<asks, stash, about, saved, drawn, held, clean>>
  PROVE  ReportInv'
<1> PICK k \in P!Id, n \in Nat : k = cli[c].id /\ n = cli[c].rec.n
  BY WriterIs DEF Sending
<1>1. /\ cli[c] \in Commands /\ cli[c].rec \in P!Records /\ k \in Draws /\ n = drawn[k] /\ n \in saved /\ n # 0
      /\ cli[c].rec.attempts \in Nat /\ cli[c].rec.attempts >= 1
      /\ \A s \in cli[c].left : s[1] \in P!Id /\ s[1] \in Draws /\ s[2].n = drawn[s[1]] /\ s[2].n \in saved /\ ~s[2].sent
  BY WriterIs DEF Sending, ReportInv, Named, Cmd
<1>2. /\ Only(c) /\ cli'[c].pc \in {"next", "idle"} /\ cli'[c].left \in {{}, cli[c].left}
      /\ (cli'[c].pc = "idle" => cli'[c].left = {})
  <2>1. CASE P!Go(c, P!Idle)
    BY <2>1, CliIs, IdleIs DEF ReportInv
  <2>2. CASE P!Go(c, P!After(c))
    <3> PICK old \in Commands : old = cli[c]
      BY <1>1
    <3> DEFINE x == [old EXCEPT !.pc = "next", !.id = 0, !.rec = P!NoFile]
    <3>1. P!Go(c, x)
      BY <2>2 DEF P!After
    <3>2. P!NoFile \in P!Records /\ 0 \in 0 .. MaxIds
      BY IdleIs DEF ReportsSized
    <3> HIDE DEF P!NoFile
    <3>3. x \in Commands /\ x.pc = "next" /\ x.left = old.left
      BY <3>2 DEF Commands
    <3> HIDE DEF x
    <3> QED BY <3>1, <3>3, CliIs DEF ReportInv
  <2> QED BY <2>1, <2>2
<1>3. /\ file' \in [P!Id -> P!Records] /\ \A i \in P!Id \ {k} : file'[i] = file[i]
      /\ file'[k].n = n /\ file'[k].sent = sent /\ file'[k].attempts >= 1
  <2> PICK old \in P!Records : old = cli[c].rec
    BY <1>1
  <2> DEFINE y == [old EXCEPT !.sent = sent]
  <2>1. y \in P!Records /\ y.n = n /\ y.sent = sent /\ y.attempts >= 1
    BY <1>1 DEF P!Records
  <2>2. file' = [file EXCEPT ![k] = y]
    BY DEF P!Write
  <2> HIDE DEF y
  <2> QED BY <2>1, <2>2 DEF ReportInv, Stored
<1>4. Grows
  BY Shapes DEF Grows
<1>5. Cmd(c)'
  BY <1>1, <1>2 DEF Cmd, Draws, Posting, Sending
<1>6. \A i \in P!Id : FileNamed(i)' /\ HeldNamed(i)'
  <2>1. FileNamed(k)'
    BY <1>1, <1>3 DEF FileNamed, Draws
  <2> QED BY <1>3, <1>4, <2>1, FileKept, HeldKept
<1>7. Named'
  BY <1>2, <1>4, <1>5, <1>6, NamedStep
<1>8. P!KeptUntilIn'
  <2>1. \A i \in P!Id : file[i].n # 0 => file'[i].n = file[i].n
    BY <1>1, <1>3 DEF ReportInv, Named, FileNamed
  <2> QED BY <1>4, <2>1, KeptStep
<1>9. Texts' /\ StashInv' /\ Stored'
  BY <1>3 DEF ReportInv, Texts, StashInv, Stored, Draws
<1>10. ASSUME clean' PROVE CleanInv'
  <2>0. CleanInv /\ \A d \in Command \ {c} : cli[d].pc = "idle"
    BY <1>10 DEF ReportInv, CleanInv, OneCommand, Posting
  <2>1. OneCommand' /\ \A d \in Command \ {c} : CmdClean(d)'
    BY <1>2, <2>0, SoloIs
  <2>2. Older' /\ \A i \in Draws : Last(i) => Last(i)'
    BY <2>0 DEF CleanInv, Older, Draws, Last
  <2>3. Last(k)
    BY <2>0, <1>1 DEF CleanInv, CmdClean
  <2>4. \A i \in P!Id : FileClean(i)'
    <3>1. FileClean(k)'
      BY <1>1, <1>3, <2>2, <2>3 DEF FileClean, P!Records
    <3>2. ASSUME NEW i \in P!Id \ {k} PROVE FileClean(i)'
      <4>1. file[i].n # 0 => i \in Draws /\ Last(i) /\ ~(file[i].attempts = 0 /\ held[i] > 0)
        BY <2>0 DEF CleanInv, FileClean, Posting, ReportInv, Named, FileNamed
      <4> QED BY <1>3, <2>2, <4>1 DEF FileClean
    <3> QED BY <3>1, <3>2
  <2>5. CmdClean(c)'
    <3>1. \A s \in cli[c].left : file[s[1]] = s[2] /\ s[2].n # 0 /\ s[1] # k
      BY <2>0 DEF CleanInv, CmdClean, Sending
    <3>2. \A s \in cli[c].left : file'[s[1]] = s[2] /\ s[2].n # 0
      BY <1>1, <1>3, <3>1
    <3> QED BY <1>2, <3>2 DEF CmdClean, Posting, Sending
  <2> QED BY <2>1, <2>2, <2>4, <2>5 DEF CleanInv
<1> QED BY <1>2, <1>7, <1>8, <1>9, <1>10 DEF ReportInv, Only

\* What the gateway answered is written to the file of the report.
LEMMA WrittenStep == ASSUME ReportsSized, ReportInv, NEW c \in Command, P!Taken(c) \/ P!NotSent(c) PROVE ReportInv'
<1>1. CASE P!Taken(c)
  <2>1. cli[c].pc \in {"in", "409"} /\ held[cli[c].id] # 0
    BY <1>1 DEF P!Taken, ReportInv, Named, Cmd
  <2> QED BY <1>1, <2>1, WrittenIs DEF P!Taken, Posting
<1>2. CASE P!NotSent(c)
  BY <1>2, WrittenIs DEF P!NotSent, Posting
<1> QED BY <1>1, <1>2

\* After a 409 on the first try the report gets a new id, and a file under it.
LEMMA NewNameStep == ASSUME ReportsSized, ReportInv, NEW c \in Command, P!NewName(c) PROVE ReportInv'
<1>0. P!NewId \in P!Id /\ cli[c].pc = "409" /\ cli[c].rec.attempts = 1 /\ UNCHANGED <<asks, stash, about, saved, held, clean>>
  BY DEF P!NewName, P!FirstEver
<1> PICK i0 \in P!Id, k \in P!Id, n \in Nat : i0 = cli[c].id /\ k = P!NewId /\ n = cli[c].rec.n
  BY <1>0, WriterIs DEF Sending, Posting
<1>1. /\ cli[c] \in Commands /\ cli[c].rec \in P!Records /\ i0 \in Draws /\ n = drawn[i0] /\ n \in saved /\ n # 0
      /\ ~cli[c].rec.sent
      /\ \A s \in cli[c].left : s[1] \in P!Id /\ s[1] \in Draws /\ s[2].n = drawn[s[1]] /\ s[2].n \in saved /\ ~s[2].sent
  BY <1>0, WriterIs DEF Sending, Posting
<1>20. drawn' = Append(drawn, n)
  BY DEF P!NewName
<1>2. /\ k \in Nat \ Draws /\ k <= MaxIds /\ Draws' = Draws \cup {k}
      /\ drawn'[k] = n /\ held[k] <= 0 /\ file[k].n = 0
      /\ \A i \in Draws : drawn'[i] = drawn[i] /\ i < k /\ i \in Nat
  <2>1. Draws \subseteq Nat
    BY DEF Draws
  <2> QED BY <1>20, <2>1, DrawnIs
<1>21. Len(drawn') = k /\ drawn' \in Seq(Nat) /\ Len(drawn) < k /\ Len(drawn) \in Nat
       /\ \A i \in Draws : drawn[i] \in 1 .. Len(about)
  <2>1. Len(drawn) < P!NewId
    BY Shapes DEF P!NewId
  <2> QED BY <1>20, <2>1, DrawnIs, Shapes
<1>3. held[i0] # 0
  BY <1>0 DEF ReportInv, Named, Cmd
<1>4. /\ Only(c) /\ cli'[c].pc = "unlink" /\ cli'[c].id = i0 /\ cli'[c].rec.n = n /\ ~cli'[c].rec.sent
      /\ cli'[c].rec.attempts = 0 /\ cli'[c].left = cli[c].left
      /\ file' \in [P!Id -> P!Records] /\ (\A i \in P!Id \ {k} : file'[i] = file[i])
      /\ file'[k].n = n /\ ~file'[k].sent
  <2> PICK old \in Commands : old = cli[c]
    BY <1>1
  <2> DEFINE y == [old.rec EXCEPT !.attempts = 0]
             x == [old EXCEPT !.pc = "unlink", !.rec.attempts = 0]
  <2>0. P!Go(c, x) /\ file' = [file EXCEPT ![k] = y]
    BY DEF P!NewName
  <2>1. y \in P!Records /\ y.n = n /\ ~y.sent /\ y.attempts = 0
    BY <1>1 DEF P!Records
  <2>2. x = [old EXCEPT !.pc = "unlink", !.rec = y]
    BY DEF Commands
  <2> HIDE DEF y
  <2>3. x.pc = "unlink" /\ x.id = old.id /\ x.rec = y /\ x.left = old.left /\ x \in Commands
    BY <2>1, <2>2 DEF Commands, Sending
  <2> HIDE DEF x
  <2>4. Only(c) /\ cli'[c] = x
    BY <2>0, <2>3, CliIs DEF ReportInv
  <2> QED BY <2>0, <2>1, <2>3, <2>4 DEF ReportInv, Stored
<1>5. Grows
  BY <1>0, <1>2, <1>21 DEF Grows
<1>6. Cmd(c)'
  BY <1>0, <1>1, <1>2, <1>3, <1>4 DEF Cmd, Posting, Sending
<1>7. \A i \in P!Id : FileNamed(i)' /\ HeldNamed(i)'
  <2>1. FileNamed(k)'
    BY <1>0, <1>1, <1>2, <1>4 DEF FileNamed
  <2> QED BY <1>0, <1>4, <1>5, <2>1, FileKept, HeldKept
<1>8. Named'
  BY <1>4, <1>5, <1>6, <1>7, NamedStep
<1>9. P!KeptUntilIn'
  <2>1. \A i \in P!Id : file[i].n # 0 => file'[i].n = file[i].n
    BY <1>2, <1>4
  <2> QED BY <1>0, <1>5, <2>1, KeptStep
<1>10. Texts' /\ StashInv' /\ Stored'
  <2>1. n \in 1 .. Len(about)
    BY <1>1 DEF ReportInv, Texts
  <2>2. \A i \in Draws' : drawn'[i] \in 1 .. Len(about)
    BY <1>2, <1>21, <2>1
  <2> QED BY <1>0, <1>2, <1>21, <1>4, <2>2 DEF ReportInv, Texts, StashInv, Stored
<1>11. ASSUME clean' PROVE CleanInv'
  <2>0. CleanInv /\ \A d \in Command \ {c} : cli[d].pc = "idle"
    BY <1>0, <1>11 DEF ReportInv, CleanInv, OneCommand
  <2>1. OneCommand' /\ \A d \in Command \ {c} : CmdClean(d)'
    BY <1>4, <2>0, SoloIs
  <2>2. Last(i0) /\ held[i0] = P!Stranger
    BY <1>0, <2>0 DEF CleanInv, CmdClean, Posting
  <2>3. Older'
    <3>1. \A i \in Draws : drawn[i] = n => held[i] = P!Stranger
      <4>1. \A i \in Draws : i < i0 /\ drawn[i] = n => held[i] = P!Stranger
        BY <1>1, <2>0 DEF CleanInv, Older
      <4>2. \A i \in Draws : drawn[i] = n => i <= i0
        BY <1>1, <2>2 DEF Last
      <4> QED BY <1>1, <2>2, <4>1, <4>2, Shapes
    <3>2. \A i, j \in Draws : i < j /\ drawn[i] = drawn[j] => held[i] = P!Stranger
      BY <2>0 DEF CleanInv, Older
    <3>3. \A i \in Draws : i # k /\ ~(k < i)
      BY <1>2
    <3> QED BY <1>0, <1>2, <3>1, <3>2, <3>3 DEF Older
  <2>4. \A i \in Draws : Last(i) /\ i # i0 => drawn[i] # n /\ Last(i)'
    <3>1. \A i \in Draws : Last(i) /\ i # i0 => drawn[i] # n
      BY <1>1, <2>2, Shapes DEF Last
    <3> QED BY <1>2, <3>1 DEF Last
  <2>5. \A i \in P!Id : file[i].n # 0 =>
          /\ i \in Draws /\ Last(i)
          /\ file[i].attempts = 0 /\ held[i] > 0 => i = i0
    BY <1>0, <2>0 DEF CleanInv, FileClean, Posting, ReportInv, Named, FileNamed
  <2>6. \A i \in P!Id : FileClean(i)'
    <3>1. Last(k)'
      BY <1>2 DEF Last
    <3>2. FileClean(k)'
      BY <1>0, <1>2, <3>1, Shapes DEF FileClean
    <3>3. FileClean(i0)'
      BY <1>0, <1>1, <1>2, <1>4, <2>2 DEF FileClean
    <3>4. ASSUME NEW i \in P!Id, i # k, i # i0 PROVE FileClean(i)'
      BY <1>0, <1>4, <2>4, <2>5, <3>4 DEF FileClean
    <3> QED BY <3>2, <3>3, <3>4
  <2>7. CmdClean(c)'
    <3>1. \A s \in cli[c].left : file[s[1]] = s[2] /\ s[2].n # 0 /\ s[1] # i0
      BY <1>0, <2>0 DEF CleanInv, CmdClean, Sending, Posting
    <3>2. ASSUME NEW s \in cli[c].left PROVE s[2].n # n /\ file'[s[1]] = s[2]
      <4>1. s[1] \in P!Id /\ s[1] \in Draws /\ s[1] # i0 /\ s[1] # k /\ s[2].n = drawn[s[1]] /\ file[s[1]].n # 0
        BY <1>1, <1>2, <3>1
      <4>2. drawn[s[1]] # n
        BY <2>4, <2>5, <4>1
      <4> QED BY <1>4, <3>1, <4>1, <4>2
    <3>3. ~Last(i0)'
      BY <1>1, <1>2 DEF Last
    <3>4. \A i \in Draws' : drawn'[i] = n /\ Last(i)' => held'[i] <= 0
      <4>1. \A i \in Draws : drawn'[i] = n => ~Last(i)'
        BY <1>2 DEF Last
      <4> QED BY <1>0, <1>2, <4>1
    <3> QED BY <1>0, <1>4, <2>2, <3>1, <3>2, <3>3, <3>4 DEF CmdClean, Posting, Sending
  <2> QED BY <2>1, <2>3, <2>6, <2>7 DEF CleanInv
<1> QED BY <1>4, <1>8, <1>9, <1>10, <1>11 DEF ReportInv, Only

\* The old file goes when the new one is there.
LEMMA UnlinkStep == ASSUME ReportsSized, ReportInv, NEW c \in Command, P!Unlink(c) PROVE ReportInv'
<1>0. cli[c].pc = "unlink" /\ DOMAIN drawn = Draws /\ file' = [file EXCEPT ![cli[c].id] = P!NoFile]
      /\ UNCHANGED <<asks, stash, about, saved, drawn, held, clean>>
  BY DEF P!Unlink, ReportInv, Texts, Draws
<1> PICK i0 \in P!Id, n \in Nat : i0 = cli[c].id /\ n = cli[c].rec.n
  BY <1>0, WriterIs DEF Sending
<1>1. /\ cli[c] \in Commands /\ i0 \in Draws /\ n = drawn[i0] /\ n \in saved /\ ~cli[c].rec.sent /\ held[i0] # 0
      /\ \A s \in cli[c].left : s[1] \in P!Id /\ s[1] \in Draws /\ s[2].n = drawn[s[1]] /\ s[2].n \in saved /\ ~s[2].sent
  <2>1. held[cli[c].id] # 0
    BY <1>0 DEF ReportInv, Named, Cmd
  <2> QED BY <1>0, <2>1, WriterIs DEF Sending
<1>p. PICK k \in Draws : /\ drawn[k] = n /\ Last(k)
                         /\ P!Go(c, [cli[c] EXCEPT !.pc = "send", !.id = k, !.again = FALSE])
  BY <1>0 DEF P!Unlink, Last
<1>2. k \in P!Id /\ k \in 0 .. MaxIds /\ drawn[k] = n /\ Last(k)
  BY <1>p, Shapes DEF P!Id, ReportsSized
<1>3. /\ Only(c) /\ cli'[c].pc = "send" /\ cli'[c].id = k /\ cli'[c].rec = cli[c].rec /\ cli'[c].left = cli[c].left
  <2> PICK old \in Commands : old = cli[c]
    BY <1>1
  <2> DEFINE x == [old EXCEPT !.pc = "send", !.id = k, !.again = FALSE]
  <2>1. x.pc = "send" /\ x.id = k /\ x.rec = old.rec /\ x.left = old.left /\ x \in Commands
    BY <1>2 DEF Commands, Sending
  <2>2. P!Go(c, x)
    BY <1>p
  <2> HIDE DEF x
  <2> QED BY <2>1, <2>2, CliIs DEF ReportInv
<1>4. /\ file' \in [P!Id -> P!Records] /\ file'[i0] = P!NoFile /\ \A i \in P!Id \ {i0} : file'[i] = file[i]
  BY <1>0, IdleIs DEF ReportInv, Stored
<1>5. Grows
  BY <1>0, Shapes DEF Grows
<1>6. Cmd(c)'
  BY <1>0, <1>1, <1>2, <1>3 DEF Cmd, Draws, Posting, Sending
<1>7. Named'
  BY <1>0, <1>3, <1>4, <1>5, <1>6, FileKept, HeldKept, NamedStep
<1>8. P!KeptUntilIn'
  <2>1. \A i \in P!Id : file'[i].n = file[i].n \/ held'[i] # 0
    BY <1>0, <1>1, <1>4
  <2> QED BY <1>0, <1>5, <2>1, KeptStep
<1>9. Texts' /\ StashInv' /\ Stored'
  BY <1>0, <1>4 DEF ReportInv, Texts, StashInv, Stored, Draws
<1>10. ASSUME clean' PROVE CleanInv'
  <2>0. CleanInv /\ \A d \in Command \ {c} : cli[d].pc = "idle"
    BY <1>0, <1>10 DEF ReportInv, CleanInv, OneCommand
  <2>1. OneCommand' /\ \A d \in Command \ {c} : CmdClean(d)'
    BY <1>3, <2>0, SoloIs
  <2>2. Older' /\ \A i \in Draws : Last(i) => Last(i)'
    BY <1>0, <2>0 DEF CleanInv, Older, Draws, Last
  <2>3. \A i \in P!Id \ {i0} : file[i].n # 0 => i \in Draws /\ Last(i) /\ ~(file[i].attempts = 0 /\ held[i] > 0)
    BY <1>0, <2>0 DEF CleanInv, FileClean, Posting, ReportInv, Named, FileNamed
  <2>4. \A i \in P!Id : FileClean(i)'
    <3>1. FileClean(i0)'
      BY <1>4 DEF FileClean
    <3> QED BY <1>0, <1>4, <2>2, <2>3, <3>1 DEF FileClean
  <2>5. CmdClean(c)'
    <3>1. held[k] <= 0 /\ \A s \in cli[c].left : s[2].n # n
      <4>1. CmdClean(c)
        BY <2>0 DEF CleanInv
      <4> QED BY <1>0, <1>2, <4>1 DEF CmdClean
    <3>2. \A s \in cli[c].left : file[s[1]] = s[2] /\ s[2].n # 0 /\ s[1] # i0
      BY <1>0, <2>0 DEF CleanInv, CmdClean, Sending
    <3>3. \A s \in cli[c].left : file'[s[1]] = s[2] /\ s[2].n # 0 /\ s[1] # k
      BY <1>1, <1>2, <1>4, <3>1, <3>2
    <3> QED BY <1>0, <1>2, <1>3, <2>2, <3>1, <3>3 DEF CmdClean, Posting, Sending
  <2> QED BY <2>1, <2>2, <2>4, <2>5 DEF CleanInv
<1> QED BY <1>3, <1>7, <1>8, <1>9, <1>10 DEF ReportInv, Only

\* An answer of the network may be reported about, a local one may not.
LEMMA AskStep == ASSUME ReportsSized, ReportInv, P!Ask PROVE ReportInv'
<1> PICK where \in {"network", "local"} : P!Asked(where, where = "local")
  BY DEF P!Ask
<1>1. UNCHANGED <<about, saved, drawn, file, held, cli, clean>>
  BY DEF P!Asked
<1>2. /\ asks' = Append(asks, where) /\ asks' \in Seq({"network", "local"}) /\ Len(asks') = Len(asks) + 1
      /\ Len(asks) \in Nat /\ asks'[Len(asks')] = where /\ \A q \in 1 .. Len(asks) : asks'[q] = asks[q]
  BY DEF P!Asked, ReportInv, Texts
<1>3. stash' = stash \/ stash' = [q |-> Len(asks'), local |-> where = "local"]
  BY DEF P!Asked
<1>4. /\ stash' \in [q : Nat, local : BOOLEAN] /\ stash'.q <= Len(asks')
      /\ stash'.q # 0 => (stash'.local <=> asks'[stash'.q] = "local")
  <2>1. CASE stash' = stash
    <3>1. stash.q \in Nat /\ stash.q <= Len(asks) /\ (stash.q # 0 => (stash.local <=> asks[stash.q] = "local"))
      BY DEF ReportInv, Texts, StashInv
    <3>2. stash.q # 0 => asks'[stash.q] = asks[stash.q]
      BY <1>2, <3>1
    <3> QED BY <1>2, <2>1, <3>1, <3>2 DEF ReportInv, Texts
  <2>2. CASE stash' = [q |-> Len(asks'), local |-> where = "local"]
    <3>1. PICK home \in BOOLEAN : home = (where = "local")
      OBVIOUS
    <3>2. stash' = [q |-> Len(asks'), local |-> home]
      BY <2>2, <3>1
    <3>3. stash'.q = Len(asks') /\ stash'.local = home /\ stash' \in [q : Nat, local : BOOLEAN]
      BY <1>2, <3>2
    <3> QED BY <1>2, <3>1, <3>3
  <2> QED BY <1>3, <2>1, <2>2
<1>5. \A m \in 1 .. Len(about) : about[m] \in 1 .. Len(asks') /\ asks'[about[m]] = "network"
  <2>1. \A m \in 1 .. Len(about) : about[m] \in 1 .. Len(asks) /\ asks[about[m]] = "network"
    BY DEF ReportInv, Texts, StashInv
  <2> QED BY <1>2, <2>1
<1>6. Texts' /\ StashInv'
  BY <1>1, <1>2, <1>4, <1>5 DEF ReportInv, Texts, StashInv, Draws
<1>7. Grows
  BY <1>1, Shapes DEF Grows
<1>8. Named'
  BY <1>1, <1>7, FileKept, HeldKept, CmdKept DEF Named
<1>9. P!KeptUntilIn'
  BY <1>1, <1>7, KeptStep
<1>10. ASSUME clean' PROVE CleanInv'
  <2>0. CleanInv
    BY <1>1, <1>10 DEF ReportInv
  <2> QED BY <1>1, <2>0 DEF CleanInv, OneCommand, Older, FileClean, CmdClean, Last, Draws
<1> QED BY <1>1, <1>6, <1>8, <1>9, <1>10 DEF ReportInv, Stored

\* Nothing changes when nothing does.
LEMMA ReportStill == ASSUME ReportInv, UNCHANGED P!vars PROVE ReportInv'
<1>1. UNCHANGED <<asks, stash, about, saved, drawn, file, held, cli, clean>>
  BY DEF P!vars
<1>2. Texts' /\ Stored' /\ StashInv' /\ P!KeptUntilIn' /\ cli' \in [Command -> Commands]
  BY <1>1 DEF ReportInv, Texts, Stored, StashInv, P!KeptUntilIn, Draws
<1>3. Named'
  BY <1>1 DEF ReportInv, Named, FileNamed, HeldNamed, Cmd, Draws
<1>4. clean' => CleanInv'
  BY <1>1 DEF ReportInv, CleanInv, OneCommand, Older, FileClean, CmdClean, Last, Draws
<1> QED BY <1>2, <1>3, <1>4 DEF ReportInv

\* At the start nothing was asked, saved or sent.
LEMMA ReportInitIs == ASSUME ReportsSized, P!Init PROVE ReportInv
<1>1. /\ asks = <<>> /\ stash = P!Nothing /\ about = <<>> /\ saved = {} /\ drawn = <<>> /\ clean = TRUE
      /\ Len(asks) = 0 /\ Len(about) = 0 /\ Len(drawn) = 0 /\ Draws = {}
  BY DEF P!Init, Draws
<1>2. cli = [c \in Command |-> P!Idle] /\ file = [i \in P!Id |-> P!NoFile] /\ \A i \in P!Id : held[i] \in {P!Stranger, 0}
  BY DEF P!Init
<1>3. Texts /\ StashInv
  BY <1>1 DEF Texts, StashInv, ReportsSized
<1>4. Stored /\ cli \in [Command -> Commands]
  <2>1. held \in [P!Id -> P!Stranger .. MaxReports]
    BY DEF P!Init, ReportsSized
  <2>2. P!NoFile \in P!Records /\ P!Idle \in Commands
    BY IdleIs
  <2> HIDE DEF P!NoFile, P!Idle
  <2> QED BY <1>2, <2>1, <2>2 DEF Stored
<1>5. Named /\ P!KeptUntilIn
  <2>1. \A c \in Command : cli[c].pc = "idle" /\ cli[c].left = {}
    BY <1>2
  <2>2. \A i \in P!Id : file[i].n = 0 /\ ~file[i].sent
    BY <1>2
  <2>3. \A i \in P!Id : FileNamed(i) /\ HeldNamed(i)
    BY <1>2, <2>2 DEF FileNamed, HeldNamed
  <2>4. \A c \in Command : Cmd(c)
    BY <2>1 DEF Cmd, Sending, Posting
  <2> QED BY <1>1, <2>3, <2>4 DEF Named, P!KeptUntilIn
<1>6. CleanInv
  BY <1>1, <1>2 DEF CleanInv, OneCommand, Older, FileClean, CmdClean, Sending, Posting
<1> QED BY <1>3, <1>4, <1>5, <1>6 DEF ReportInv

\* Every step keeps the invariant.
LEMMA ReportStep == ASSUME ReportsSized, ReportInv, [P!Next]_P!vars PROVE ReportInv'
<1>1. CASE P!Ask
  BY <1>1, AskStep
<1>2. ASSUME NEW c \in Command, P!Work(c) PROVE ReportInv'
  BY <1>2, AgreeStep, NextOneStep, PostStep, WrittenStep, NewNameStep, UnlinkStep DEF P!Work
<1>3. ASSUME NEW c \in Command, P!Build(c) \/ P!Retry(c) \/ P!Decline(c) \/ P!SaveFails(c) \/ P!PostFails(c) \/ P!Kill(c)
      PROVE  ReportInv'
  BY <1>3, BuildStep, RetryStep, DeclineStep, PostStep, KillStep
<1>4. CASE UNCHANGED P!vars
  BY <1>4, ReportStill
<1> QED BY <1>1, <1>2, <1>3, <1>4 DEF P!Next

\* And it says what the run checks.
LEMMA ReportSays == ASSUME ReportsSized, ReportInv PROVE P!TypeOK /\ P!ReportsSound
<1>1. /\ DOMAIN drawn = 1 .. Len(drawn) /\ DOMAIN about = 1 .. Len(about) /\ 0 \notin saved
      /\ Len(drawn) \in Nat /\ Len(about) \in Nat /\ Len(asks) \in Nat
  BY Shapes DEF ReportInv, Texts
<1>2. P!TypeOK
  <2>1. \A n \in DOMAIN about : about[n] \in DOMAIN asks
    BY <1>1 DEF ReportInv, Texts
  <2>2. \A c \in Command : cli[c].rec \in P!Records
    BY Shapes DEF Commands
  <2>3. Len(drawn) \in 0 .. MaxIds /\ saved \subseteq DOMAIN about /\ stash.q \in 0 .. Len(asks) /\ stash.local \in BOOLEAN
    BY <1>1 DEF ReportInv, Texts, ReportsSized
  <2> QED BY <2>1, <2>2, <2>3 DEF P!TypeOK, ReportInv, Stored
<1>3. P!KeptUntilIn /\ P!SentIsIn
  BY DEF ReportInv, Named, FileNamed, P!SentIsIn
<1>4. P!OnlyAgreed
  <2> SUFFICES ASSUME NEW i \in P!Id, held[i] > 0 PROVE held[i] \in saved /\ asks[about[held[i]]] = "network"
    BY DEF P!OnlyAgreed
  <2>1. held[i] \in saved
    BY DEF ReportInv, Named, HeldNamed
  <2> QED BY <2>1 DEF ReportInv, Texts, StashInv
<1>5. ASSUME clean PROVE P!Once
  <2> SUFFICES ASSUME NEW i \in P!Id, NEW j \in P!Id, held[i] > 0, held[i] = held[j] PROVE i = j
    BY DEF P!Once
  <2>1. i \in Draws /\ j \in Draws /\ drawn[i] = drawn[j]
    BY DEF ReportInv, Named, HeldNamed
  <2>2. \A a, b \in Draws : a < b /\ drawn[a] = drawn[b] => held[a] = P!Stranger
    BY <1>5 DEF ReportInv, CleanInv, Older
  <2> QED BY <2>1, <2>2, Shapes
<1> QED BY <1>2, <1>3, <1>4, <1>5 DEF P!ReportsSound, P!OnceUndisturbed

\* A saved report stays on the disk until the gateway has answered for one of its ids, what is marked sent
\* is there, and only reports that were agreed to are: whatever is killed or lost, and whoever else has
\* taken an id.  While nothing is killed and commands take turns, none is there twice.
THEOREM ReportsKept == ASSUME ReportsSized PROVE P!Spec => [](P!TypeOK /\ P!ReportsSound)
<1>1. P!Init => ReportInv
  BY ReportInitIs
<1>2. ReportInv /\ [P!Next]_P!vars => ReportInv'
  BY ReportStep
<1>3. ReportInv => P!TypeOK /\ P!ReportsSound
  BY ReportSays
<1> QED BY <1>1, <1>2, <1>3, PTL DEF P!Spec

-----------------------------------------------------------------------------
(* The local API over the client's view of the network (Serve).            *)

CONSTANTS Streamed, Plain, Peer, AfterFront, Seed, SharedFront, MaxTokens, MaxChanges
VARIABLES addr, table, recent, given, work, kept, open, plans, out, reader, got, hung, cancelled, outcome,
          front, block, closing, changes

V == INSTANCE Serve WITH jobs <- given

ServeSized == /\ MaxTokens \in Nat /\ MaxChanges \in Nat /\ MaxMoves \in Nat
              /\ "close" \notin V!Request /\ AfterFront \subseteq Peer

Made == -1 .. MaxTokens
Waiting == {"plan", "replan", "adopt"}
Listing == SUBSET (Peer \X Nat)
Routes == [front : 0 .. 1, at : Listing]
ServeTypes ==
  /\ V!TypeOK /\ table \in [Peer -> Nat]
  /\ work \in [pc : {"idle", "decode", "end"} \cup Waiting, n : 0 .. MaxTokens, route : Routes]
  /\ plans \in Nat /\ kept \in [plan : 0 .. plans, route : Routes, at : Listing]
  /\ out \in [V!Request -> Seq(Made)] /\ outcome \in [V!Request -> Seq({"failed", "completed", "cancelled"})]
  /\ changes \in 0 .. MaxChanges /\ closing \in BOOLEAN
\* The transport that is kept stands for its route; one that was just built is beside it until it is adopted.
KeptInv ==
  /\ kept.plan # 0 => kept.route.at \subseteq kept.at
  /\ work.pc = "adopt" => kept.plan < plans /\ open = ({kept.plan} \ {0}) \cup {plans}
  /\ V!RunsOnItsPlan /\ V!NoLinksLeft
\* A request is given to the worker once, and nothing of it is made before its turn.
Places == 1 .. Len(given)
GivenInv ==
  /\ work.pc # "idle" => given # <<>> /\ given[1] # "close"
  /\ \A i, j \in Places : given[i] = given[j] => i = j
  /\ \A i \in Places : given[i] = "close" => closing
  /\ \A i \in Places : given[i] # "close" => reader[given[i]] # "new"
  /\ \A i \in Places : given[i] # "close" /\ (i > 1 \/ work.pc \in Waiting \cup {"idle"}) =>
                         out[given[i]] = <<>> /\ got[given[i]] = 0
  /\ \A r \in V!Request : reader[r] = "new" => out[r] = <<>> /\ got[r] = 0
  /\ work.pc \in Waiting => work.n = 0
\* What waits for a reader: the tokens that follow what it has; an error, or after that or the last token the end.
Follows(r) ==
  reader[r] = "reading" =>
    \A i \in 1 .. Len(out[r]) :
      \/ out[r][i] = V!ERROR
      \/ out[r][i] = got[r] + i
      \/ out[r][i] = V!END /\ (got[r] + i = MaxTokens + 1 \/ \E j \in 1 .. i - 1 : out[r][j] = V!ERROR)
Making(r) ==
  reader[r] = "reading" => /\ work.pc = "decode" => work.n = got[r] + Len(out[r])
                           /\ work.pc = "end" => \E i \in 1 .. Len(out[r]) : out[r][i] = V!ERROR
\* How a request ended, which it did once.
Told(r) == /\ reader[r] # "done" => outcome[r] = <<>> /\ r \notin cancelled
           /\ Len(outcome[r]) <= 1
           /\ outcome[r] = <<"completed">> => got[r] = MaxTokens
StreamInv == /\ \A r \in V!Request : Follows(r) /\ Told(r)
             /\ work.pc # "idle" => Making(given[1])
ServeInv == ServeTypes /\ KeptInv /\ GivenInv /\ StreamInv

USE DEF V!ERROR, V!END, V!Req, V!Put, V!net, V!world, V!readers, V!NoRoute, Waiting, Made

\* The request under way.
LEMMA TurnIs ==
  ASSUME ServeSized, ServeInv
  PROVE  /\ given \in Seq(V!Request \cup {"close"}) /\ Len(given) \in Nat
         /\ given # <<>> => 1 \in Places /\ given[1] = Head(given) /\ given[1] \in V!Request \cup {"close"}
         /\ work.pc # "idle" => 1 \in Places /\ Head(given) = given[1] /\ given[1] \in V!Request
  BY DEF ServeInv, ServeTypes, V!TypeOK, GivenInv, Places

\* A step of the network and of those who only look on.
LEMMA WorldStep ==
  ASSUME ServeSized, ServeInv, ServeTypes',
         UNCHANGED <<given, work, kept, open, plans, out, reader, got, cancelled, outcome, closing>>
  PROVE  ServeInv'
<1>1. KeptInv'
  BY DEF ServeInv, KeptInv, V!RunsOnItsPlan, V!NoLinksLeft
<1>2. GivenInv'
  BY DEF ServeInv, GivenInv, Places
<1>3. StreamInv'
  BY DEF ServeInv, StreamInv, Follows, Told, Making
<1> QED BY <1>1, <1>2, <1>3 DEF ServeInv

\* Peers that come and go, ticks, moves and readers that hang up change nothing of a request.
LEMMA OnlookerStep ==
  ASSUME ServeSized, ServeInv,
         \/ \E p \in Peer : V!Change(p) \/ V!Expire(p)
         \/ V!Tick \/ V!Move \/ UNCHANGED V!vars
         \/ \E r \in V!Request : V!Hangup(r)
  PROVE  ServeInv'
<1>1. UNCHANGED <<given, work, kept, open, plans, out, reader, got, cancelled, outcome, closing, front>>
  BY DEF V!Change, V!Expire, V!Tick, V!Move, V!Hangup, V!vars
<1>2. addr' \in [Peer -> 0 .. MaxChanges + 1] /\ changes' \in 0 .. MaxChanges
  <2>1. CASE \E p \in Peer : V!Change(p)
    <3> PICK p \in Peer : V!Change(p)
      BY <2>1
    <3>1. changes' \in 0 .. MaxChanges /\ changes' + 1 \in 0 .. MaxChanges + 1 /\ 0 \in 0 .. MaxChanges + 1
      BY DEF V!Change, ServeInv, ServeTypes, ServeSized
    <3>2. \E a \in {0, changes' + 1} : addr' = [addr EXCEPT ![p] = a]
      BY DEF V!Change
    <3>3. addr \in [Peer -> 0 .. MaxChanges + 1]
      BY DEF ServeInv, ServeTypes, V!TypeOK
    <3> QED BY <3>1, <3>2, <3>3
  <2>2. CASE UNCHANGED <<addr, changes>>
    BY <2>2 DEF ServeInv, ServeTypes, V!TypeOK
  <2> QED BY <2>1, <2>2 DEF V!Expire, V!Tick, V!Move, V!Hangup, V!vars
<1>3. table' \in [Peer -> 0 .. MaxChanges + 1]
  BY DEF V!Change, V!Expire, V!Tick, V!Move, V!Hangup, V!vars, ServeInv, ServeTypes, V!TypeOK, ServeSized
<1>4. block' \in 1 .. MaxMoves + 1
  BY DEF V!Change, V!Expire, V!Tick, V!Move, V!Hangup, V!vars, ServeInv, ServeTypes, V!TypeOK, ServeSized
<1>5. table' \in [Peer -> Nat]
  BY <1>3 DEF ServeSized
<1>6. ServeTypes'
  BY <1>1, <1>2, <1>3, <1>4, <1>5 DEF ServeInv, ServeTypes, V!TypeOK
<1> QED BY <1>1, <1>6, WorldStep

\* What a refresh leaves, and what a table lists.
LEMMA RefreshIs ==
  ASSUME ServeSized, ServeInv, NEW force \in BOOLEAN, V!Refresh(force)
  PROVE  table' \in [Peer -> 0 .. MaxChanges + 1] /\ table' \in [Peer -> Nat]
<1>1. table' \in [Peer -> 0 .. MaxChanges + 1]
  BY DEF V!Refresh, ServeInv, ServeTypes, V!TypeOK
<1> QED BY <1>1 DEF ServeSized

\* What a table lists are peers with addresses.
LEMMA ListedIs == ASSUME NEW t \in [Peer -> Nat], NEW ps, ps \subseteq Peer PROVE V!Listed(t, ps) \in Listing
  BY DEF V!Listed, Listing

\* The worker goes on with the request under way without making anything.
LEMMA WorkStep ==
  ASSUME ServeSized, ServeInv, work.pc # "idle", work'.pc \in Waiting \cup {"decode"}, ServeTypes', KeptInv',
         work.n = work'.n, work.pc \in Waiting \cup {"decode"},
         work'.pc \in Waiting => work.pc \in Waiting,
         UNCHANGED <<given, out, reader, got, cancelled, outcome, closing>>
  PROVE  ServeInv'
<1>1. GivenInv'
  BY DEF ServeInv, GivenInv, Places
<1>2. given[1] \in V!Request
  BY TurnIs
<1>3. Making(given[1])'
  <2>1. CASE work.pc \in Waiting
    <3>1. out[given[1]] = <<>> /\ got[given[1]] = 0 /\ work.n = 0
      BY <1>2, <2>1, TurnIs DEF ServeInv, GivenInv, ServeSized
    <3> QED BY <1>2, <2>1, <3>1 DEF Making
  <2>2. CASE work.pc = "decode"
    BY <2>2 DEF ServeInv, StreamInv, Making
  <2> QED BY <2>1, <2>2
<1>4. StreamInv'
  BY <1>3 DEF ServeInv, StreamInv, Follows, Told
<1> QED BY <1>1, <1>4 DEF ServeInv

\* A request that begins has nothing made for it yet.
LEMMA BeginStep == ASSUME ServeSized, ServeInv, V!Begin PROVE ServeInv'
<1>1. /\ work.pc = "idle" /\ given # <<>> /\ Head(given) # "close"
      /\ UNCHANGED <<addr, table, given, kept, open, plans, out, reader, got, cancelled, outcome, closing, front, block, changes>>
  BY DEF V!Begin
<1>2. given[1] # "close" /\ given[1] \in V!Request
  BY <1>1, TurnIs
<1>3. work' \in [pc : {"idle", "decode", "end"} \cup Waiting, n : 0 .. MaxTokens, route : Routes]
      /\ work'.pc = "plan" /\ work'.n = 0
  <2>1. work \in [pc : {"idle", "decode", "end"} \cup Waiting, n : 0 .. MaxTokens, route : Routes] /\ 0 \in 0 .. MaxTokens
        /\ work' = [work EXCEPT !.pc = "plan", !.n = 0]
    BY DEF V!Begin, ServeInv, ServeTypes, ServeSized
  <2> QED BY <2>1
<1>4. ServeTypes'
  BY <1>1, <1>3 DEF ServeInv, ServeTypes, V!TypeOK
<1>5. KeptInv'
  BY <1>1, <1>3 DEF ServeInv, KeptInv, V!RunsOnItsPlan, V!NoLinksLeft
<1>6. GivenInv'
  BY <1>1, <1>2, <1>3 DEF ServeInv, GivenInv, Places
<1>7. StreamInv'
  BY <1>1, <1>3 DEF ServeInv, StreamInv, Follows, Told, Making
<1> QED BY <1>4, <1>5, <1>6, <1>7 DEF ServeInv

\* An item made for the request under way.
LEMMA PutIs ==
  ASSUME ServeSized, ServeInv, NEW item \in Made, work.pc # "idle", V!Put(item)
  PROVE  /\ out' \in [V!Request -> Seq(Made)]
         /\ \A r \in V!Request \ {given[1]} : out'[r] = out[r]
         /\ Len(out[given[1]]) \in Nat /\ Len(out'[given[1]]) = Len(out[given[1]]) + 1
         /\ out'[given[1]][Len(out[given[1]]) + 1] = item
         /\ \A i \in 1 .. Len(out[given[1]]) : out'[given[1]][i] = out[given[1]][i]
<1> PICK r \in V!Request : r = given[1] /\ r = Head(given)
  BY TurnIs
<1>1. out \in [V!Request -> Seq(Made)] /\ out[r] \in Seq(Made)
  BY DEF ServeInv, ServeTypes
<1>2. out' = [out EXCEPT ![r] = Append(@, item)]
  OBVIOUS
<1> QED BY <1>1, <1>2

\* What follows still follows, with one item more.
LEMMA FollowsOn ==
  ASSUME ServeSized, ServeInv, NEW item \in Made, work.pc # "idle", V!Put(item), UNCHANGED <<reader, got>>,
         reader[given[1]] = "reading" =>
           \/ item = V!ERROR
           \/ item = got[given[1]] + Len(out[given[1]]) + 1
           \/ /\ item = V!END
              /\ \/ got[given[1]] + Len(out[given[1]]) = MaxTokens
                 \/ \E j \in 1 .. Len(out[given[1]]) : out[given[1]][j] = V!ERROR
  PROVE  \A r \in V!Request : Follows(r)'
<1> SUFFICES ASSUME NEW r \in V!Request PROVE Follows(r)'
  OBVIOUS
<1>0. Follows(r) /\ got[r] \in Nat
  BY DEF ServeInv, StreamInv, ServeTypes, V!TypeOK
<1>1. CASE r # given[1]
  BY <1>0, <1>1, PutIs DEF Follows
<1>2. CASE r = given[1]
  <2> PICK n \in Nat : n = Len(out[r])
    BY <1>2, PutIs
  <2>1. /\ Len(out'[r]) = n + 1 /\ out'[r][n + 1] = item /\ \A i \in 1 .. n : out'[r][i] = out[r][i]
    BY <1>2, PutIs
  <2> SUFFICES ASSUME reader[r] = "reading", NEW i \in 1 .. n + 1
               PROVE  \/ out'[r][i] = V!ERROR
                      \/ out'[r][i] = got[r] + i
                      \/ /\ out'[r][i] = V!END
                         /\ got[r] + i = MaxTokens + 1 \/ \E j \in 1 .. i - 1 : out'[r][j] = V!ERROR
    BY <2>1 DEF Follows
  <2>2. CASE i = n + 1
    <3>1. CASE item = V!END /\ \E j \in 1 .. n : out[r][j] = V!ERROR
      BY <2>1, <2>2, <3>1
    <3>2. CASE item = V!ERROR \/ item = got[r] + n + 1 \/ (item = V!END /\ got[r] + n = MaxTokens)
      <4> PICK g \in Nat : g = got[r]
        BY <1>0
      <4>1. out'[r][i] = item
        BY <2>1, <2>2
      <4>2. (item = g + n + 1 => item = g + i) /\ (g + n = MaxTokens => g + i = MaxTokens + 1)
        BY <2>2
      <4> QED BY <3>2, <4>1, <4>2
    <3> QED BY <1>2, <3>1, <3>2
  <2>3. CASE i \in 1 .. n
    <3>1. \A j \in 1 .. i - 1 : j \in 1 .. n
      BY <2>3
    <3> QED BY <1>0, <2>1, <2>3, <3>1 DEF Follows
  <2> QED BY <2>2, <2>3
<1> QED BY <1>1, <1>2

\* What the worker changes is of its type.
LEMMA TypesOn ==
  ASSUME ServeSized, ServeInv, table' \in [Peer -> 0 .. MaxChanges + 1],
         work' \in [pc : {"idle", "decode", "end"} \cup Waiting, n : 0 .. MaxTokens, route : Routes],
         plans' \in Nat, kept' \in [plan : 0 .. plans', route : Routes, at : Listing], open' \subseteq 1 .. plans',
         out' \in [V!Request -> Seq(Made)], given' \in Seq(V!Request \cup {"close"}), closing' \in BOOLEAN,
         UNCHANGED <<addr, reader, got, outcome, front, block, changes>>
  PROVE  ServeTypes'
<1>1. table' \in [Peer -> Nat]
  BY DEF ServeSized
<1> QED BY <1>1 DEF ServeInv, ServeTypes, V!TypeOK

\* What planning, or giving up, makes of the state.
LEMMA BestIs ==
  ASSUME ServeSized, ServeInv, table' \in [Peer -> Nat], UNCHANGED front
  PROVE  V!Best(table') \in Routes
<1>1. V!Listed(table', AfterFront) \in Listing /\ V!Listed(table', Peer \ AfterFront) \in Listing
  BY ListedIs DEF ServeSized
<1>2. front \in 0 .. 1
  BY DEF ServeInv, ServeTypes, V!TypeOK
<1> HIDE DEF Listing
<1> QED BY <1>1, <1>2 DEF V!Best, Routes

\* The worker ends with the request, having told the reader why.
LEMMA EndingStep ==
  ASSUME ServeSized, ServeInv, work.pc # "idle", V!Put(V!ERROR),
         table' \in [Peer -> 0 .. MaxChanges + 1], work' = [work EXCEPT !.pc = "end"],
         UNCHANGED <<addr, given, kept, open, plans, reader, got, cancelled, outcome, closing, front, block, changes>>,
         work.pc # "adopt"
  PROVE  ServeInv'
<1>1. V!ERROR \in Made
  BY DEF ServeSized
<1>2. work' \in [pc : {"idle", "decode", "end"} \cup Waiting, n : 0 .. MaxTokens, route : Routes] /\ work'.pc = "end"
  BY DEF ServeInv, ServeTypes
<1>3. out' \in [V!Request -> Seq(Made)] /\ given[1] \in V!Request /\ 1 \in Places
  BY <1>1, PutIs, TurnIs
<1>4. ServeTypes'
  <2>1. /\ plans \in Nat /\ kept \in [plan : 0 .. plans, route : Routes, at : Listing] /\ open \subseteq 1 .. plans
        /\ given \in Seq(V!Request \cup {"close"}) /\ closing \in BOOLEAN
    BY DEF ServeInv, ServeTypes, V!TypeOK
  <2> QED BY <1>2, <1>3, <2>1, TypesOn
<1>5. KeptInv'
  BY <1>2 DEF ServeInv, KeptInv, V!RunsOnItsPlan, V!NoLinksLeft
<1>6. GivenInv'
  <2>1. \A r \in V!Request \ {given[1]} : out'[r] = out[r]
    BY <1>1, PutIs
  <2>2. reader[given[1]] # "new"
    BY <1>3 DEF ServeInv, GivenInv
  <2>3. \A i \in Places : i > 1 => given[i] # given[1]
    BY <1>3 DEF ServeInv, GivenInv
  <2>4. \A i \in Places : given[i] \in V!Request \cup {"close"}
    BY TurnIs DEF Places
  <2> QED BY <1>2, <1>3, <2>1, <2>2, <2>3, <2>4 DEF ServeInv, GivenInv, Places
<1>7. StreamInv'
  <2>1. Making(given[1])'
    <3> PICK n \in Nat : n = Len(out[given[1]])
      BY <1>1, PutIs
    <3>1. Len(out'[given[1]]) = n + 1 /\ out'[given[1]][n + 1] = V!ERROR
      BY <1>1, PutIs
    <3> QED BY <1>2, <3>1 DEF Making
  <2>2. \A r \in V!Request : Follows(r)'
    BY <1>1, FollowsOn
  <2> QED BY <1>2, <2>1, <2>2 DEF ServeInv, StreamInv, Told
<1> QED BY <1>4, <1>5, <1>6, <1>7 DEF ServeInv

\* A plan that is made is the one transport beside the kept one; without any the request ends.
LEMMA PlanStep == ASSUME ServeSized, ServeInv, V!Plan PROVE ServeInv'
<1>1. /\ work.pc \in {"plan", "replan"}
      /\ UNCHANGED <<addr, given, kept, reader, got, cancelled, outcome, closing, front, block, changes>>
  BY DEF V!Plan
<1>2. table' \in [Peer -> 0 .. MaxChanges + 1] /\ table' \in [Peer -> Nat]
  <2>1. (work.pc = "replan") \in BOOLEAN
    OBVIOUS
  <2> QED BY <2>1, RefreshIs DEF V!Plan
<1>3. /\ work \in [pc : {"idle", "decode", "end"} \cup Waiting, n : 0 .. MaxTokens, route : Routes]
      /\ plans \in Nat /\ kept \in [plan : 0 .. plans, route : Routes, at : Listing] /\ open \subseteq 1 .. plans
      /\ given \in Seq(V!Request \cup {"close"}) /\ closing \in BOOLEAN /\ out \in [V!Request -> Seq(Made)]
  BY DEF ServeInv, ServeTypes, V!TypeOK
<1>4. CASE /\ work' = [work EXCEPT !.pc = "adopt", !.route = V!Best(table')]
           /\ plans' = plans + 1 /\ open' = open \cup {plans'} /\ UNCHANGED out
  <2>1. V!Best(table') \in Routes
    BY <1>1, <1>2, BestIs
  <2>2. work' \in [pc : {"idle", "decode", "end"} \cup Waiting, n : 0 .. MaxTokens, route : Routes]
        /\ work'.pc = "adopt" /\ work'.n = work.n
    BY <1>3, <1>4, <2>1
  <2>3. plans' \in Nat /\ kept' \in [plan : 0 .. plans', route : Routes, at : Listing] /\ open' \subseteq 1 .. plans'
        /\ kept.plan < plans'
    BY <1>1, <1>3, <1>4
  <2>4. ServeTypes'
    BY <1>1, <1>2, <1>3, <1>4, <2>2, <2>3, TypesOn
  <2>5. KeptInv'
    BY <1>1, <1>4, <2>2, <2>3 DEF ServeInv, KeptInv, V!RunsOnItsPlan, V!NoLinksLeft
  <2> QED BY <1>1, <1>4, <2>2, <2>4, <2>5, WorkStep
<1>5. CASE work' = [work EXCEPT !.pc = "replan"] /\ UNCHANGED <<plans, open, out>>
  <2>1. work' \in [pc : {"idle", "decode", "end"} \cup Waiting, n : 0 .. MaxTokens, route : Routes]
        /\ work'.pc = "replan" /\ work'.n = work.n
    BY <1>3, <1>5
  <2>2. ServeTypes'
    BY <1>1, <1>2, <1>3, <1>5, <2>1, TypesOn
  <2>3. KeptInv'
    BY <1>1, <1>5, <2>1 DEF ServeInv, KeptInv, V!RunsOnItsPlan, V!NoLinksLeft
  <2> QED BY <1>1, <1>5, <2>1, <2>2, <2>3, WorkStep
<1>6. CASE work' = [work EXCEPT !.pc = "end"] /\ V!Put(V!ERROR) /\ UNCHANGED <<plans, open>>
  BY <1>1, <1>2, <1>6, EndingStep
<1> QED BY <1>4, <1>5, <1>6 DEF V!Plan

\* Of the two one is kept, and the other shut down.
LEMMA AdoptStep == ASSUME ServeSized, ServeInv, V!Adopt PROVE ServeInv'
<1>1. /\ work.pc = "adopt" /\ work' = [work EXCEPT !.pc = "decode"]
      /\ UNCHANGED <<addr, table, given, plans, out, reader, got, cancelled, outcome, closing, front, block, changes>>
  BY DEF V!Adopt
<1>2. /\ work \in [pc : {"idle", "decode", "end"} \cup Waiting, n : 0 .. MaxTokens, route : Routes]
      /\ plans \in Nat /\ kept \in [plan : 0 .. plans, route : Routes, at : Listing] /\ open \subseteq 1 .. plans
      /\ given \in Seq(V!Request \cup {"close"}) /\ closing \in BOOLEAN /\ out \in [V!Request -> Seq(Made)]
      /\ table \in [Peer -> 0 .. MaxChanges + 1]
  BY DEF ServeInv, ServeTypes, V!TypeOK
<1>3. work' \in [pc : {"idle", "decode", "end"} \cup Waiting, n : 0 .. MaxTokens, route : Routes]
      /\ work'.pc = "decode" /\ work'.n = work.n /\ work'.route = work.route
  BY <1>1, <1>2
<1>4. kept.plan < plans /\ open = ({kept.plan} \ {0}) \cup {plans} /\ (kept.plan # 0 => kept.route.at \subseteq kept.at)
  BY <1>1 DEF ServeInv, KeptInv
<1>5. CASE kept.plan # 0 /\ kept.route = work.route /\ open' = open \ {plans} /\ UNCHANGED kept
  <2>1. open' = {kept.plan} \ {0} /\ open' \subseteq 1 .. plans
    BY <1>2, <1>4, <1>5
  <2>2. KeptInv'
    BY <1>3, <1>4, <1>5, <2>1 DEF KeptInv, V!RunsOnItsPlan, V!NoLinksLeft
  <2>3. ServeTypes'
    BY <1>1, <1>2, <1>3, <1>5, <2>1, TypesOn
  <2> QED BY <1>1, <1>3, <2>2, <2>3, WorkStep
<1>6. CASE open' = open \ {kept.plan} /\ kept' = [plan |-> plans, route |-> work.route, at |-> work.route.at]
  <2>1. open' = {plans} \ {0} /\ open' \subseteq 1 .. plans
    BY <1>2, <1>4, <1>6
  <2>2. work.route \in Routes /\ work.route.at \in Listing
    BY <1>2 DEF Routes
  <2>3. kept' \in [plan : 0 .. plans, route : Routes, at : Listing] /\ kept'.route = work.route /\ kept'.at = work.route.at
        /\ kept'.plan = plans
    BY <1>2, <1>6, <2>2
  <2>4. KeptInv'
    BY <1>3, <2>1, <2>3 DEF KeptInv, V!RunsOnItsPlan, V!NoLinksLeft
  <2>5. ServeTypes'
    BY <1>1, <1>2, <1>3, <2>1, <2>3, TypesOn
  <2> QED BY <1>1, <1>3, <2>4, <2>5, WorkStep
<1> QED BY <1>5, <1>6 DEF V!Adopt

\* Peers now listed for the window are added to the kept transport's.
LEMMA FreshStep == ASSUME ServeSized, ServeInv, V!Fresh PROVE ServeInv'
<1>1. /\ work.pc = "decode" /\ kept' = [kept EXCEPT !.at = @ \cup V!Listed(table', V!WindowOf(kept.route))]
      /\ UNCHANGED <<addr, given, work, open, plans, out, reader, got, cancelled, outcome, closing, front, block, changes>>
  BY DEF V!Fresh
<1>2. table' \in [Peer -> 0 .. MaxChanges + 1] /\ table' \in [Peer -> Nat]
  BY RefreshIs DEF V!Fresh
<1>3. /\ work \in [pc : {"idle", "decode", "end"} \cup Waiting, n : 0 .. MaxTokens, route : Routes]
      /\ plans \in Nat /\ kept \in [plan : 0 .. plans, route : Routes, at : Listing] /\ open \subseteq 1 .. plans
      /\ given \in Seq(V!Request \cup {"close"}) /\ closing \in BOOLEAN /\ out \in [V!Request -> Seq(Made)]
  BY DEF ServeInv, ServeTypes, V!TypeOK
<1>4. V!Listed(table', V!WindowOf(kept.route)) \in Listing
  <2>1. V!WindowOf(kept.route) \subseteq Peer
    BY DEF V!WindowOf, ServeSized
  <2> QED BY <1>2, <2>1, ListedIs
<1>5. kept' \in [plan : 0 .. plans, route : Routes, at : Listing] /\ kept'.plan = kept.plan /\ kept'.route = kept.route
      /\ kept.at \subseteq kept'.at
  <2> PICK more \in Listing : more = V!Listed(table', V!WindowOf(kept.route))
    BY <1>4
  <2>1. kept' = [kept EXCEPT !.at = kept.at \cup more] /\ kept.at \in Listing
    BY <1>1, <1>3
  <2>2. kept.at \cup more \in Listing
    BY <2>1 DEF Listing
  <2> QED BY <1>3, <2>1, <2>2
<1>6. KeptInv'
  BY <1>1, <1>5 DEF ServeInv, KeptInv, V!RunsOnItsPlan, V!NoLinksLeft
<1>7. ServeTypes'
  BY <1>1, <1>2, <1>3, <1>5, TypesOn
<1> QED BY <1>1, <1>6, <1>7, WorkStep

\* A token made is the one after those the reader has and those that wait for it.
LEMMA TokenStep == ASSUME ServeSized, ServeInv, V!Token PROVE ServeInv'
<1>1. /\ work.pc = "decode" /\ work.n < MaxTokens
      /\ UNCHANGED <<addr, table, given, kept, open, plans, reader, got, cancelled, outcome, closing, front, block, changes>>
  BY DEF V!Token
<1>2. /\ work \in [pc : {"idle", "decode", "end"} \cup Waiting, n : 0 .. MaxTokens, route : Routes]
      /\ plans \in Nat /\ kept \in [plan : 0 .. plans, route : Routes, at : Listing] /\ open \subseteq 1 .. plans
      /\ given \in Seq(V!Request \cup {"close"}) /\ closing \in BOOLEAN /\ out \in [V!Request -> Seq(Made)]
      /\ table \in [Peer -> 0 .. MaxChanges + 1]
  BY DEF ServeInv, ServeTypes, V!TypeOK
<1> PICK r \in V!Request : r = given[1] /\ r = Head(given)
  BY <1>1, TurnIs
<1>3. 1 \in Places /\ reader[r] # "new" /\ got[r] \in Nat
  BY <1>1, TurnIs DEF ServeInv, GivenInv, ServeTypes, V!TypeOK
<1>4. CASE r \in cancelled /\ work' = [work EXCEPT !.pc = "end"] /\ UNCHANGED out
  <2>1. reader[r] = "done"
    BY <1>4 DEF ServeInv, StreamInv, Told
  <2>2. work' \in [pc : {"idle", "decode", "end"} \cup Waiting, n : 0 .. MaxTokens, route : Routes] /\ work'.pc = "end"
    BY <1>2, <1>4
  <2>3. ServeTypes'
    BY <1>1, <1>2, <1>4, <2>2, TypesOn
  <2>4. KeptInv'
    BY <1>1, <1>4, <2>2 DEF ServeInv, KeptInv, V!RunsOnItsPlan, V!NoLinksLeft
  <2>5. GivenInv'
    BY <1>1, <1>4, <2>2 DEF ServeInv, GivenInv, Places
  <2>6. StreamInv'
    BY <1>1, <1>4, <2>1, <2>2 DEF ServeInv, StreamInv, Follows, Told, Making
  <2> QED BY <2>3, <2>4, <2>5, <2>6 DEF ServeInv
<1>5. CASE work' = [work EXCEPT !.n = @ + 1] /\ V!Put(work.n + 1)
  <2> PICK n \in Nat : n = work.n /\ n < MaxTokens
    BY <1>1, <1>2 DEF ServeSized
  <2>1. n + 1 \in Made /\ V!Put(n + 1) /\ n + 1 \in 0 .. MaxTokens
    BY <1>5 DEF ServeSized
  <2>2. work' \in [pc : {"idle", "decode", "end"} \cup Waiting, n : 0 .. MaxTokens, route : Routes] /\ work'.pc = "decode"
        /\ work'.n = n + 1 /\ work'.route = work.route
    BY <1>1, <1>2, <1>5, <2>1
  <2>3. out' \in [V!Request -> Seq(Made)] /\ \A q \in V!Request \ {r} : out'[q] = out[q]
    BY <1>1, <2>1, PutIs
  <2>4. ServeTypes'
    BY <1>1, <1>2, <2>2, <2>3, TypesOn
  <2>5. KeptInv'
    BY <1>1, <2>2 DEF ServeInv, KeptInv, V!RunsOnItsPlan, V!NoLinksLeft
  <2>6. GivenInv'
    <3>1. \A i \in Places : i > 1 => given[i] # r
      BY <1>3 DEF ServeInv, GivenInv
    <3>2. \A i \in Places : given[i] \in V!Request \cup {"close"}
      BY TurnIs DEF Places
    <3>3. \A q \in V!Request : reader[q] = "new" => out'[q] = <<>> /\ got[q] = 0
      BY <1>3, <2>3 DEF ServeInv, GivenInv
    <3>4. \A i \in Places : i > 1 /\ given[i] # "close" => out'[given[i]] = <<>> /\ got[given[i]] = 0
      BY <2>3, <3>1, <3>2 DEF ServeInv, GivenInv
    <3> QED BY <1>1, <2>2, <3>3, <3>4 DEF ServeInv, GivenInv, Places
  <2>7. reader[r] = "reading" => n = got[r] + Len(out[r])
    BY <1>1 DEF ServeInv, StreamInv, Making
  <2>8. Making(given[1])'
    <3>1. Len(out'[r]) = Len(out[r]) + 1 /\ Len(out[r]) \in Nat
      BY <1>1, <2>1, PutIs
    <3>2. (reader[r] = "reading")' => work'.n = got[r] + Len(out'[r])
      BY <1>1, <1>3, <2>2, <2>7, <3>1
    <3> QED BY <1>1, <2>2, <3>2 DEF Making
  <2>9. \A q \in V!Request : Follows(q)'
    BY <1>1, <2>1, <2>7, FollowsOn
  <2> QED BY <1>1, <2>2, <2>4, <2>5, <2>6, <2>8, <2>9 DEF ServeInv, StreamInv, Told
<1> QED BY <1>4, <1>5 DEF V!Token

\* A request that fails ends, with an error for its reader.
LEMMA FailsStep == ASSUME ServeSized, ServeInv, V!Fails PROVE ServeInv'
<1>1. table \in [Peer -> 0 .. MaxChanges + 1]
  BY DEF ServeInv, ServeTypes, V!TypeOK
<1> QED BY <1>1, EndingStep DEF V!Fails

\* The worker turns to what it was given next.
LEMMA NextGiven ==
  ASSUME ServeSized, ServeInv, given # <<>>, given' = Tail(given), UNCHANGED <<reader, got, closing>>, work'.pc = "idle",
         \A r \in V!Request \ {given[1]} : out'[r] = out[r],
         given[1] # "close" => reader[given[1]] # "new",
         work.pc = "idle" => UNCHANGED out
  PROVE  GivenInv' /\ given' \in Seq(V!Request \cup {"close"})
<1> PICK n \in Nat : n = Len(given) /\ n >= 1
  BY TurnIs
<1>1. Len(given') = n - 1 /\ (\A i \in 1 .. n - 1 : given'[i] = given[i + 1]) /\ given' \in Seq(V!Request \cup {"close"})
  BY TurnIs
<1>2. \A i \in 1 .. n - 1 : /\ i + 1 \in Places /\ i + 1 > 1 /\ given'[i] # given[1]
                            /\ given'[i] = given[i + 1] /\ given[i + 1] \in V!Request \cup {"close"}
  <2>1. \A i \in 1 .. n - 1 : i + 1 \in Places /\ i + 1 > 1 /\ i + 1 # 1
    BY DEF Places
  <2>2. 1 \in Places /\ \A i \in Places : given[i] \in V!Request \cup {"close"}
    BY TurnIs DEF Places
  <2> QED BY <1>1, <2>1, <2>2 DEF ServeInv, GivenInv
<1>3. \A i, j \in 1 .. n - 1 : given'[i] = given'[j] => i = j
  <2>1. \A i, j \in 1 .. n - 1 : i + 1 = j + 1 => i = j
    OBVIOUS
  <2> QED BY <1>2, <2>1 DEF ServeInv, GivenInv
<1>4. \A i \in 1 .. n - 1 : /\ given'[i] = "close" => closing
                            /\ given'[i] # "close" => reader[given'[i]] # "new" /\ out'[given'[i]] = <<>> /\ got[given'[i]] = 0
  BY <1>2 DEF ServeInv, GivenInv
<1>5. \A r \in V!Request : reader[r] = "new" => out'[r] = <<>> /\ got[r] = 0
  BY DEF ServeInv, GivenInv
<1>6. Places' = 1 .. n - 1
  BY <1>1 DEF Places
<1> QED BY <1>1, <1>3, <1>4, <1>5, <1>6 DEF GivenInv

\* A request ends with the last token, or after an error; its reader is told so last.
LEMMA ApiEnds == ASSUME ServeSized, ServeInv, V!End PROVE ServeInv'
<1>1. /\ work.pc = "end" \/ (work.pc = "decode" /\ work.n = MaxTokens)
      /\ V!Put(V!END) /\ given' = Tail(given) /\ work' = [work EXCEPT !.pc = "idle", !.route = V!NoRoute]
      /\ UNCHANGED <<addr, table, kept, open, plans, reader, got, cancelled, outcome, closing, front, block, changes>>
  BY DEF V!End
<1>2. /\ work \in [pc : {"idle", "decode", "end"} \cup Waiting, n : 0 .. MaxTokens, route : Routes]
      /\ plans \in Nat /\ kept \in [plan : 0 .. plans, route : Routes, at : Listing] /\ open \subseteq 1 .. plans
      /\ closing \in BOOLEAN /\ table \in [Peer -> 0 .. MaxChanges + 1]
  BY DEF ServeInv, ServeTypes, V!TypeOK
<1> PICK r \in V!Request : r = given[1] /\ r = Head(given)
  BY <1>1, TurnIs
<1>3. given # <<>> /\ reader[r] # "new" /\ got[r] \in Nat /\ V!END \in Made
  <2>0. given # <<>> /\ V!END \in Made
    <3>1. work.pc # "idle"
      BY <1>1
    <3>2. given # <<>>
      BY <3>1 DEF ServeInv, GivenInv
    <3>3. V!END \in Made
      BY DEF ServeSized
    <3> QED BY <3>2, <3>3
  <2>1. given # <<>> /\ 1 \in Places /\ V!END \in Made
    BY <2>0, TurnIs
  <2>2. got[r] \in Nat
    BY DEF ServeInv, ServeTypes, V!TypeOK
  <2>3. r # "close"
    BY DEF ServeSized
  <2> QED BY <2>1, <2>2, <2>3 DEF ServeInv, GivenInv
<1>4. out' \in [V!Request -> Seq(Made)] /\ (\A q \in V!Request \ {r} : out'[q] = out[q]) /\ Len(out[r]) \in Nat
  BY <1>1, <1>3, PutIs
<1>5. work' \in [pc : {"idle", "decode", "end"} \cup Waiting, n : 0 .. MaxTokens, route : Routes] /\ work'.pc = "idle"
  <2>1. V!NoRoute \in Routes
    BY DEF Routes, Listing
  <2> HIDE DEF V!NoRoute
  <2> QED BY <1>1, <1>2, <2>1
<1>6. GivenInv' /\ given' \in Seq(V!Request \cup {"close"})
  BY <1>1, <1>3, <1>4, <1>5, NextGiven
<1>7. ServeTypes'
  BY <1>1, <1>2, <1>4, <1>5, <1>6, TypesOn
<1>8. KeptInv'
  BY <1>1, <1>5 DEF ServeInv, KeptInv, V!RunsOnItsPlan, V!NoLinksLeft
<1>9. reader[r] = "reading" =>
        \/ got[r] + Len(out[r]) = MaxTokens
        \/ \E j \in 1 .. Len(out[r]) : out[r][j] = V!ERROR
  BY <1>1 DEF ServeInv, StreamInv, Making
<1>10. \A q \in V!Request : Follows(q)'
  BY <1>1, <1>3, <1>9, FollowsOn
<1> QED BY <1>1, <1>5, <1>6, <1>7, <1>8, <1>10 DEF ServeInv, StreamInv, Told

\* The backend that closes shuts its transport down.
LEMMA ApiShutsDown == ASSUME ServeSized, ServeInv, V!ShutDown PROVE ServeInv'
<1>1. /\ work.pc = "idle" /\ given # <<>> /\ Head(given) = "close" /\ given' = Tail(given)
      /\ kept' = [plan |-> 0, route |-> V!NoRoute, at |-> {}] /\ open' = open \ {kept.plan}
      /\ UNCHANGED <<addr, table, work, plans, out, reader, got, cancelled, outcome, closing, front, block, changes>>
  BY DEF V!ShutDown
<1>2. /\ work \in [pc : {"idle", "decode", "end"} \cup Waiting, n : 0 .. MaxTokens, route : Routes]
      /\ plans \in Nat /\ open \subseteq 1 .. plans /\ out \in [V!Request -> Seq(Made)]
      /\ closing \in BOOLEAN /\ table \in [Peer -> 0 .. MaxChanges + 1]
  BY DEF ServeInv, ServeTypes, V!TypeOK
<1>3. GivenInv' /\ given' \in Seq(V!Request \cup {"close"})
  <2>1. given[1] = "close"
    BY <1>1, TurnIs
  <2> QED BY <1>1, <2>1, NextGiven
<1>4. kept' \in [plan : 0 .. plans, route : Routes, at : Listing] /\ kept'.plan = 0
  <2>1. V!NoRoute \in Routes /\ {} \in Listing
    BY DEF Routes, Listing
  <2> HIDE DEF V!NoRoute
  <2> QED BY <1>1, <1>2, <2>1
<1>5. KeptInv'
  BY <1>1, <1>4 DEF ServeInv, KeptInv, V!RunsOnItsPlan, V!NoLinksLeft
<1>6. ServeTypes'
  BY <1>1, <1>2, <1>3, <1>4, TypesOn
<1> QED BY <1>1, <1>3, <1>5, <1>6 DEF ServeInv, StreamInv, Follows, Told, Making

-----------------------------------------------------------------------------
\* The handlers.

\* What is given is put behind the rest.
LEMMA GivenOn ==
  ASSUME ServeSized, ServeInv, NEW x \in V!Request \cup {"close"}, given' = Append(given, x), UNCHANGED <<work, out, got>>,
         x = "close" => closing' /\ ~closing /\ UNCHANGED reader,
         x # "close" => closing' = closing /\ reader[x] = "new" /\ reader' = [reader EXCEPT ![x] = "reading"]
  PROVE  GivenInv' /\ given' \in Seq(V!Request \cup {"close"}) /\ (given # <<>> => given'[1] = given[1])
<1> PICK n \in Nat : n = Len(given)
  BY TurnIs
<1>1. /\ Len(given') = n + 1 /\ given'[n + 1] = x /\ (\A i \in 1 .. n : given'[i] = given[i])
      /\ given' \in Seq(V!Request \cup {"close"}) /\ (given # <<>> => n >= 1)
  BY TurnIs
<1>2. reader \in [V!Request -> {"new", "reading", "done"}] /\ \A i \in Places : given[i] \in V!Request \cup {"close"}
  BY TurnIs DEF ServeInv, ServeTypes, V!TypeOK, Places
<1>3. \A r \in V!Request : reader'[r] = "new" => reader[r] = "new" /\ r # x
  <2>1. CASE x = "close"
    BY <2>1 DEF ServeSized
  <2>2. CASE x # "close"
    BY <1>2, <2>2
  <2> QED BY <2>1, <2>2
<1>4. \A i \in 1 .. n : given[i] # x
  BY DEF ServeInv, GivenInv, Places
<1>5. \A i, j \in 1 .. n + 1 : given'[i] = given'[j] => i = j
  <2>1. \A i \in 1 .. n + 1 : i \in 1 .. n \/ i = n + 1
    OBVIOUS
  <2> QED BY <1>1, <1>4, <2>1 DEF ServeInv, GivenInv, Places
<1>6. \A i \in 1 .. n + 1 : /\ given'[i] = "close" => closing'
                            /\ given'[i] # "close" => reader'[given'[i]] # "new"
                            /\ given'[i] # "close" /\ (i > 1 \/ work.pc \in Waiting \cup {"idle"}) =>
                                 out[given'[i]] = <<>> /\ got[given'[i]] = 0
  <2>1. x # "close" => reader'[x] # "new" /\ out[x] = <<>> /\ got[x] = 0
    BY <1>2 DEF ServeInv, GivenInv
  <2>2. CASE x = "close"
    BY <1>1, <2>2 DEF ServeInv, GivenInv, Places
  <2>3. CASE x # "close"
    <3>1. \A i \in 1 .. n : given[i] # "close" => reader'[given[i]] # "new"
      BY <1>2, <2>3 DEF ServeInv, GivenInv, Places
    <3> QED BY <1>1, <2>1, <2>3, <3>1 DEF ServeInv, GivenInv, Places
  <2> QED BY <2>2, <2>3
<1>7. work.pc # "idle" => given' # <<>> /\ given'[1] # "close"
  BY <1>1 DEF ServeInv, GivenInv
<1>8. Places' = 1 .. n + 1
  BY <1>1 DEF Places
<1> QED BY <1>1, <1>3, <1>5, <1>6, <1>7, <1>8 DEF ServeInv, GivenInv

\* A request that is posted is put behind the others, once.
LEMMA ApiPost == ASSUME ServeSized, ServeInv, NEW r \in V!Request, V!Post(r) PROVE ServeInv'
<1>1. /\ reader[r] = "new" /\ reader' = [reader EXCEPT ![r] = "reading"] /\ given' = Append(given, r)
      /\ UNCHANGED <<addr, table, work, kept, open, plans, out, got, cancelled, outcome, closing, front, block, changes>>
  BY DEF V!Post
<1>2. reader \in [V!Request -> {"new", "reading", "done"}] /\ r # "close"
  BY DEF ServeInv, ServeTypes, V!TypeOK, ServeSized
<1>3. GivenInv' /\ given' \in Seq(V!Request \cup {"close"}) /\ (given # <<>> => given'[1] = given[1])
  BY <1>1, <1>2, GivenOn
<1>4. reader'[r] = "reading" /\ (\A q \in V!Request \ {r} : reader'[q] = reader[q])
      /\ reader' \in [V!Request -> {"new", "reading", "done"}]
  BY <1>1, <1>2
<1>5. ServeTypes'
  BY <1>1, <1>3, <1>4 DEF ServeInv, ServeTypes, V!TypeOK
<1>6. KeptInv'
  BY <1>1 DEF ServeInv, KeptInv, V!RunsOnItsPlan, V!NoLinksLeft
<1>7. \A q \in V!Request : Follows(q)' /\ Told(q)'
  <2>1. Len(out[r]) = 0 /\ outcome[r] = <<>> /\ r \notin cancelled
    BY <1>1 DEF ServeInv, GivenInv, StreamInv, Told
  <2>2. Follows(r)' /\ Told(r)'
    BY <1>1, <1>4, <2>1 DEF Follows, Told
  <2> QED BY <1>1, <1>4, <2>2 DEF ServeInv, StreamInv, Follows, Told
<1>8. ASSUME work.pc # "idle" PROVE Making(given[1]) /\ given'[1] = given[1] /\ given[1] \in V!Request \ {r}
  <2>1. given # <<>> /\ given[1] \in V!Request /\ given[1] # "close" /\ 1 \in Places
    <3>1. given # <<>> /\ given[1] # "close"
      BY <1>8 DEF ServeInv, GivenInv
    <3> QED BY <1>8, <3>1, TurnIs
  <2>2. given[1] # r
    BY <1>1, <2>1 DEF ServeInv, GivenInv
  <2> QED BY <1>3, <1>8, <2>1, <2>2 DEF ServeInv, StreamInv
<1>9. work.pc # "idle" => Making(given[1])'
  BY <1>1, <1>4, <1>8 DEF Making
<1> QED BY <1>1, <1>3, <1>5, <1>6, <1>7, <1>9 DEF ServeInv, StreamInv

\* So is the end of the worker.
LEMMA ApiCloses == ASSUME ServeSized, ServeInv, V!Close PROVE ServeInv'
<1>1. /\ ~closing /\ closing' = TRUE /\ given' = Append(given, "close")
      /\ UNCHANGED <<addr, table, work, kept, open, plans, out, reader, got, cancelled, outcome, front, block, changes>>
  BY DEF V!Close
<1>2. GivenInv' /\ given' \in Seq(V!Request \cup {"close"}) /\ (given # <<>> => given'[1] = given[1])
  BY <1>1, GivenOn
<1>3. ServeTypes'
  BY <1>1, <1>2 DEF ServeInv, ServeTypes, V!TypeOK
<1>4. KeptInv'
  BY <1>1 DEF ServeInv, KeptInv, V!RunsOnItsPlan, V!NoLinksLeft
<1>5. work.pc # "idle" => Making(given[1])'
  <2>1. work.pc # "idle" => Making(given[1]) /\ given'[1] = given[1]
    BY <1>2, TurnIs DEF ServeInv, StreamInv, GivenInv
  <2> QED BY <1>1, <2>1 DEF Making
<1>6. \A q \in V!Request : Follows(q)' /\ Told(q)'
  BY <1>1 DEF ServeInv, StreamInv, Follows, Told
<1> QED BY <1>1, <1>2, <1>3, <1>4, <1>5, <1>6 DEF ServeInv, StreamInv

\* An item is taken: what the reader has grows by it, or the request ends.
LEMMA ApiTakes == ASSUME ServeSized, ServeInv, NEW r \in V!Request, V!Take(r) PROVE ServeInv'
<1>1. /\ reader[r] = "reading" /\ out[r] # <<>> /\ out' = [out EXCEPT ![r] = Tail(@)]
      /\ UNCHANGED <<addr, table, given, work, kept, open, plans, closing, front, block, changes>>
  BY DEF V!Take
<1>2. /\ out \in [V!Request -> Seq(Made)] /\ outcome \in [V!Request -> Seq({"failed", "completed", "cancelled"})]
      /\ reader \in [V!Request -> {"new", "reading", "done"}] /\ got \in [V!Request -> 0 .. MaxTokens]
      /\ outcome[r] = <<>> /\ r \notin cancelled /\ Follows(r)
  BY <1>1 DEF ServeInv, ServeTypes, V!TypeOK, StreamInv, Told
<1> PICK n \in Nat : n = Len(out[r]) /\ n >= 1
  BY <1>1, <1>2
<1> PICK g \in 0 .. MaxTokens : g = got[r]
  BY <1>2
<1> PICK item \in Made : item = Head(out[r]) /\ item = out[r][1]
  <2> HIDE DEF Made
  <2>1. out[r] \in Seq(Made) /\ out[r] # <<>>
    BY <1>1, <1>2
  <2>2. Head(out[r]) = out[r][1] /\ Head(out[r]) \in Made
    BY <2>1
  <2> QED BY <2>2
<1>3. /\ out' \in [V!Request -> Seq(Made)] /\ (\A q \in V!Request \ {r} : out'[q] = out[q])
      /\ Len(out'[r]) = n - 1 /\ \A i \in 1 .. n - 1 : out'[r][i] = out[r][i + 1]
  <2>0. out[r] \in Seq(Made) /\ out[r] # <<>> /\ n = Len(out[r])
    BY <1>1, <1>2
  <2> PICK q \in Seq(Made) : q = out[r] /\ q # <<>> /\ n = Len(q)
    BY <2>0
  <2>1. Tail(q) \in Seq(Made) /\ Len(Tail(q)) = n - 1 /\ \A i \in 1 .. n - 1 : Tail(q)[i] = q[i + 1]
    <3> HIDE DEF Made
    <3> QED OBVIOUS
  <2>2. out' = [out EXCEPT ![r] = Tail(q)]
    BY <1>1
  <2> PICK rest \in Seq(Made) : rest = Tail(q)
    BY <2>1
  <2>3. out' = [out EXCEPT ![r] = rest] /\ out'[r] = rest
    BY <1>2, <2>2
  <2>4. out' \in [V!Request -> Seq(Made)] /\ \A p \in V!Request \ {r} : out'[p] = out[p]
    <3> HIDE DEF Made
    <3> QED BY <1>2, <2>3
  <2> QED BY <2>1, <2>3, <2>4
<1>4. \/ item = V!ERROR
      \/ item = g + 1
      \/ item = V!END /\ g = MaxTokens
  <2>1. 1 \in 1 .. n /\ ~(\E j \in 1 .. 1 - 1 : out[r][j] = V!ERROR)
    OBVIOUS
  <2>2. \/ item = V!ERROR
        \/ item = g + 1
        \/ item = V!END /\ g + 1 = MaxTokens + 1
    BY <1>1, <1>2, <2>1 DEF Follows
  <2> QED BY <2>2 DEF ServeSized
<1>5. CASE item \in {V!ERROR, V!END} \/ (item > 0 /\ r \in hung)
  <2>1. \E what \in {"failed", "completed", "cancelled"} :
          V!Settle(r, "done", what) /\ got' = got /\ (what = "completed" => item = V!END)
    BY <1>5 DEF V!Take
  <2> PICK what \in {"failed", "completed", "cancelled"} :
          V!Settle(r, "done", what) /\ got' = got /\ (what = "completed" => item = V!END)
    BY <2>1
  <2>2. /\ reader' \in [V!Request -> {"new", "reading", "done"}] /\ reader'[r] = "done"
        /\ \A q \in V!Request \ {r} : reader'[q] = reader[q]
    BY <1>2 DEF V!Settle
  <2>3. /\ outcome' \in [V!Request -> Seq({"failed", "completed", "cancelled"})] /\ outcome'[r] = <<what>>
        /\ \A q \in V!Request \ {r} : outcome'[q] = outcome[q]
    <3>1. outcome' = [outcome EXCEPT ![r] = Append(outcome[r], what)]
      BY DEF V!Settle
    <3>2. Append(outcome[r], what) = <<what>> /\ <<what>> \in Seq({"failed", "completed", "cancelled"})
      BY <1>2
    <3> QED BY <1>2, <3>1, <3>2
  <2>4. cancelled' = cancelled \cup {r}
    BY DEF V!Settle
  <2>5. ServeTypes'
    BY <1>1, <1>3, <2>2, <2>3 DEF ServeInv, ServeTypes, V!TypeOK
  <2>6. KeptInv'
    BY <1>1 DEF ServeInv, KeptInv, V!RunsOnItsPlan, V!NoLinksLeft
  <2>7. GivenInv'
    <3>1. \A q \in V!Request : out[q] = <<>> => q # r /\ out'[q] = <<>>
      BY <1>1, <1>3
    <3>2. \A q \in V!Request : reader'[q] = "new" => reader[q] = "new" /\ q # r
      BY <1>1, <2>2
    <3>3. \A i \in Places : given[i] \in V!Request \cup {"close"}
      BY TurnIs DEF Places
    <3>4. \A i \in Places : given[i] # "close" => reader'[given[i]] # "new"
      BY <3>2, <3>3 DEF ServeInv, GivenInv
    <3> QED BY <1>1, <3>1, <3>2, <3>3, <3>4 DEF ServeInv, GivenInv, Places
  <2>8. Told(r)' /\ Follows(r)'
    <3>1. Len(<<what>>) = 1 /\ (<<what>> = <<"completed">> => what = "completed")
      OBVIOUS
    <3>2. what = "completed" => g = MaxTokens
      BY <1>4
    <3> QED BY <2>2, <2>3, <3>1, <3>2 DEF Told, Follows
  <2>9. \A q \in V!Request : Told(q)' /\ Follows(q)'
    <3> SUFFICES ASSUME NEW q \in V!Request, q # r PROVE Told(q)' /\ Follows(q)'
      BY <2>8
    <3>1. Told(q)'
      BY <2>2, <2>3, <2>4 DEF ServeInv, StreamInv, Told
    <3>2. out'[q] = out[q] /\ reader'[q] = reader[q] /\ got'[q] = got[q] /\ Follows(q)
      BY <1>3, <2>2 DEF ServeInv, StreamInv
    <3>3. Follows(q)'
      BY <3>2 DEF Follows
    <3> QED BY <3>1, <3>3
  <2>10. work.pc # "idle" => Making(given[1])'
    BY <1>1, <1>3, <2>2, TurnIs DEF ServeInv, StreamInv, Making
  <2> QED BY <1>1, <2>5, <2>6, <2>7, <2>9, <2>10 DEF ServeInv, StreamInv
<1>6. CASE item = g + 1 /\ r \notin hung
  <2>1. got' = [got EXCEPT ![r] = item] /\ UNCHANGED <<reader, outcome, cancelled>>
    BY <1>6 DEF V!Take
  <2>2. item \in 0 .. MaxTokens
    BY <1>6 DEF ServeSized
  <2>3. got' \in [V!Request -> 0 .. MaxTokens] /\ got'[r] = g + 1 /\ \A q \in V!Request \ {r} : got'[q] = got[q]
    BY <1>2, <1>6, <2>1, <2>2
  <2>4. ServeTypes'
    BY <1>1, <1>3, <2>1, <2>3 DEF ServeInv, ServeTypes, V!TypeOK
  <2>5. KeptInv'
    BY <1>1 DEF ServeInv, KeptInv, V!RunsOnItsPlan, V!NoLinksLeft
  <2>6. GivenInv'
    <3>1. \A q \in V!Request : out[q] = <<>> /\ got[q] = 0 => out'[q] = <<>> /\ got'[q] = 0
      BY <1>1, <1>3, <2>3
    <3>2. \A i \in Places : given[i] \in V!Request \cup {"close"}
      BY TurnIs DEF Places
    <3> QED BY <1>1, <2>1, <3>1, <3>2 DEF ServeInv, GivenInv, Places
  <2>7. Follows(r)'
    <3> SUFFICES ASSUME NEW i \in 1 .. n - 1
                 PROVE  \/ out'[r][i] = V!ERROR
                        \/ out'[r][i] = g + 1 + i
                        \/ /\ out'[r][i] = V!END
                           /\ g + 1 + i = MaxTokens + 1 \/ \E j \in 1 .. i - 1 : out'[r][j] = V!ERROR
      BY <1>3, <2>3 DEF Follows
    <3>0. i + 1 \in 1 .. n
      OBVIOUS
    <3> PICK k \in 1 .. n : k = i + 1
      BY <3>0
    <3>1. out'[r][i] = out[r][k]
      BY <1>3
    <3>2. \/ out[r][k] = V!ERROR
          \/ out[r][k] = g + k
          \/ out[r][k] = V!END /\ (g + k = MaxTokens + 1 \/ \E j \in 1 .. k - 1 : out[r][j] = V!ERROR)
      BY <1>1, <1>2 DEF Follows
    <3>3. g + k = g + 1 + i
      <4>1. MaxTokens \in Nat
        BY DEF ServeSized
      <4>2. g \in Nat
        BY <4>1
      <4>3. \A a, b \in Nat : a + (b + 1) = a + 1 + b
        OBVIOUS
      <4>4. i \in Nat
        OBVIOUS
      <4>5. g + (i + 1) = g + 1 + i
        BY <4>2, <4>3, <4>4
      <4> QED BY <4>5, Zenon
    <3>4. ASSUME NEW j \in 1 .. k - 1, out[r][j] = V!ERROR PROVE \E l \in 1 .. i - 1 : out'[r][l] = V!ERROR
      <4>1. j # 1
        BY <1>6, <3>4
      <4>2. j - 1 \in 1 .. i - 1 /\ j - 1 \in 1 .. n - 1 /\ (j - 1) + 1 = j
        BY <4>1
      <4>3. out'[r][j - 1] = out[r][j]
        BY <1>3, <4>2
      <4> QED BY <3>4, <4>2, <4>3
    <3> QED BY <3>1, <3>2, <3>3, <3>4
  <2>8. Told(r)'
    BY <1>2, <2>1 DEF Told
  <2>9. \A q \in V!Request : Told(q)' /\ Follows(q)'
    <3> SUFFICES ASSUME NEW q \in V!Request, q # r PROVE Told(q)' /\ Follows(q)'
      BY <2>7, <2>8
    <3>1. Told(q)'
      BY <2>1, <2>3 DEF ServeInv, StreamInv, Told
    <3>2. out'[q] = out[q] /\ reader'[q] = reader[q] /\ got'[q] = got[q] /\ Follows(q)
      BY <1>3, <2>1, <2>3 DEF ServeInv, StreamInv
    <3>3. Follows(q)'
      BY <3>2 DEF Follows
    <3> QED BY <3>1, <3>3
  <2>10. work.pc # "idle" => Making(given[1])'
    <3>1. CASE given[1] # r
      BY <1>1, <1>3, <2>1, <2>3, <3>1, TurnIs DEF ServeInv, StreamInv, Making
    <3>2. CASE given[1] = r /\ work.pc # "idle"
      <4>1. work.pc = "decode" => work.n = g + n
        BY <1>1, <3>2 DEF ServeInv, StreamInv, Making
      <4>2. work.pc = "decode" => work.n = got'[r] + Len(out'[r])
        <5>1. got'[r] = g + 1
          BY <2>3
        <5>2. Len(out'[r]) = n - 1
          BY <1>3
        <5>3. (g + 1) + (n - 1) = g + n
          OBVIOUS
        <5> QED BY <4>1, <5>1, <5>2, <5>3
      <4>3. work.pc = "end" => \E i \in 1 .. n - 1 : out'[r][i] = V!ERROR
        <5> SUFFICES ASSUME work.pc = "end" PROVE \E i \in 1 .. n - 1 : out'[r][i] = V!ERROR
          OBVIOUS
        <5> PICK i \in 1 .. n : out[r][i] = V!ERROR
          BY <1>1, <3>2 DEF ServeInv, StreamInv, Making
        <5>1. i # 1
          BY <1>6
        <5>2. i - 1 \in 1 .. n - 1 /\ (i - 1) + 1 = i
          BY <5>1
        <5>3. out'[r][i - 1] = out[r][i]
          BY <1>3, <5>2
        <5> QED BY <5>2, <5>3
      <4> QED BY <1>1, <1>3, <3>2, <4>2, <4>3 DEF Making
    <3> QED BY <3>1, <3>2
  <2> QED BY <1>1, <2>4, <2>5, <2>6, <2>9, <2>10 DEF ServeInv, StreamInv
<1>7. item = g + 1 => item > 0
  OBVIOUS
<1> QED BY <1>4, <1>5, <1>6, <1>7

\* At the start nothing is asked, planned or open.
LEMMA ServeInitIs == ASSUME ServeSized, V!Init PROVE ServeInv
<1>1. /\ addr = [p \in Peer |-> 1] /\ table = [p \in Peer |-> 0] /\ given = <<>> /\ open = {} /\ plans = 0
      /\ out = [r \in V!Request |-> <<>>] /\ reader = [r \in V!Request |-> "new"] /\ got = [r \in V!Request |-> 0]
      /\ cancelled = {} /\ outcome = [r \in V!Request |-> <<>>] /\ front \in 0 .. 1 /\ block = 1 /\ closing = FALSE
      /\ changes = 0
  BY DEF V!Init
<1>2. work = [pc |-> "idle", n |-> 0, route |-> V!NoRoute] /\ kept = [plan |-> 0, route |-> V!NoRoute, at |-> {}]
  BY DEF V!Init
<1>3. V!NoRoute \in Routes /\ {} \in Listing
  BY DEF Routes, Listing
<1> HIDE DEF V!NoRoute
<1>4. /\ work \in [pc : {"idle", "decode", "end"} \cup Waiting, n : 0 .. MaxTokens, route : Routes] /\ work.pc = "idle"
      /\ kept \in [plan : 0 .. plans, route : Routes, at : Listing] /\ kept.plan = 0 /\ work.n = 0
  BY <1>1, <1>2, <1>3 DEF ServeSized
<1>5. /\ addr \in [Peer -> 0 .. MaxChanges + 1] /\ table \in [Peer -> 0 .. MaxChanges + 1] /\ table \in [Peer -> Nat]
      /\ got \in [V!Request -> 0 .. MaxTokens] /\ block \in 1 .. MaxMoves + 1
  BY <1>1 DEF ServeSized
<1>6. out \in [V!Request -> Seq(Made)] /\ outcome \in [V!Request -> Seq({"failed", "completed", "cancelled"})]
      /\ given \in Seq(V!Request \cup {"close"}) /\ Len(given) = 0
  BY <1>1
<1>7. ServeTypes
  <2>1. open \subseteq 1 .. plans /\ plans \in Nat /\ changes \in 0 .. MaxChanges /\ closing \in BOOLEAN
    <3>1. open \subseteq 1 .. plans
      BY <1>1
    <3>2. 0 \in Nat /\ 0 \in 0 .. MaxChanges
      BY DEF ServeSized
    <3> QED BY <1>1, <3>1, <3>2
  <2>2. reader \in [V!Request -> {"new", "reading", "done"}] /\ front \in 0 .. 1
    BY <1>1
  <2>3. /\ work.pc \in {"idle", "plan", "replan", "adopt", "decode", "end"} /\ work.n \in 0 .. MaxTokens
        /\ kept.plan \in 0 .. plans
    BY <1>4, <2>1 DEF ServeSized
  <2> QED BY <1>4, <1>5, <1>6, <2>1, <2>2, <2>3 DEF ServeTypes, V!TypeOK
<1>8. KeptInv
  BY <1>1, <1>4 DEF KeptInv, V!RunsOnItsPlan, V!NoLinksLeft
<1>9. GivenInv
  BY <1>1, <1>4, <1>6 DEF GivenInv, Places
<1>10. StreamInv
  BY <1>1, <1>4 DEF StreamInv, Follows, Told
<1> QED BY <1>7, <1>8, <1>9, <1>10 DEF ServeInv

\* Every step keeps the invariant.
LEMMA ServeStep == ASSUME ServeSized, ServeInv, [V!Next]_V!vars PROVE ServeInv'
  BY OnlookerStep, BeginStep, PlanStep, AdoptStep, TokenStep, FreshStep, FailsStep, ApiEnds, ApiShutsDown, ApiPost,
     ApiCloses, ApiTakes DEF V!Next, V!Work

\* For any requests, peers and changes of address: a request runs on the route planned for it, no transport
\* but the kept one is left open, and an answer is counted once, as completed only when its reader has the
\* whole of it.
THEOREM ApiSound == ASSUME ServeSized PROVE V!Spec => [](V!TypeOK /\ V!ServeSound)
<1>1. V!Init => ServeInv
  BY ServeInitIs
<1>2. ServeInv /\ [V!Next]_V!vars => ServeInv'
  BY ServeStep
<1>3. ServeInv => V!TypeOK /\ V!ServeSound
  BY DEF ServeInv, ServeTypes, KeptInv, StreamInv, Told, V!ServeSound, V!CompleteIsWhole
<1> QED BY <1>1, <1>2, <1>3, PTL DEF V!Spec

-----------------------------------------------------------------------------
(* The files its weights are read from (Hub).                              *)

CONSTANTS Remote, Whole, Bridge, MaxSegment, Chunk, Retries, Attempts, MaxVersion
VARIABLES disk, flushed, at, fetching, written, todo, req, etag, attempts, hFaults, version

H == INSTANCE Hub WITH kept <- flushed, pc <- at, file <- fetching, done <- written, faults <- hFaults

HubSized == Len(Remote) \in Nat \ {0} /\ DOMAIN Remote = 1 .. Len(Remote)

\* What the hash of a whole file is for.
WholeExact == \A f \in H!File \cap Whole : disk.final[f] # <<>> => \E v \in 1 .. version : disk.final[f] = H!Image(f, v)

Finished(f) == Len(disk.final[f]) = H!Total(f)
HubShape ==
  /\ DOMAIN disk = {"part", "final", "index", "torn"} /\ disk = [x \in DOMAIN disk |-> disk[x]]
  /\ DOMAIN disk.final = H!File
  /\ fetching \in H!File /\ version \in Nat \ {0} /\ etag \in 1 .. version
\* The files before the one under way are there, and all of them once the index is to be written.
HubInv ==
  /\ HubShape /\ WholeExact
  /\ \A f \in 1 .. fetching - 1 : Finished(f)
  /\ at = "index" \/ disk.index => \A f \in H!File : Finished(f)

\* A step that finishes no file, and goes on with the one under way or begins again.
LEMMA HubStill ==
  ASSUME HubSized, HubInv, HubShape', disk'.final = disk.final, version <= version', fetching' \in {fetching, 1},
         at' # "index" \/ at = "index", disk'.index => disk.index \/ at = "index"
  PROVE  HubInv'
<1>1. \A f : Finished(f)' <=> Finished(f)
  BY DEF Finished
<1>2. WholeExact'
  <2>1. 1 .. version \subseteq 1 .. version'
    BY DEF HubInv, HubShape
  <2>2. \A f, v : H!Image(f, v)' = H!Image(f, v)
    BY DEF H!Image, H!Header, H!Bytes
  <2>3. H!File' = H!File
    BY DEF H!File
  <2> QED BY <2>1, <2>2, <2>3 DEF HubInv, WholeExact
<1>3. H!File' = H!File
  BY DEF H!File
<1>4. \A f \in 1 .. fetching' - 1 : f \in 1 .. fetching - 1
  BY DEF HubInv, HubShape, H!File
<1> QED BY <1>1, <1>2, <1>3, <1>4 DEF HubInv

\* The disk as it is, but for a part of a file and whether it is torn.
PartOnly == /\ DOMAIN disk' = DOMAIN disk /\ disk' = [x \in DOMAIN disk' |-> disk'[x]]
            /\ disk'.final = disk.final /\ disk'.index = disk.index
LEMMA PartOnlyIs ==
  ASSUME HubInv, NEW f, NEW part, NEW torn,
         \/ disk' = [disk EXCEPT !.part[f] = part]
         \/ disk' = [disk EXCEPT !.part[f] = part, !.torn = torn]
  PROVE  PartOnly
<1>0. DOMAIN disk = {"part", "final", "index", "torn"} /\ disk = [x \in DOMAIN disk |-> disk[x]]
  BY DEF HubInv, HubShape
<1> DEFINE other == [disk EXCEPT !.part[f] = part]
<1>1. /\ DOMAIN other = DOMAIN disk /\ other.final = disk.final /\ other.index = disk.index
      /\ other = [x \in DOMAIN other |-> other[x]]
  BY <1>0
<1>2. disk' = other \/ disk' = [other EXCEPT !.torn = torn]
  OBVIOUS
<1> HIDE DEF other
<1> QED BY <1>0, <1>1, <1>2 DEF PartOnly

\* A step that leaves the disk so, and does not go on to another file.
LEMMA PartStill ==
  ASSUME HubSized, HubInv, PartOnly \/ UNCHANGED disk, UNCHANGED version, etag' \in {etag, version},
         fetching' \in {fetching, 1}, at' # "index"
  PROVE  HubInv'
<1>1. HubShape' /\ disk'.final = disk.final /\ disk'.index = disk.index
  BY DEF HubSized, HubInv, HubShape, H!File, PartOnly
<1> QED BY <1>1, HubStill DEF HubInv, HubShape

\* An attempt that fails begins again with the first file, or is the last.
LEMMA FailsStill ==
  ASSUME HubSized, HubInv, H!AttemptFails, PartOnly \/ UNCHANGED disk, UNCHANGED version, etag' \in {etag, version}
  PROVE  HubInv'
<1>1. fetching' = 1 /\ at' # "index"
  BY DEF H!AttemptFails
<1> QED BY <1>1, PartStill

\* The file under way is there: the next one is begun, or the index.
LEMMA NextFileIs ==
  ASSUME HubSized, HubInv, H!NextFile, NEW c \in H!File, c = fetching, UNCHANGED version, etag' \in 1 .. version,
         DOMAIN disk' = {"part", "final", "index", "torn"}, disk' = [x \in DOMAIN disk' |-> disk'[x]],
         DOMAIN disk'.final = H!File, disk'.index = disk.index,
         \A f \in H!File : f # c => disk'.final[f] = disk.final[f],
         Len(disk'.final[c]) = H!Total(c), WholeExact'
  PROVE  HubInv'
<1> PICK n \in Nat \ {0} : n = Len(Remote) /\ H!File = 1 .. n
  BY DEF HubSized, H!File
<1>0. c \in 1 .. n
  OBVIOUS
<1>1. H!File' = H!File
  BY DEF H!File
<1>2. \A f \in H!File : Finished(f) \/ f = c => Finished(f)'
  BY DEF Finished
<1>3. \/ c = n /\ at' = "index" /\ fetching' = c
      \/ c # n /\ at' = "open" /\ fetching' = c + 1
  BY DEF H!NextFile
<1>4. HubShape'
  BY <1>1, <1>3 DEF HubInv, HubShape
<1>5. \A f \in 1 .. c : Finished(f)'
  <2>1. \A f \in 1 .. c : f \in H!File /\ (f = c \/ f \in 1 .. c - 1)
    OBVIOUS
  <2> QED BY <1>2, <2>1 DEF HubInv
<1>6. \A f \in 1 .. fetching' - 1 : Finished(f)'
  <2>1. \A f \in 1 .. fetching' - 1 : f \in 1 .. c
    BY <1>3
  <2> QED BY <1>5, <2>1
<1>7. at' = "index" \/ disk'.index => \A f \in H!File : Finished(f)'
  BY <1>2, <1>3, <1>5 DEF HubInv
<1> QED BY <1>1, <1>4, <1>6, <1>7 DEF HubInv

\* A file is begun, or was there.
LEMMA OpenStep == ASSUME HubSized, HubInv, H!Open PROVE HubInv'
<1>1. at = "open" /\ etag' = version /\ UNCHANGED version /\ etag' \in 1 .. version
  BY DEF H!Open, HubInv, HubShape
<1>2. CASE disk.final[fetching] # <<>> /\ Len(disk.final[fetching]) = H!Total(fetching)
  <2>1. H!NextFile /\ UNCHANGED disk
    BY <1>2 DEF H!Open
  <2>2. WholeExact'
    BY <1>1, <2>1 DEF HubInv, WholeExact, H!File, H!Image, H!Header, H!Bytes
  <2> PICK c \in H!File : c = fetching
    BY DEF HubInv, HubShape
  <2> QED BY <1>1, <1>2, <2>1, <2>2, NextFileIs DEF HubInv, HubShape
<1>3. CASE disk.final[fetching] # <<>> /\ Len(disk.final[fetching]) # H!Total(fetching)
  <2>1. H!AttemptFails /\ UNCHANGED disk
    BY <1>3 DEF H!Open
  <2> QED BY <1>1, <2>1, FailsStill
<1>4. CASE disk.final[fetching] = <<>>
  <2>1. at' = "segment" /\ UNCHANGED fetching
        /\ \E part, torn : disk' = [disk EXCEPT !.part[fetching] = part, !.torn = torn]
    BY <1>4 DEF H!Open
  <2> QED BY <1>1, <2>1, PartStill, PartOnlyIs
<1> QED BY <1>2, <1>3, <1>4

\* What is not of the length of the file, or not of its hash, is not renamed.
LEMMA FinishStep == ASSUME HubSized, HubInv, H!Finish PROVE HubInv'
<1> DEFINE part == disk.part[fetching]
<1> PICK c \in H!File : c = fetching
  BY DEF HubInv, HubShape
<1>1. UNCHANGED <<version, etag>> /\ etag \in 1 .. version
  BY DEF H!Finish, HubInv, HubShape
<1>2. CASE Len(part) # H!Total(c) \/ (c \in Whole /\ part # H!Image(c, etag))
  <2>1. H!AttemptFails /\ (disk' = disk \/ disk' = [disk EXCEPT !.part[c] = <<>>])
    BY <1>2 DEF H!Finish
  <2> QED BY <1>1, <2>1, FailsStill, PartOnlyIs
<1>3. CASE Len(part) = H!Total(c) /\ (c \in Whole => part = H!Image(c, etag))
  <2>1. H!NextFile /\ disk' = [disk EXCEPT !.part[c] = <<>>, !.final[c] = part]
    BY <1>3 DEF H!Finish
  <2>2. /\ DOMAIN disk = {"part", "final", "index", "torn"} /\ disk = [x \in DOMAIN disk |-> disk[x]]
        /\ DOMAIN disk.final = H!File
    BY DEF HubInv, HubShape
  <2>3. /\ DOMAIN disk' = {"part", "final", "index", "torn"} /\ disk' = [x \in DOMAIN disk' |-> disk'[x]]
        /\ disk'.final = [disk.final EXCEPT ![c] = part] /\ disk'.index = disk.index
    BY <2>1, <2>2
  <2>4. /\ DOMAIN disk'.final = H!File /\ disk'.final[c] = part
        /\ \A f \in H!File : f # c => disk'.final[f] = disk.final[f]
    BY <2>2, <2>3
  <2>5. WholeExact'
    <3> SUFFICES ASSUME NEW f \in H!File \cap Whole, disk'.final[f] # <<>>
                 PROVE  \E v \in 1 .. version : disk'.final[f] = H!Image(f, v)
      BY <1>1 DEF WholeExact, H!File, H!Image, H!Header, H!Bytes
    <3>1. CASE f = c
      BY <1>1, <1>3, <2>4, <3>1
    <3>2. CASE f # c
      BY <2>4, <3>2 DEF HubInv, WholeExact
    <3> QED BY <3>1, <3>2
  <2> QED BY <1>1, <1>3, <2>1, <2>3, <2>4, <2>5, NextFileIs
<1> QED BY <1>2, <1>3

\* The process is killed: a beginning of the part is left.
LEMMA HubKill == ASSUME HubSized, HubInv, H!Kill PROVE HubInv'
<1>1. at' = "failed" /\ UNCHANGED <<version, etag, fetching>>
  BY DEF H!Kill
<1>2. disk' = disk \/ \E part : disk' = [disk EXCEPT !.part[fetching] = part]
  BY DEF H!Kill
<1> QED BY <1>1, <1>2, PartStill, PartOnlyIs

\* The index is written when every file is there.
LEMMA IndexStep == ASSUME HubSized, HubInv, H!WriteIndex PROVE HubInv'
<1>1. at = "index" /\ at' = "ready" /\ disk' = [disk EXCEPT !.index = TRUE] /\ UNCHANGED <<version, etag, fetching>>
  BY DEF H!WriteIndex
<1>2. HubShape' /\ disk'.final = disk.final
  BY <1>1 DEF HubInv, HubShape, H!File
<1> QED BY <1>1, <1>2, HubStill DEF HubInv, HubShape

\* Every step keeps the invariant.
LEMMA HubStep == ASSUME HubSized, HubInv, [H!Next]_H!vars PROVE HubInv'
<1>1. CASE UNCHANGED H!vars
  <2>1. UNCHANGED <<disk, at, fetching, version, etag>>
    BY <1>1 DEF H!vars
  <2>2. HubShape'
    BY <2>1 DEF HubInv, HubShape, H!File
  <2> QED BY <2>1, <2>2, HubStill DEF HubInv, HubShape
<1>2. CASE H!NoSpace \/ H!NextSegment \/ H!Request \/ H!Again
  <2>1. UNCHANGED <<disk, version, etag>> /\ fetching' \in {fetching, 1} /\ at' # "index"
    BY <1>2 DEF H!NoSpace, H!NextSegment, H!Request, H!AttemptFails, H!Again
  <2> QED BY <2>1, PartStill
<1>3. CASE H!RangeIgnored
  BY <1>3, FailsStill DEF H!RangeIgnored
<1>4. CASE H!Break
  <2>1. UNCHANGED <<disk, version, etag>>
    BY <1>4 DEF H!Break
  <2>2. CASE at' = "request" /\ UNCHANGED fetching
    BY <2>1, <2>2, PartStill
  <2>3. CASE H!AttemptFails
    BY <2>1, <2>3, FailsStill
  <2> QED BY <1>4, <2>2, <2>3 DEF H!Break, H!TriesFrom
<1>5. CASE H!Read
  <2>1. /\ UNCHANGED <<version, etag, fetching>> /\ at' # "index"
        /\ \E part, torn : disk' = [disk EXCEPT !.part[fetching] = part, !.torn = torn]
    BY <1>5 DEF H!Read
  <2> QED BY <2>1, PartStill, PartOnlyIs
<1>7. CASE H!WriteFails
  <2>1. /\ UNCHANGED <<version, etag>>
        /\ \E part, torn : disk' = [disk EXCEPT !.part[fetching] = part, !.torn = torn]
    BY <1>7 DEF H!WriteFails
  <2>2. (at' = "request" /\ UNCHANGED fetching) \/ H!AttemptFails
    BY <1>7 DEF H!WriteFails, H!TriesFrom
  <2>3. CASE at' = "request" /\ UNCHANGED fetching
    BY <2>1, <2>3, PartStill, PartOnlyIs
  <2>4. CASE H!AttemptFails
    BY <2>1, <2>4, FailsStill, PartOnlyIs
  <2> QED BY <2>2, <2>3, <2>4
<1>6. CASE H!Publish
  <2>1. UNCHANGED <<disk, at, fetching, etag>> /\ version' = version + 1
    BY <1>6 DEF H!Publish
  <2>2. HubShape' /\ version <= version'
    BY <2>1 DEF HubInv, HubShape, H!File
  <2> QED BY <2>1, <2>2, HubStill DEF HubInv, HubShape
<1> QED BY <1>1, <1>2, <1>3, <1>4, <1>5, <1>6, <1>7, OpenStep, FinishStep, IndexStep, HubKill DEF H!Next, H!Fetch

\* Whatever is killed, broken, not written or published while files are fetched: the index is there only when every
\* file it names is, at its length, and a file whose hash is known is one the repository held.
THEOREM DownloadKept == ASSUME HubSized PROVE H!Spec => [](H!IndexMeansComplete /\ WholeExact)
<1>1. H!Init => HubInv
  <2> SUFFICES ASSUME H!Init PROVE HubInv
    OBVIOUS
  <2>1. /\ disk = [part |-> [f \in H!File |-> <<>>], final |-> [f \in H!File |-> <<>>], index |-> FALSE, torn |-> {}]
        /\ at = "open" /\ fetching = 1 /\ etag = 1 /\ version = 1
    BY DEF H!Init
  <2>2. 1 \in H!File
    BY DEF HubSized, H!File
  <2>3. HubShape /\ disk.final = [f \in H!File |-> <<>>] /\ disk.index = FALSE
    <3>1. /\ DOMAIN disk = {"part", "final", "index", "torn"} /\ disk = [x \in DOMAIN disk |-> disk[x]]
          /\ disk.final = [f \in H!File |-> <<>>] /\ disk.index = FALSE
      BY <2>1
    <3>2. DOMAIN disk.final = H!File
      BY <3>1
    <3> QED BY <2>1, <2>2, <3>1, <3>2 DEF HubShape
  <2>4. WholeExact
    BY <2>3 DEF WholeExact
  <2> QED BY <2>1, <2>3, <2>4 DEF HubInv
<1>2. HubInv /\ [H!Next]_H!vars => HubInv'
  BY HubStep
<1>3. HubInv => H!IndexMeansComplete /\ WholeExact
  BY DEF HubInv, Finished, H!IndexMeansComplete
<1> QED BY <1>1, <1>2, <1>3, PTL DEF H!Spec

-----------------------------------------------------------------------------
(* The runtime of `common join --legacy` (Runtime).                        *)

CONSTANTS Size, Tries
VARIABLES machine, candidates, part, fetched, tree, damaged, aside, current, meta, now, target, attempt, rFaults

U == INSTANCE Runtime WITH pc <- now, file <- target, faults <- rFaults

Fetching == {"fetch", "read", "finish"}
Building == {"unpack", "unpacking", "removing", "try"}
RuntimeInv ==
  /\ U!TypeOK /\ U!RuntimeSound
  /\ target \in U!Files /\ candidates \in {<<"latest", "pinned">>, <<"pinned">>, <<>>}
  /\ now \in {"start", "build", "model", "note", "ready", "failed"} \cup Fetching \cup Building
  /\ meta => fetched["model"] = "right"
  \* What is removed to make room was not whole, so `current` does not name it, or something took a part of it.
  /\ machine \in {"plain", "cuda"}
  /\ now \in {"unpacking", "removing"} /\ machine = "cuda" => tree[target] # U!Member
  /\ now = "removing" => aside = U!Member /\ machine = "cuda"
  \* A build is of a candidate that is still there.
  /\ now = "note" => fetched["model"] = "right"
  /\ now \in Building => target # "model"
  /\ now \in Fetching \cup Building /\ target # "model" => candidates # <<>>

USE DEF Fetching, Building, U!Files, U!Build, U!Member, U!Runnable, U!Fault, U!disk, U!NoPart, U!Current, U!Ready

\* What is left of the candidates.
LEMMA CandidatesAre ==
  ASSUME candidates \in {<<"latest", "pinned">>, <<"pinned">>, <<>>}, candidates # <<>>
  PROVE  /\ Tail(candidates) \in {<<"latest", "pinned">>, <<"pinned">>, <<>>}
         /\ Head(candidates) \in U!Build
<1>1. CASE candidates = <<"latest", "pinned">>
  <2>1. Tail(candidates) = <<"pinned">> /\ Head(candidates) = "latest"
    BY <1>1
  <2> QED BY <2>1
<1>2. CASE candidates = <<"pinned">>
  <2>1. Tail(candidates) = <<>> /\ Head(candidates) = "pinned"
    BY <1>2
  <2> QED BY <2>1
<1> QED BY <1>1, <1>2

\* A candidate that is given up loses its archive, and nothing else.
LEMMA GiveUpKeeps ==
  ASSUME Size \in Nat, RuntimeInv, now \in Fetching \cup Building, U!GiveUp, part' \in [U!Files -> [n : 0 .. Size, good : BOOLEAN]],
         UNCHANGED <<machine, tree, damaged, aside, current, meta, target>>
  PROVE  RuntimeInv'
<1>1. CASE target = "model"
  BY <1>1 DEF U!GiveUp, RuntimeInv, U!TypeOK, U!RuntimeSound
<1>2. CASE target # "model"
  <2>1. candidates' \in {<<"latest", "pinned">>, <<"pinned">>, <<>>} /\ now' = "build"
        /\ fetched' = [fetched EXCEPT ![target] = "none"]
    BY <1>2, CandidatesAre DEF U!GiveUp, RuntimeInv
  <2>2. /\ fetched' \in [U!Files -> {"none", "right", "wrong"}]
        /\ \A f \in U!Files : fetched'[f] = IF f = target THEN "none" ELSE fetched[f]
    BY <2>1 DEF RuntimeInv, U!TypeOK
  <2> QED BY <1>2, <2>1, <2>2 DEF RuntimeInv, U!TypeOK, U!RuntimeSound
<1> QED BY <1>1, <1>2

\* A download that is interrupted is tried again, or given up.
LEMMA InterruptedKeeps ==
  ASSUME Size \in Nat, RuntimeInv, now \in Fetching, U!Interrupted, UNCHANGED <<machine, part, tree, damaged, aside, current, meta, target>>
  PROVE  RuntimeInv'
<1>1. CASE U!GiveUp
  BY <1>1, GiveUpKeeps DEF RuntimeInv, U!TypeOK
<1>2. CASE now' = "fetch" /\ UNCHANGED <<candidates, fetched>>
  BY <1>2 DEF RuntimeInv, U!TypeOK, U!RuntimeSound
<1> QED BY <1>1, <1>2 DEF U!Interrupted

\* What is downloaded grows by what is read, right or wrong; a range that is ignored begins it anew.
LEMMA DownloadStep ==
  ASSUME Size \in Nat, RuntimeInv, U!Fetch \/ U!RangeIgnored \/ U!Read \/ U!EndsEarly \/ U!Unreachable \/ U!Break \/ U!NoDigest
  PROVE  RuntimeInv'
<1>0. part \in [U!Files -> [n : 0 .. Size, good : BOOLEAN]] /\ target \in U!Files
  BY DEF RuntimeInv, U!TypeOK
<1>1. CASE U!GiveUp /\ now \in Fetching /\ UNCHANGED <<machine, part, tree, damaged, aside, current, meta, target>>
  BY <1>0, <1>1, GiveUpKeeps
<1>2. ASSUME now \in Fetching, now' \in Fetching, part' \in [U!Files -> [n : 0 .. Size, good : BOOLEAN]],
             UNCHANGED <<machine, candidates, fetched, tree, damaged, aside, current, meta, target>>
      PROVE  RuntimeInv'
  BY <1>2 DEF RuntimeInv, U!TypeOK, U!RuntimeSound
<1>3. CASE U!Fetch
  BY <1>0, <1>1, <1>2, <1>3 DEF U!Fetch
<1>4. CASE U!RangeIgnored
  BY <1>0, <1>2, <1>4 DEF U!RangeIgnored
<1>5. CASE U!Read
  <2>1. \E good \in BOOLEAN : part' = [part EXCEPT ![target] = [n |-> part[target].n + 1, good |-> good]]
    BY <1>0, <1>5 DEF U!Read
  <2>2. part[target].n + 1 \in 0 .. Size
    BY <1>0, <1>5 DEF U!Read
  <2>3. part' \in [U!Files -> [n : 0 .. Size, good : BOOLEAN]]
    BY <1>0, <2>1, <2>2
  <2> QED BY <1>2, <1>5, <2>3 DEF U!Read
<1>6. CASE U!EndsEarly
  BY <1>0, <1>2, <1>6 DEF U!EndsEarly
<1>7. CASE U!Unreachable \/ U!Break
  BY <1>7, InterruptedKeeps DEF U!Unreachable, U!Break
<1>8. CASE U!NoDigest
  BY <1>1, <1>8 DEF U!NoDigest
<1> QED BY <1>3, <1>4, <1>5, <1>6, <1>7, <1>8

\* Only what matches gets the file's name.
LEMMA CheckedStep == ASSUME Size \in Nat, RuntimeInv, U!Finish PROVE RuntimeInv'
<1>1. /\ part' = [part EXCEPT ![target] = U!NoPart] /\ now = "finish"
      /\ UNCHANGED <<machine, tree, damaged, aside, current, meta, target>>
  BY DEF U!Finish
<1>2. part' \in [U!Files -> [n : 0 .. Size, good : BOOLEAN]]
  BY <1>1 DEF RuntimeInv, U!TypeOK
<1>3. CASE U!GiveUp
  BY <1>1, <1>2, <1>3, GiveUpKeeps
<1>4. CASE /\ fetched' = [fetched EXCEPT ![target] = "right"] /\ UNCHANGED candidates
           /\ now' = IF target = "model" THEN "note" ELSE "unpack"
  <2>1. /\ fetched' \in [U!Files -> {"none", "right", "wrong"}]
        /\ \A f \in U!Files : fetched'[f] = IF f = target THEN "right" ELSE fetched[f]
    BY <1>4 DEF RuntimeInv, U!TypeOK
  <2> QED BY <1>1, <1>2, <1>4, <2>1 DEF RuntimeInv, U!TypeOK, U!RuntimeSound
<1> QED BY <1>3, <1>4 DEF U!Finish

\* A build is unpacked to the end, aside or in place, before it is taken for installed.
LEMMA TreeStep ==
  ASSUME Size \in Nat, RuntimeInv, U!Unpack \/ U!UnpackMember \/ U!Unpacked \/ U!RemoveMember \/ U!MoveIn
  PROVE  RuntimeInv'
<1>1. /\ now \in Building /\ now' \in Building
      /\ UNCHANGED <<machine, part, fetched, candidates, current, meta, target>>
  BY DEF U!Unpack, U!UnpackMember, U!Unpacked, U!RemoveMember, U!MoveIn, U!Installed
<1>2. /\ tree \in [U!Build -> SUBSET U!Member] /\ target \in U!Build /\ aside \subseteq U!Member
      /\ damaged \subseteq U!Build /\ machine \in {"plain", "cuda"}
  BY <1>1 DEF RuntimeInv, U!TypeOK
<1>3. aside' \subseteq U!Member
  BY <1>2 DEF U!Unpack, U!UnpackMember, U!Unpacked, U!RemoveMember, U!MoveIn
<1>4. ASSUME NEW t \in SUBSET U!Member, tree' = [tree EXCEPT ![target] = t], damaged' \in {damaged, damaged \ {target}},
             target \in damaged' \/ t = U!Member \/ tree[target] # U!Member,
             damaged' = damaged \/ t = U!Member,
             now' \in {"unpacking", "removing"} /\ machine = "cuda" => t # U!Member,
             now' = "removing" => aside' = U!Member /\ machine = "cuda"
      PROVE  RuntimeInv'
  <2>1. /\ tree' \in [U!Build -> SUBSET U!Member] /\ tree'[target] = t /\ damaged' \subseteq U!Build
        /\ \A b \in U!Build \ {target} : tree'[b] = tree[b] /\ (b \in damaged' <=> b \in damaged)
    BY <1>2, <1>4
  <2>2. U!Current'
    BY <1>1, <1>2, <1>4, <2>1 DEF RuntimeInv, U!TypeOK, U!RuntimeSound
  <2>3. U!Ready'
    BY <1>1
  <2> QED BY <1>1, <1>3, <1>4, <2>1, <2>2, <2>3 DEF RuntimeInv, U!TypeOK, U!RuntimeSound
<1>5. [tree EXCEPT ![target] = tree[target]] = tree
  BY <1>2
<1>6. CASE U!Unpack
  BY <1>2, <1>4, <1>5, <1>6 DEF U!Unpack
<1>7. CASE U!UnpackMember
  <2>1. CASE machine = "plain"
    BY <1>2, <1>4, <1>7, <2>1 DEF U!UnpackMember
  <2>2. CASE machine = "cuda"
    BY <1>2, <1>4, <1>5, <1>7, <2>2 DEF U!UnpackMember, RuntimeInv
  <2> QED BY <1>2, <2>1, <2>2
<1>8. CASE U!Unpacked \/ U!MoveIn
  <2>1. CASE U!Installed /\ aside = U!Member
    BY <1>2, <1>4, <2>1 DEF U!Installed
  <2>2. CASE now' = "removing" /\ UNCHANGED <<tree, damaged>>
    BY <1>2, <1>4, <1>5, <1>8, <2>2 DEF U!Unpacked, U!MoveIn, U!Installed, RuntimeInv
  <2> QED BY <1>8, <2>1, <2>2 DEF U!Unpacked, U!MoveIn, RuntimeInv
<1>9. CASE U!RemoveMember
  <2>1. PICK m \in tree[target] : tree' = [tree EXCEPT ![target] = tree[target] \ {m}]
    BY <1>2, <1>9 DEF U!RemoveMember
  <2>2. tree[target] \ {m} \in SUBSET U!Member /\ tree[target] \ {m} # U!Member
    BY <1>2, <2>1
  <2> QED BY <1>2, <1>4, <1>9, <2>1, <2>2 DEF U!RemoveMember, RuntimeInv
<1> QED BY <1>6, <1>7, <1>8, <1>9

\* It must start before it is named.
LEMMA PointStep == ASSUME Size \in Nat, RuntimeInv, U!Point PROVE RuntimeInv'
<1>1. now = "try" /\ UNCHANGED <<machine, part, tree, damaged, aside, meta, target>>
  BY DEF U!Point
<1>2. CASE U!GiveUp /\ UNCHANGED current
  BY <1>1, <1>2, GiveUpKeeps DEF RuntimeInv, U!TypeOK
<1>3. CASE U!Runnable(target) /\ now' = "model" /\ current' = target /\ UNCHANGED <<candidates, fetched>>
  BY <1>1, <1>3 DEF RuntimeInv, U!TypeOK, U!RuntimeSound
<1> QED BY <1>2, <1>3 DEF U!Point

\* The model is noted when it is right.
LEMMA ModelStep == ASSUME Size \in Nat, RuntimeInv, U!Model \/ U!NoSpace \/ U!Note PROVE RuntimeInv'
<1>1. CASE U!Model
  <2>1. fetched' = fetched \/ (fetched' = [fetched EXCEPT !["model"] = "right"] /\ now' = "note")
    BY <1>1 DEF U!Model
  <2>2. /\ fetched' \in [U!Files -> {"none", "right", "wrong"}]
        /\ \A f \in U!Files : fetched'[f] = fetched[f] \/ fetched'[f] = "right"
        /\ (now' = "note" => fetched'["model"] = "right")
    BY <1>1, <2>1 DEF U!Model, RuntimeInv, U!TypeOK
  <2> QED BY <1>1, <2>2 DEF U!Model, RuntimeInv, U!TypeOK, U!RuntimeSound
<1>2. CASE U!NoSpace
  BY <1>2 DEF U!NoSpace, RuntimeInv, U!TypeOK, U!RuntimeSound
<1>3. CASE U!Note
  BY <1>3 DEF U!Note, RuntimeInv, U!TypeOK, U!RuntimeSound
<1> QED BY <1>1, <1>2, <1>3

\* A run begins, tries the next candidate, or is killed and run again; between runs a build may lose a member.
LEMMA RunStep == ASSUME Size \in Nat, RuntimeInv, U!Start \/ U!TryBuild \/ U!Kill \/ U!Damage \/ U!Again \/ UNCHANGED U!vars
  PROVE RuntimeInv'
<1>1. CASE U!TryBuild
  BY <1>1, CandidatesAre DEF U!TryBuild, RuntimeInv, U!TypeOK, U!RuntimeSound
<1>2. CASE U!Start \/ U!Kill \/ U!Again
  <2>1. /\ UNCHANGED <<machine, part, fetched, tree, damaged, aside, meta, target>> /\ current' \in {current, "none"}
        /\ \/ now' = "failed" \/ now' = "start" \/ now' = "build"
           \/ (now' = "model" /\ current' = current /\ current # "none" /\ U!Runnable(current))
        /\ candidates' = candidates \/ candidates' \in {<<"latest", "pinned">>, <<"pinned">>}
    BY <1>2 DEF U!Start, U!Kill, U!Again
  <2>2. candidates' \in {<<"latest", "pinned">>, <<"pinned">>, <<>>}
    BY <2>1 DEF RuntimeInv
  <2> QED BY <2>1, <2>2 DEF RuntimeInv, U!TypeOK, U!RuntimeSound
<1>4. CASE U!Damage
  <2>1. PICK b \in U!Build, m \in U!Member : tree' = [tree EXCEPT ![b] = tree[b] \ {m}] /\ damaged' = damaged \cup {b}
    BY <1>4 DEF U!Damage, RuntimeInv, U!TypeOK
  <2>2. /\ tree' \in [U!Build -> SUBSET U!Member] /\ damaged' \subseteq U!Build
        /\ \A a \in U!Build \ {b} : tree'[a] = tree[a] /\ (a \in damaged' <=> a \in damaged)
    BY <2>1 DEF RuntimeInv, U!TypeOK
  <2> QED BY <1>4, <2>1, <2>2 DEF U!Damage, RuntimeInv, U!TypeOK, U!RuntimeSound
<1>3. CASE UNCHANGED U!vars
  BY <1>3 DEF U!vars, RuntimeInv, U!TypeOK, U!RuntimeSound
<1> QED BY <1>1, <1>2, <1>3, <1>4

\* Whatever is resumed, cut short, ignored or killed, and wherever: `current' names a build that was unpacked to the end
\* and has lost nothing since, no file has bytes under its name that its hash is not of, and a run goes on to the model,
\* and is ready, only with a runtime that starts.
THEOREM RuntimeSafe == ASSUME Size \in Nat PROVE U!Spec => [](U!TypeOK /\ U!RuntimeSound)
<1>1. U!Init => RuntimeInv
  <2> SUFFICES ASSUME U!Init PROVE RuntimeInv
    OBVIOUS
  <2>1. /\ part = [f \in U!Files |-> U!NoPart] /\ fetched = [f \in U!Files |-> "none"] /\ tree = [b \in U!Build |-> {}]
        /\ damaged = {} /\ aside = {} /\ current = "none" /\ machine \in {"plain", "cuda"} /\ meta = FALSE /\ now = "start" /\ target = "model"
        /\ candidates \in {<<"latest", "pinned">>, <<"pinned">>, <<>>}
    BY DEF U!Init
  <2>2. U!TypeOK
    <3>1. U!NoPart \in [n : 0 .. Size, good : BOOLEAN]
      OBVIOUS
    <3>2. part \in [U!Files -> [n : 0 .. Size, good : BOOLEAN]]
      BY <2>1, <3>1
    <3>3. fetched \in [U!Files -> {"none", "right", "wrong"}] /\ tree \in [U!Build -> SUBSET U!Member]
      BY <2>1
    <3> QED BY <2>1, <3>2, <3>3 DEF U!TypeOK
  <2> QED BY <2>1, <2>2 DEF RuntimeInv, U!RuntimeSound
<1>2. RuntimeInv /\ [U!Next]_U!vars => RuntimeInv'
  BY DownloadStep, CheckedStep, TreeStep, PointStep, ModelStep, RunStep DEF U!Next, U!Run
<1>3. RuntimeInv => U!TypeOK /\ U!RuntimeSound
  BY DEF RuntimeInv
<1> QED BY <1>1, <1>2, <1>3, PTL DEF U!Spec

-----------------------------------------------------------------------------
(* How an installed copy updates itself (Update).                          *)

VARIABLES installed, originals, before, step, left, new, confirmed, then, code, noUpdate, itself, remote, uFaults

N == INSTANCE Update WITH disk <- installed, aside <- originals, pc <- step, todo <- left, current <- confirmed,
                          faults <- uFaults

UpdateSized == MaxVersion \in Nat \ {0} /\ MaxFaults \in Nat

\* A swap: what is left of it is as it was found, what is done is new, and what was there is kept aside.
SwapInv ==
  /\ step \in {"swap", "put"} =>
       /\ left # {}
       /\ \A f \in left : /\ before[f] # new
                          /\ IF step = "put" /\ f = N!First(left) THEN originals[f] = before[f] ELSE installed[f] = before[f]
       /\ \A f \in N!File \ left : installed[f] = new /\ (before[f] # new => originals[f] = before[f])
  /\ step = "restore" => /\ \A f \in left : originals[f] = before[f]
                         /\ \A f \in N!File \ left : installed[f] = before[f]
  /\ N!SwapUndone

\* Who was told not to update is the launcher's, with one version of everything, and does not.
ToldInv ==
  /\ step \in {"common", "swap", "put", "restore", "restored"} => ~noUpdate /\ ~itself
  /\ noUpdate => step \in {"join", "runtime", "running", "off"} \/ (step = "refresh" /\ then = "runtime")
  /\ N!CurrentIsWhole

\* A sibling that is confirmed is whole, and before join.py is replaced as new as what replaces it.
SiblingInv ==
  /\ step = "refresh" => left \subseteq N!Siblings /\ then \in {"fetch", "apply", "runtime"}
  /\ step = "refresh" /\ confirmed =>
       \A f \in N!Siblings \ left : installed[f] > 0 /\ (then = "apply" => installed[f] >= new)
  /\ step = "apply" => \A f \in N!Siblings : installed[f] >= new
  /\ itself => \A f \in N!Siblings : installed[f] = N!Cut \/ installed[f] >= installed["join"]
  /\ itself /\ step \in {"refresh", "fetch", "apply", "runtime", "running"} =>
       /\ code["join"] = installed["join"] /\ code["worker"] >= code["join"]
       /\ code["runtime"] = N!Missing \/ code["runtime"] >= code["join"]
  /\ step = "running" => code["runtime"] # N!Missing

\* Nothing is newer than the branch.
Newest == new <= remote /\ \A f \in N!File : installed[f] <= remote /\ originals[f] <= remote

UpdateInv == N!TypeOK /\ Newest /\ SwapInv /\ ToldInv /\ SiblingInv

\* The files.
LEMMA FilesAre == N!File = {"common", "join", "runtime", "worker"} /\ N!Siblings = {"worker", "runtime"}
  BY DEF N!File, N!Order, N!Siblings

\* The first and the last of some.
LEMMA PickedIs ==
  ASSUME NEW Some \in SUBSET N!File, Some # {}
  PROVE  N!First(Some) \in Some /\ N!Last(Some) \in Some
<1>1. N!File = {"common", "join", "runtime", "worker"}
  BY FilesAre
<1>2. /\ \E f \in Some : \A g \in Some : N!Order[f] <= N!Order[g]
      /\ \E f \in Some : \A g \in Some : N!Order[f] >= N!Order[g]
  <2>1. N!Order["common"] = 1 /\ N!Order["join"] = 2 /\ N!Order["runtime"] = 3 /\ N!Order["worker"] = 4
    BY DEF N!Order
  <2>2. \E f \in Some : \A g \in Some : N!Order[f] <= N!Order[g]
    <3>1. CASE "common" \in Some
      BY <1>1, <2>1, <3>1
    <3>2. CASE "common" \notin Some /\ "join" \in Some
      BY <1>1, <2>1, <3>2
    <3>3. CASE "common" \notin Some /\ "join" \notin Some /\ "runtime" \in Some
      BY <1>1, <2>1, <3>3
    <3>4. CASE Some = {"worker"}
      BY <2>1, <3>4
    <3> QED BY <1>1, <3>1, <3>2, <3>3, <3>4
  <2>3. \E f \in Some : \A g \in Some : N!Order[f] >= N!Order[g]
    <3>1. CASE "worker" \in Some
      BY <1>1, <2>1, <3>1
    <3>2. CASE "worker" \notin Some /\ "runtime" \in Some
      BY <1>1, <2>1, <3>2
    <3>3. CASE "worker" \notin Some /\ "runtime" \notin Some /\ "join" \in Some
      BY <1>1, <2>1, <3>3
    <3>4. CASE Some = {"common"}
      BY <2>1, <3>4
    <3> QED BY <1>1, <3>1, <3>2, <3>3, <3>4
  <2> QED BY <2>2, <2>3
<1> QED BY <1>2 DEF N!First, N!Last

USE DEF N!Missing, N!Cut, N!Fault

\* What a step does with the flags.
LEMMA FlagsStep ==
  ASSUME N!Flags, [N!Next]_N!vars
  PROVE  N!Flags'
<1> USE DEF N!Flags, N!job
<1>1. ASSUME N!FetchBundle \/ N!Put PROVE N!Flags'
  <2>1. itself' = itself
    BY <1>1 DEF N!FetchBundle, N!Put
  <2>2. \/ confirmed' = confirmed /\ noUpdate' = noUpdate
        \/ confirmed' \in BOOLEAN /\ noUpdate' = confirmed'
    BY <1>1, Zenon DEF N!FetchBundle, N!Put
  <2> QED BY <2>1, <2>2, Zenon
<1>2. ASSUME N!SetAside \/ N!Restore \/ N!GiveUp \/ N!Refresh \/ N!Refreshed \/ N!Apply PROVE N!Flags'
  BY <1>2, Zenon DEF N!SetAside, N!Restore, N!GiveUp, N!Refresh, N!Refreshed, N!Apply
<1>3. ASSUME N!Load \/ N!FetchJoin \/ N!Require \/ N!Push \/ N!Launch \/ N!BundleFails PROVE N!Flags'
  BY <1>3, Zenon DEF N!Load, N!FetchJoin, N!Require, N!Push, N!Launch, N!BundleFails
<1>4. ASSUME N!SwapFails \/ N!RefreshFails \/ N!ApplyFails \/ N!Check \/ N!Quit \/ N!Kill PROVE N!Flags'
  BY <1>4, Zenon DEF N!SwapFails, N!RefreshFails, N!ApplyFails, N!Check, N!Quit, N!Kill
<1>5. ASSUME UNCHANGED N!vars PROVE N!Flags'
  BY <1>5, Zenon DEF N!vars
<1> QED BY <1>1, <1>2, <1>3, <1>4, <1>5 DEF N!Next, N!Proceed

\* The branch moves, and somebody starts the launcher or join.py.
LEMMA OutsideStep ==
  ASSUME UpdateSized, UpdateInv, N!Push \/ N!Launch \/ N!Check \/ N!Quit
  PROVE  UpdateInv'
<1>0. N!Flags /\ N!Flags'
  BY FlagsStep DEF N!Next, N!Proceed, UpdateInv, N!TypeOK
<1> USE <1>0 DEF UpdateInv
<1>1. N!TypeOK' /\ Newest'
  <2>1. CASE N!Push
    BY <2>1 DEF N!Push, N!job, N!TypeOK, Newest, UpdateSized
  <2>2. CASE N!Launch \/ N!Check \/ N!Quit
    BY <2>2 DEF N!Launch, N!Check, N!Quit, N!job, N!TypeOK, Newest
  <2> QED BY <2>1, <2>2
<1>2. SwapInv' /\ ToldInv' /\ SiblingInv'
  BY DEF N!Push, N!Launch, N!Check, N!Quit, N!job, SwapInv, N!SwapUndone, ToldInv, N!CurrentIsWhole, SiblingInv
<1> QED BY <1>1, <1>2

\* The launcher looks at the branch.
LEMMA BundleStep ==
  ASSUME UpdateSized, UpdateInv, N!FetchBundle \/ N!BundleFails
  PROVE  UpdateInv'
<1>0. N!Flags /\ N!Flags'
  BY FlagsStep DEF N!Next, N!Proceed, UpdateInv, N!TypeOK
<1> USE <1>0 DEF UpdateInv
<1>1. /\ step = "common" /\ step' \in {"common", "swap", "join"} /\ UNCHANGED <<installed, originals, code, itself, remote>>
      /\ new' \in {new, remote} /\ before' \in {before, installed} /\ left' \subseteq N!File
      /\ then' \in {then, "join"} /\ uFaults' \in 0 .. MaxFaults
  BY DEF N!FetchBundle, N!BundleFails, N!TypeOK, UpdateSized
<1>2. N!TypeOK' /\ Newest'
  BY <1>1 DEF N!TypeOK, Newest
<1>3. SwapInv'
  BY <1>1 DEF N!FetchBundle, N!BundleFails, SwapInv, N!SwapUndone
<1>4. ToldInv'
  <2>1. CASE N!BundleFails
    BY <2>1 DEF N!BundleFails, ToldInv, N!CurrentIsWhole
  <2>2. CASE N!FetchBundle /\ \A f \in N!File : installed[f] = remote
    BY <1>1, <2>2 DEF N!FetchBundle, ToldInv, N!CurrentIsWhole, N!TypeOK
  <2>3. CASE N!FetchBundle /\ ~\A f \in N!File : installed[f] = remote
    <3>1. step' = "swap" /\ noUpdate' = noUpdate
      BY <2>3 DEF N!FetchBundle
    <3> QED BY <1>1, <3>1 DEF ToldInv, N!CurrentIsWhole
  <2> QED BY <2>1, <2>2, <2>3
<1>5. SiblingInv'
  BY <1>1 DEF SiblingInv, ToldInv
<1> QED BY <1>2, <1>3, <1>4, <1>5

\* A file is set aside, and the new one put in its place.
LEMMA FileSwapStep ==
  ASSUME UpdateSized, UpdateInv, N!SetAside \/ N!Put
  PROVE  UpdateInv'
<1>0. N!Flags /\ N!Flags'
  BY FlagsStep DEF N!Next, N!Proceed, UpdateInv, N!TypeOK
<1> USE <1>0 DEF UpdateInv
<1>1. /\ step \in {"swap", "put"} /\ step' \in {"put", "swap", "common", "join"} /\ ~noUpdate /\ ~itself
      /\ left \subseteq N!File /\ N!First(left) \in left /\ UNCHANGED <<before, new, then, code, itself, remote, uFaults>>
  BY PickedIs DEF N!SetAside, N!Put, N!job, SwapInv, N!TypeOK, ToldInv
<1>2. CASE N!SetAside
  <2> DEFINE f == N!First(left)
  <2>1. /\ originals' = [originals EXCEPT ![f] = installed[f]] /\ installed' = [installed EXCEPT ![f] = 0]
        /\ step = "swap" /\ step' = "put" /\ UNCHANGED <<left, confirmed, noUpdate>>
    BY <1>2 DEF N!SetAside, N!job
  <2>2. N!TypeOK' /\ Newest'
    BY <1>1, <2>1 DEF N!TypeOK, Newest, UpdateSized
  <2>3. SwapInv'
    BY <1>1, <2>1 DEF SwapInv, N!SwapUndone, N!TypeOK
  <2>4. ToldInv' /\ SiblingInv'
    BY <1>1, <2>1 DEF ToldInv, N!CurrentIsWhole, SiblingInv
  <2> QED BY <2>2, <2>3, <2>4
<1>3. CASE N!Put
  <2> DEFINE f == N!First(left)
  <2>1. /\ installed' = [installed EXCEPT ![f] = new] /\ step = "put" /\ left' = left \ {f}
        /\ originals' \in {originals, N!NotLoaded} /\ (left' # {} => UNCHANGED originals)
        /\ \/ step' = "swap" /\ left' # {} /\ UNCHANGED noUpdate
           \/ step' \in {"common", "join"} /\ left' = {}
        /\ step' = "common" => ~noUpdate'
    BY <1>1, <1>3 DEF N!Put, N!TypeOK
  <2>2. N!TypeOK' /\ Newest'
    BY <1>1, <2>1 DEF N!TypeOK, Newest, N!NotLoaded, UpdateSized
  <2>3. SwapInv'
    BY <1>1, <2>1 DEF SwapInv, N!SwapUndone, N!TypeOK
  <2>4. step' = "join" => \A g \in N!File : installed'[g] = new
    BY <1>1, <2>1 DEF SwapInv, N!TypeOK
  <2>5. ToldInv'
    BY <1>1, <2>1, <2>4 DEF ToldInv, N!CurrentIsWhole, N!TypeOK
  <2>6. SiblingInv'
    BY <1>1, <2>1 DEF SiblingInv
  <2> QED BY <2>2, <2>3, <2>5, <2>6
<1> QED BY <1>2, <1>3

\* A swap that fails is undone, or the undoing fails.
LEMMA UndoStep ==
  ASSUME UpdateSized, UpdateInv, N!SwapFails \/ N!Restore \/ N!GiveUp
  PROVE  UpdateInv'
<1>0. N!Flags /\ N!Flags'
  BY FlagsStep DEF N!Next, N!Proceed, UpdateInv, N!TypeOK
<1> USE <1>0 DEF UpdateInv
<1>1. /\ step \in {"swap", "put", "restore", "restored"} /\ step' \in {"restore", "restored", "common", "join"}
      /\ ~noUpdate /\ ~itself /\ left' \subseteq N!File /\ then' \in {then, "join"} /\ uFaults' \in 0 .. MaxFaults
      /\ UNCHANGED <<before, new, confirmed, code, noUpdate, itself, remote>>
  BY DEF N!SwapFails, N!Restore, N!GiveUp, N!TypeOK, ToldInv, UpdateSized
<1>2. CASE N!SwapFails
  <2>1. N!TypeOK' /\ Newest'
    BY <1>1, <1>2 DEF N!SwapFails, N!TypeOK, Newest
  <2>2. SwapInv'
    <3> DEFINE rest == IF step = "put" THEN left \ {N!First(left)} ELSE left
    <3>1. /\ left' = {f \in N!File : before[f] # new} \ rest /\ step' = "restore" /\ UNCHANGED <<installed, originals>>
          /\ step \in {"swap", "put"}
      BY <1>2 DEF N!SwapFails
    <3>2. \A f \in left' : originals[f] = before[f]
      BY <3>1 DEF SwapInv
    <3>3. \A f \in N!File \ left' : installed[f] = before[f]
      BY <3>1 DEF SwapInv
    <3> QED BY <1>1, <3>1, <3>2, <3>3 DEF SwapInv, N!SwapUndone
  <2>3. ToldInv' /\ SiblingInv'
    BY <1>1, <1>2 DEF N!SwapFails, ToldInv, N!CurrentIsWhole, SiblingInv
  <2> QED BY <2>1, <2>2, <2>3
<1>3. CASE N!Restore
  <2>1. CASE left = {}
    <3>1. step' = "restored" /\ UNCHANGED <<installed, originals, left, then, uFaults>>
      BY <1>3, <2>1 DEF N!Restore
    <3>2. installed = before
      BY <1>3, <2>1 DEF N!Restore, SwapInv, N!TypeOK
    <3> QED BY <1>1, <3>1, <3>2 DEF N!TypeOK, Newest, SwapInv, N!SwapUndone, ToldInv, N!CurrentIsWhole, SiblingInv
  <2>2. CASE left # {}
    <3> DEFINE f == N!Last(left)
    <3>1. /\ f \in left /\ f \in N!File /\ step = "restore" /\ step' = "restore"
          /\ installed' = [installed EXCEPT ![f] = originals[f]]
          /\ left' = left \ {f} /\ UNCHANGED <<originals, then, uFaults>>
      BY <1>3, <2>2, PickedIs DEF N!Restore, N!TypeOK
    <3>2. N!TypeOK' /\ Newest'
      BY <1>1, <3>1 DEF N!TypeOK, Newest
    <3>3. SwapInv' /\ ToldInv' /\ SiblingInv'
      BY <1>1, <3>1 DEF SwapInv, N!SwapUndone, ToldInv, N!CurrentIsWhole, SiblingInv, N!TypeOK
    <3> QED BY <3>2, <3>3
  <2> QED BY <2>1, <2>2
<1>4. CASE N!GiveUp
  <2>1. UNCHANGED installed /\ originals' = N!NotLoaded /\ step' \in {"common", "join"}
    BY <1>4 DEF N!GiveUp
  <2>2. N!TypeOK' /\ Newest'
    BY <1>1, <2>1 DEF N!TypeOK, Newest, N!NotLoaded, UpdateSized
  <2> QED BY <1>1, <2>1, <2>2 DEF SwapInv, N!SwapUndone, ToldInv, N!CurrentIsWhole, SiblingInv
<1> QED BY <1>2, <1>3, <1>4

\* join.py is loaded.
LEMMA LoadStep ==
  ASSUME UpdateSized, UpdateInv, N!Load
  PROVE  UpdateInv'
<1>0. N!Flags /\ N!Flags'
  BY FlagsStep DEF N!Next, N!Proceed, UpdateInv, N!TypeOK
<1> USE <1>0, FilesAre DEF UpdateInv
<1>1. /\ step = "join" /\ UNCHANGED <<installed, originals, before, new, noUpdate, itself, remote, uFaults>>
      /\ \/ step' = "off" /\ UNCHANGED <<code, left, confirmed, then>>
         \/ /\ code' = [N!NotLoaded EXCEPT !["join"] = installed["join"], !["worker"] = installed["worker"]]
            /\ installed["join"] > 0 /\ installed["worker"] > 0
            /\ \/ noUpdate /\ step' = "runtime" /\ UNCHANGED <<left, confirmed, then>>
               \/ /\ ~noUpdate /\ step' = "refresh" /\ left' = N!Siblings
                  /\ confirmed' = TRUE /\ then' = "fetch"
  BY DEF N!Load, N!Ready
<1>2. \/ UNCHANGED code
      \/ /\ code'["join"] = installed["join"] /\ code'["worker"] = installed["worker"] /\ code'["runtime"] = 0
         /\ code' \in [N!File -> 0 .. MaxVersion]
  BY <1>1 DEF N!NotLoaded, N!TypeOK, UpdateSized
<1>3. N!TypeOK' /\ Newest'
  BY <1>1, <1>2 DEF N!TypeOK, Newest
<1>4. SwapInv' /\ ToldInv'
  BY <1>1 DEF SwapInv, N!SwapUndone, ToldInv, N!CurrentIsWhole
<1>5. SiblingInv'
  <2>1. installed["worker"] \in Int /\ installed["join"] \in Int
    BY DEF N!TypeOK
  <2> QED BY <1>1, <1>2, <2>1 DEF SiblingInv, N!NotLoaded
<1> QED BY <1>3, <1>4, <1>5

\* A sibling is refreshed, or cannot be.
LEMMA RefreshStep ==
  ASSUME UpdateSized, UpdateInv, N!Refresh \/ N!RefreshFails
  PROVE  UpdateInv'
<1>0. N!Flags /\ N!Flags'
  BY FlagsStep DEF N!Next, N!Proceed, UpdateInv, N!TypeOK
<1> USE <1>0, FilesAre DEF UpdateInv
<1> DEFINE f == N!Last(left)
<1>1. /\ step = "refresh" /\ step' = "refresh" /\ f \in left /\ f \in N!Siblings /\ left' = left \ {f}
      /\ UNCHANGED <<originals, before, new, then, code, noUpdate, itself, remote>>
      /\ uFaults' \in 0 .. MaxFaults /\ (confirmed' => confirmed)
      /\ \/ installed' = [installed EXCEPT ![f] = remote]
         \/ ~confirmed' /\ installed' \in {installed, [installed EXCEPT ![f] = -1]}
  <2>1. step = "refresh" /\ left # {} /\ left \subseteq N!File /\ left \subseteq N!Siblings
    BY DEF N!Refresh, N!RefreshFails, N!TypeOK, SiblingInv
  <2>2. f \in left
    BY <2>1, PickedIs
  <2>3. uFaults' \in 0 .. MaxFaults /\ step' = "refresh" /\ left' = left \ {f}
    BY DEF N!Refresh, N!RefreshFails, N!TypeOK, UpdateSized
  <2>4. CASE N!Refresh
    BY <2>1, <2>2, <2>3, <2>4 DEF N!Refresh
  <2>5. CASE N!RefreshFails
    BY <2>1, <2>2, <2>3, <2>5 DEF N!RefreshFails
  <2> QED BY <2>4, <2>5
<1>2. \A g \in N!File : \/ installed'[g] = installed[g] /\ (g = f => ~confirmed')
                        \/ g = f /\ (installed'[g] = remote \/ (installed'[g] = -1 /\ ~confirmed'))
  BY <1>1 DEF N!TypeOK
<1>3. /\ new \in 1 .. MaxVersion /\ remote \in 1 .. MaxVersion /\ f # "join"
      /\ \A g \in N!File : installed[g] \in Int /\ installed[g] <= remote
  BY <1>1 DEF N!TypeOK, Newest
<1>4. N!TypeOK' /\ Newest'
  <2>1. installed' \in [N!File -> -1 .. MaxVersion]
    BY <1>1, <1>3 DEF N!TypeOK, UpdateSized
  <2>2. Newest'
    BY <1>1, <1>2, <1>3 DEF Newest
  <2> QED BY <1>1, <2>1, <2>2 DEF N!TypeOK
<1>5. SwapInv' /\ ToldInv'
  BY <1>1 DEF SwapInv, N!SwapUndone, ToldInv, N!CurrentIsWhole
<1>6. SiblingInv'
  <2>1. confirmed' => \A g \in N!Siblings \ left' : installed'[g] > 0 /\ (then = "apply" => installed'[g] >= new)
    BY <1>1, <1>2, <1>3 DEF SiblingInv, Newest, UpdateSized
  <2>2. itself => \A g \in N!Siblings : installed'[g] = -1 \/ installed'[g] >= installed'["join"]
    BY <1>1, <1>2, <1>3 DEF SiblingInv
  <2>3. installed'["join"] = installed["join"]
    BY <1>2, <1>3
  <2> QED BY <1>1, <2>1, <2>2, <2>3 DEF SiblingInv
<1> QED BY <1>4, <1>5, <1>6

\* What follows the refresh, and the loading of runtime.py.
LEMMA FollowStep ==
  ASSUME UpdateSized, UpdateInv, N!Refreshed \/ N!Require
  PROVE  UpdateInv'
<1>0. N!Flags /\ N!Flags'
  BY FlagsStep DEF N!Next, N!Proceed, UpdateInv, N!TypeOK
<1> USE <1>0, FilesAre DEF UpdateInv
<1>1. /\ step \in {"refresh", "runtime"}
      /\ UNCHANGED <<installed, originals, before, new, confirmed, noUpdate, itself, remote, uFaults>>
  BY DEF N!Refreshed, N!Require, N!job
<1>A. N!Refreshed => then \in {"fetch", "apply", "runtime"}
  BY DEF N!Refreshed, SiblingInv
<1>2. \A g \in N!File : installed[g] \in -1 .. MaxVersion
  BY DEF N!TypeOK
<1>3. \/ UNCHANGED code
      \/ /\ step = "refresh" /\ then = "fetch" /\ confirmed /\ step' = "fetch" /\ left = {}
         /\ code' = [code EXCEPT !["worker"] = installed["worker"]]
      \/ /\ installed["runtime"] > 0 /\ step' = "running"
         /\ code' = [code EXCEPT !["runtime"] = installed["runtime"]]
  <2>1. CASE N!Refreshed
    <3>1. CASE then = "fetch"
      BY <2>1, <3>1 DEF N!Refreshed
    <3>2. CASE then = "apply"
      BY <2>1, <3>2 DEF N!Refreshed
    <3>3. CASE then = "runtime"
      BY <2>1, <3>3 DEF N!Refreshed, N!Ready
    <3> QED BY <3>1, <3>2, <3>3, <2>1, <1>A
  <2>2. CASE N!Require
    BY <2>2 DEF N!Require, N!Ready
  <2> QED BY <2>1, <2>2
<1>4. step = "refresh" /\ confirmed /\ left = {} => installed["worker"] > 0
  BY DEF SiblingInv
<1>5. code' \in [N!File -> 0 .. MaxVersion]
  BY <1>2, <1>3, <1>4 DEF N!TypeOK
<1>6. /\ step' \in {"fetch", "apply", "runtime", "running", "off", "refresh"}
      /\ left' \in {left, N!Siblings} /\ then' \in {then, "runtime"}
      /\ step' = "refresh" => left' = N!Siblings /\ then' = "runtime"
      /\ step' = "apply" => step = "refresh" /\ then = "apply" /\ confirmed /\ left = {}
      /\ step' \in {"fetch", "apply"} => step = "refresh" /\ then \in {"fetch", "apply"}
  <2>1. CASE N!Refreshed
    <3>0. UNCHANGED <<left, then>> /\ step = "refresh" /\ left = {}
      BY <2>1 DEF N!Refreshed, N!job
    <3>1. CASE then = "fetch"
      BY <2>1, <3>0, <3>1 DEF N!Refreshed
    <3>2. CASE then = "apply"
      BY <2>1, <3>0, <3>2 DEF N!Refreshed
    <3>3. CASE then = "runtime"
      BY <2>1, <3>0, <3>3 DEF N!Refreshed
    <3> QED BY <3>1, <3>2, <3>3, <2>1, <1>A
  <2>2. CASE N!Require
    BY <2>2 DEF N!Require
  <2> QED BY <2>1, <2>2
<1>7. N!TypeOK' /\ Newest'
  BY <1>1, <1>5, <1>6 DEF N!TypeOK, Newest
<1>8. SwapInv' /\ ToldInv'
  BY <1>1, <1>6 DEF SwapInv, N!SwapUndone, ToldInv, N!CurrentIsWhole
<1>9. SiblingInv'
  <2>1. step' = "apply" => \A f \in N!Siblings : installed[f] >= new
    BY <1>6 DEF SiblingInv
  <2>2. step' = "running" => code'["runtime"] # 0
    <3>1. step' = "running" => \/ code["runtime"] # 0 /\ UNCHANGED code
                               \/ /\ code' = [code EXCEPT !["runtime"] = installed["runtime"]]
                                  /\ installed["runtime"] > 0
      <4>1. CASE N!Require
        BY <4>1 DEF N!Require, N!Ready
      <4>2. CASE N!Refreshed
        <5>1. step' = "running" => then = "runtime"
          BY <4>2, <1>A DEF N!Refreshed
        <5> QED BY <4>2, <5>1 DEF N!Refreshed, N!Ready
      <4> QED BY <4>1, <4>2
    <3> QED BY <1>2, <3>1 DEF N!TypeOK
  <2>3. itself => /\ code'["join"] = installed["join"] /\ code'["worker"] >= code'["join"]
                  /\ code'["runtime"] = 0 \/ code'["runtime"] >= code'["join"]
    <3>1. itself => /\ code["join"] = installed["join"] /\ code["worker"] >= code["join"]
                    /\ code["runtime"] = 0 \/ code["runtime"] >= code["join"]
                    /\ \A f \in N!Siblings : installed[f] > 0 => installed[f] >= installed["join"]
      BY <1>1, <1>2 DEF SiblingInv
    <3>2. DOMAIN code = N!File
      BY DEF N!TypeOK
    <3> QED BY <1>3, <1>4, <3>1, <3>2
  <2> QED BY <1>1, <1>6, <2>1, <2>2, <2>3 DEF SiblingInv
<1> QED BY <1>7, <1>8, <1>9

\* join.py looks for a newer self, and replaces itself.
LEMMA ReplaceStep ==
  ASSUME UpdateSized, UpdateInv, N!FetchJoin \/ N!Apply \/ N!ApplyFails
  PROVE  UpdateInv'
<1>0. N!Flags /\ N!Flags'
  BY FlagsStep DEF N!Next, N!Proceed, UpdateInv, N!TypeOK
<1> USE <1>0, FilesAre DEF UpdateInv
<1>1. CASE N!FetchJoin \/ N!ApplyFails
  <2>1. /\ step \in {"fetch", "apply"} /\ UNCHANGED <<installed, originals, before, code, noUpdate, itself, remote>>
        /\ uFaults' \in 0 .. MaxFaults
        /\ \/ step' \in {"runtime", "off"} /\ UNCHANGED <<new, left, confirmed, then>>
           \/ step' = "refresh" /\ new' = remote /\ left' = N!Siblings /\ confirmed' = TRUE /\ then' = "apply"
    BY <1>1 DEF N!FetchJoin, N!ApplyFails, N!job, N!TypeOK, UpdateSized
  <2>2. N!TypeOK' /\ Newest'
    <3>1. new' \in {new, remote} /\ left' \in {left, N!Siblings} /\ then' \in {then, "apply"} /\ step' \in {"runtime", "off", "refresh"}
      BY <2>1
    <3> QED BY <2>1, <3>1 DEF N!TypeOK, Newest
  <2>3. SwapInv' /\ ToldInv' /\ SiblingInv'
    BY <2>1 DEF SwapInv, N!SwapUndone, ToldInv, N!CurrentIsWhole, SiblingInv
  <2> QED BY <2>2, <2>3
<1>2. CASE N!Apply
  <2>1. /\ step = "apply" /\ step' = "join" /\ itself' = TRUE /\ ~noUpdate
        /\ installed' = [installed EXCEPT !["join"] = new]
        /\ UNCHANGED <<originals, before, new, left, confirmed, then, code, noUpdate, remote, uFaults>>
    BY <1>2 DEF N!Apply, N!job, ToldInv
  <2>2. N!TypeOK' /\ Newest'
    BY <2>1 DEF N!TypeOK, Newest
  <2>3. SwapInv' /\ ToldInv'
    BY <2>1 DEF SwapInv, N!SwapUndone, ToldInv, N!CurrentIsWhole
  <2>4. SiblingInv'
    BY <2>1 DEF SiblingInv, N!TypeOK
  <2> QED BY <2>2, <2>3, <2>4
<1> QED BY <1>1, <1>2

\* The process is killed.
LEMMA UpdateKilled ==
  ASSUME UpdateSized, UpdateInv, N!Kill
  PROVE  UpdateInv'
<1>0. N!Flags /\ N!Flags'
  BY FlagsStep DEF N!Next, N!Proceed, UpdateInv, N!TypeOK
<1> USE <1>0, FilesAre DEF UpdateInv
<1>1. /\ step' = "off" /\ originals' = N!NotLoaded /\ uFaults' \in 0 .. MaxFaults
      /\ UNCHANGED <<before, new, left, confirmed, then, code, noUpdate, itself, remote>>
      /\ \/ UNCHANGED installed
         \/ \E f \in N!Siblings : installed' = [installed EXCEPT ![f] = -1]
  BY PickedIs DEF N!Kill, N!job, N!TypeOK, SiblingInv, UpdateSized
<1>2. N!TypeOK' /\ Newest'
  BY <1>1 DEF N!TypeOK, Newest, N!NotLoaded, UpdateSized
<1>3. SwapInv' /\ ToldInv'
  BY <1>1 DEF SwapInv, N!SwapUndone, ToldInv, N!CurrentIsWhole
<1>4. SiblingInv'
  BY <1>1 DEF SiblingInv, N!TypeOK
<1> QED BY <1>2, <1>3, <1>4

\* For any versions and faults: a swap that fails leaves the files as they were, a join.py that has replaced itself
\* never drives older siblings, and a join told not to update has the whole of one version (UpdateSound).
THEOREM UpdatesWhole == ASSUME UpdateSized PROVE N!Spec => [](N!TypeOK /\ N!UpdateSound)
<1>1. N!Init => UpdateInv
  <2>1. N!Init => N!Flags
    BY Zenon DEF N!Init, N!Flags
  <2> QED BY <2>1, FilesAre DEF N!Init, N!NotLoaded, UpdateSized, UpdateInv, N!TypeOK, Newest, SwapInv, N!SwapUndone,
     ToldInv, N!CurrentIsWhole, SiblingInv
<1>2. UpdateInv /\ [N!Next]_N!vars => UpdateInv'
  <2>1. ASSUME UpdateInv, N!Next PROVE UpdateInv'
    BY <2>1, OutsideStep, BundleStep, FileSwapStep, UndoStep, LoadStep, RefreshStep, FollowStep, ReplaceStep, UpdateKilled
       DEF N!Next, N!Proceed
  <2>2. ASSUME UpdateInv, UNCHANGED N!vars PROVE UpdateInv'
    <3>1. N!Flags'
      BY <2>2, FlagsStep DEF UpdateInv, N!TypeOK
    <3> QED BY <2>2, <3>1 DEF N!vars, UpdateInv, N!TypeOK, Newest, SwapInv, N!SwapUndone, ToldInv, N!CurrentIsWhole, SiblingInv
  <2> QED BY <2>1, <2>2
<1>3. UpdateInv => N!TypeOK /\ N!UpdateSound
  BY FilesAre DEF UpdateInv, SwapInv, ToldInv, SiblingInv, N!UpdateSound, N!NoOlderSiblings
<1> QED BY <1>1, <1>2, <1>3, PTL DEF N!Spec

-----------------------------------------------------------------------------
(* The node of the retired network (LegacyNode).                           *)

CONSTANTS MaxUrl, MaxRuns
VARIABLES stage, name, model, llama, port, lTunnel, lUrl, heard, token, identity, record, lTries, runs, lFaults, tokens

L == INSTANCE LegacyNode WITH pc <- stage, tunnel <- lTunnel, url <- lUrl, tries <- lTries, told <- heard, faults <- lFaults

LegacySized == MaxUrl \in Nat /\ MaxRuns \in Nat \ {0}

LegacyInv ==
  /\ L!TypeOK /\ L!LegacySound
  /\ model \in L!Model /\ runs \in 0 .. MaxRuns
  /\ identity.name \in L!Name \cup {0} /\ DOMAIN record = L!Name
  \* Its own server serves its own model, and past the check so does whatever answers.
  /\ llama = "up" => port = model
  /\ stage \in {"tunnel", "register", "serving"} /\ port # 0 => port = model
  \* An address that is told is one the tunnel has had.
  /\ heard \in 0 .. lUrl

USE DEF L!Model, L!Name, L!Fault, L!Serving, L!children, L!gatewaySide, L!counters

\* However the process ends in order, or is killed.
LEMMA EndKeeps ==
  ASSUME LegacySized, LegacyInv, stage' = "off", llama' = "none", lTunnel' = "none", port' \in {port, 0},
         identity' \in {identity, L!NoIdentity}, record' \in {record, [record EXCEPT ![name] = L!NoRecord]},
         UNCHANGED <<name, model, lUrl, heard, runs>>
  PROVE  LegacyInv'
<1>1. \A n \in L!Name : record'[n].url \in 0 .. MaxUrl
  BY DEF LegacySized, LegacyInv, L!TypeOK, L!NoRecord
<1>2. DOMAIN record' = L!Name /\ identity'.name \in L!Name \cup {0}
  BY DEF LegacyInv, L!NoIdentity
<1> QED BY <1>1, <1>2 DEF LegacyInv, L!TypeOK, L!LegacySound, L!OwnModel, L!NothingLeft, L!ToldIsTrue

\* A process is started, and its server binds the port, finds it taken or crashes.
LEMMA LlamaStep ==
  ASSUME LegacySized, LegacyInv, L!Start \/ L!LlamaBinds \/ L!LlamaExits \/ L!LlamaCrashes \/ L!Freed
  PROVE  LegacyInv'
<1>1. CASE L!Start
  <2>1. runs' \in 1 .. MaxRuns /\ UNCHANGED <<lUrl, record, identity, port, lTunnel>>
    BY <1>1 DEF L!Start, LegacyInv, LegacySized
  <2>2. name' \in L!Name
    BY <1>1, <2>1 DEF L!Start, L!Names, LegacyInv, LegacySized
  <2>3. stage' = "model" /\ llama' = "loading" /\ model' \in L!Model /\ heard' = 0 /\ heard' \in 0 .. lUrl'
    BY <1>1, <2>1 DEF L!Start, LegacyInv, L!TypeOK, LegacySized
  <2> QED BY <2>1, <2>2, <2>3 DEF LegacyInv, L!TypeOK, L!LegacySound, L!OwnModel, L!NothingLeft, L!ToldIsTrue
<1>2. CASE L!LlamaBinds \/ L!LlamaExits \/ L!LlamaCrashes \/ L!Freed
  BY <1>2 DEF L!LlamaBinds, L!LlamaExits, L!LlamaCrashes, L!Freed,
     LegacyInv, L!TypeOK, L!LegacySound, L!OwnModel, L!NothingLeft, L!ToldIsTrue
<1> QED BY <1>1, <1>2

\* It waits for the model, for the tunnel, and looks at the tunnel.
LEMMA OpeningStep ==
  ASSUME LegacySized, LegacyInv, \/ L!Health /\ port = model
                                 \/ L!OpenTunnel \/ L!Restart \/ L!TunnelMoves \/ L!TunnelEnds
  PROVE  LegacyInv'
<1>1. lUrl' \in {lUrl, lUrl + 1} /\ lUrl' <= MaxUrl /\ heard' = heard /\ (lUrl' = lUrl + 1 => heard' # lUrl')
  BY DEF L!Health, L!OpenTunnel, L!Restart, L!TunnelMoves, L!TunnelEnds, LegacyInv, L!TypeOK, LegacySized
<1>2. lUrl' \in 0 .. MaxUrl /\ heard' \in 0 .. lUrl'
  BY <1>1 DEF LegacyInv, L!TypeOK, LegacySized
<1>3. UNCHANGED <<name, model, llama, port, identity, record, runs, token>>
  BY DEF L!Health, L!OpenTunnel, L!Restart, L!TunnelMoves, L!TunnelEnds
<1>4. /\ stage' \in {stage, "tunnel", "register"} /\ stage # "off" /\ (stage' = "serving" => stage = "serving")
      /\ stage' \in {"tunnel", "register", "serving"} /\ port # 0 => port = model
      /\ lTunnel' \in {lTunnel, "up", "moved", "dead"}
      /\ stage' = "serving" => lUrl' = lUrl \/ heard' # lUrl'
  BY <1>1 DEF L!Health, L!OpenTunnel, L!Restart, L!TunnelMoves, L!TunnelEnds,
     LegacyInv, L!TypeOK, L!LegacySound, L!NothingLeft
<1> QED BY <1>1, <1>2, <1>3, <1>4 DEF LegacyInv, L!TypeOK, L!LegacySound, L!OwnModel, L!NothingLeft, L!ToldIsTrue

\* What the gateway records.
LEMMA RecordedIs ==
  ASSUME LegacyInv, L!Recorded
  PROVE  /\ DOMAIN record' = L!Name
         /\ \A n \in L!Name : record'[n].url \in {record[n].url, lUrl}
         /\ record'[name].url = lUrl
  BY DEF LegacyInv, L!TypeOK, L!Recorded, L!Holds

\* It registers, and tells a new address.
LEMMA TellingStep ==
  ASSUME LegacySized, LegacyInv, L!Register \/ (L!NotYet /\ UNCHANGED stage) \/ L!Reannounce \/ L!ReannounceFails
  PROVE  LegacyInv'
<1>1. CASE L!Register \/ L!Reannounce
  <2>1. /\ L!Recorded /\ UNCHANGED <<name, model, llama, port, lTunnel, lUrl, runs>>
        /\ stage' = "serving" /\ stage \in {"register", "serving"} /\ heard' = lUrl
        /\ identity'.name \in {name, identity.name}
    BY <1>1 DEF L!Register, L!Reannounce
  <2> QED BY <2>1, RecordedIs
          DEF LegacyInv, L!TypeOK, L!LegacySound, L!OwnModel, L!NothingLeft, L!ToldIsTrue
<1>2. CASE L!NotYet /\ UNCHANGED stage
  <2>1. CASE lFaults < MaxFaults /\ stage = "register" /\ UNCHANGED <<llama, port, lTunnel>>
    <3>1. (L!Recorded \/ UNCHANGED record) /\ UNCHANGED <<name, model, lUrl, heard, token, identity, runs>>
      BY <1>2 DEF L!NotYet
    <3> QED BY <1>2, <2>1, <3>1, RecordedIs
            DEF LegacyInv, L!TypeOK, L!LegacySound, L!OwnModel, L!NothingLeft, L!ToldIsTrue
  <2> QED BY <1>2, <2>1 DEF L!NotYet, L!Dies
<1>3. CASE L!ReannounceFails
  <2>1. /\ L!Recorded \/ UNCHANGED record
        /\ UNCHANGED <<stage, name, model, llama, port, lTunnel, lUrl, heard, token, identity, runs>>
        /\ heard # lUrl /\ stage = "serving"
    BY <1>3 DEF L!ReannounceFails
  <2> QED BY <2>1, RecordedIs
          DEF LegacyInv, L!TypeOK, L!LegacySound, L!OwnModel, L!NothingLeft, L!ToldIsTrue
<1> QED BY <1>1, <1>2, <1>3

\* It ends: in order, or killed.
LEMMA NodeEndsStep ==
  ASSUME LegacySized, LegacyInv, \/ L!Health /\ port # model
                                 \/ L!NoHealth \/ L!NoTunnel \/ L!Refuse
                                 \/ L!ChildEnded \/ L!Leave \/ L!LeavesUnheard \/ L!NoRestart \/ L!Interrupt \/ L!Kill
  PROVE  LegacyInv'
<1>1. /\ stage' = "off" /\ llama' = "none" /\ lTunnel' = "none" /\ port' \in {port, 0}
      /\ UNCHANGED <<name, model, lUrl, heard, runs>>
  BY DEF L!Health, L!NoHealth, L!NoTunnel, L!Refuse, L!ChildEnded, L!Leave, L!Leaves, L!LeavesUnheard,
     L!NoRestart, L!Interrupt, L!Kill, L!Dies, L!StopChildren
<1>2. /\ identity' \in {identity, L!NoIdentity}
      /\ record' \in {record, [record EXCEPT ![name] = L!NoRecord]}
  BY DEF L!Health, L!NoHealth, L!NoTunnel, L!Refuse, L!ChildEnded, L!Leave, L!Leaves, L!LeavesUnheard,
     L!NoRestart, L!Interrupt, L!Kill
<1> QED BY <1>1, <1>2, EndKeeps

\* The last try of a registration ends the process; the gateway may have recorded it.
LEMMA GivesUpStep ==
  ASSUME LegacySized, LegacyInv, L!NotYet, stage' # stage
  PROVE  LegacyInv'
<1>1. /\ stage' = "off" /\ llama' = "none" /\ lTunnel' = "none" /\ port' \in {port, 0}
      /\ L!Recorded \/ UNCHANGED record
      /\ UNCHANGED <<name, model, lUrl, heard, token, identity, runs>>
  BY DEF L!NotYet, L!Dies, L!StopChildren
<1> QED BY <1>1, RecordedIs DEF LegacyInv, L!TypeOK, L!LegacySound, L!OwnModel, L!NothingLeft, L!ToldIsTrue

\* For any addresses, runs and faults: what answers at a node's port is its own model, a process that ended in
\* order leaves nothing behind, and what the node believes it has told the gateway is so (LegacySound).
THEOREM RetiredSound == ASSUME LegacySized PROVE L!Spec => [](L!TypeOK /\ L!LegacySound)
<1>1. L!Init => LegacyInv
  BY DEF L!Init, LegacySized, LegacyInv, L!TypeOK, L!LegacySound, L!OwnModel, L!NothingLeft, L!ToldIsTrue,
     L!NoRecord, L!NoIdentity
<1>2. LegacyInv /\ [L!Next]_L!vars => LegacyInv'
  <2>1. ASSUME LegacyInv, L!Next PROVE LegacyInv'
    <3>1. L!Health => LegacyInv'
      BY <2>1, OpeningStep, NodeEndsStep
    <3>2. L!NotYet => LegacyInv'
      BY <2>1, TellingStep, GivesUpStep
    <3> QED BY <2>1, <3>1, <3>2, LlamaStep, OpeningStep, TellingStep, NodeEndsStep DEF L!Next, L!Work
  <2>2. ASSUME LegacyInv, UNCHANGED L!vars PROVE LegacyInv'
    BY <2>2 DEF L!vars, LegacyInv, L!TypeOK, L!LegacySound, L!OwnModel, L!NothingLeft, L!ToldIsTrue
  <2> QED BY <2>1, <2>2
<1>3. LegacyInv => L!TypeOK /\ L!LegacySound
  BY DEF LegacyInv
<1> QED BY <1>1, <1>2, <1>3, PTL DEF L!Spec

-----------------------------------------------------------------------------
(* The proxy of that node (WorkerProxy).                                   *)

CONSTANTS Conn, Pieces, MaxRequests
VARIABLES replies, place, up, queue, posed, wFaults, reset, short

W == INSTANCE WorkerProxy WITH gw <- replies, at <- place, asked <- posed, faults <- wFaults

WorkerSized == Pieces \in Nat /\ MaxRequests \in Nat

Queued == {queue[i] : i \in DOMAIN queue}
States == {"idle", "waiting", "reading", "whole", "refused", "cut", "left"}
Reply == [state : States, n : 0 .. Pieces]
WorkerTypes ==
  /\ replies \in [Conn -> Reply]
  /\ place \in [Conn -> {"next", "ask", "copy", "closed"}]
  /\ up \in [Conn -> [state : {"none", "queued", "open", "end"}, n : 0 .. Pieces]]
  /\ queue \in Seq(Conn) /\ posed \in 0 .. MaxRequests /\ short \subseteq Conn
Once == \A i, j \in DOMAIN queue : queue[i] = queue[j] => i = j
WorkerInv ==
  /\ WorkerTypes /\ Once
  \* The model server has what is queued or under way, for a handler that asked and waits or copies.
  /\ \A c \in Conn : c \in Queued => up[c].state \in {"queued", "open"}
  /\ \A c \in Conn : up[c].state # "none" => place[c] \in {"ask", "copy"}
  \* A reply that ended in order is whole, and the gateway has only what was sent of it.
  /\ \A c \in Conn : up[c].state = "end" => up[c].n = Pieces
  /\ \A c \in Conn : place[c] = "ask" => replies[c].n = 0
  /\ \A c \in Conn : place[c] = "copy" => replies[c].n <= up[c].n
  /\ \A c \in Conn : replies[c].state = "whole" => replies[c].n = Pieces \/ c \in short

\* What is left of a sequence without repetitions when an element is taken out.
LEMMA RemovedIs ==
  ASSUME NEW Some, NEW s \in Seq(Some), \A i, j \in DOMAIN s : s[i] = s[j] => i = j, NEW e,
         NEW r, r = W!RemoveFirst(s, e)
  PROVE  /\ r \in Seq(Some)
         /\ \A i, j \in DOMAIN r : r[i] = r[j] => i = j
         /\ \A i \in DOMAIN r : r[i] # e /\ \E j \in DOMAIN s : r[i] = s[j]
<1>1. CASE \E i \in 1 .. Len(s) : s[i] = e
  <2> PICK k \in 1 .. Len(s) : s[k] = e
    BY <1>1
  <2>1. W!SelectInSeq(s, LAMBDA v : v = e) = k
    <3> DEFINE I == {i \in 1 .. Len(s) : s[i] = e}
    <3>1. I = {k}
      OBVIOUS
    <3>2. W!Min(I) = k
      BY <3>1 DEF W!Min
    <3> QED BY <3>1, <3>2 DEF W!SelectInSeq
  <2> DEFINE a == SubSeq(s, 1, k - 1)
             b == SubSeq(s, k + 1, Len(s))
  <2>2. r = a \o b
    BY <1>1, <2>1 DEF W!RemoveFirst, W!RemoveAt
  <2>3. /\ a \in Seq(Some) /\ Len(a) = k - 1 /\ \A i \in 1 .. k - 1 : a[i] = s[i]
        /\ b \in Seq(Some) /\ Len(b) = Len(s) - k /\ \A i \in 1 .. Len(s) - k : b[i] = s[k + i]
    OBVIOUS
  <2> HIDE DEF a, b
  <2>4. r \in Seq(Some) /\ Len(r) = Len(s) - 1
    BY <2>2, <2>3
  <2>5. \A i \in 1 .. Len(r) : r[i] = s[IF i < k THEN i ELSE i + 1]
    <3>1. ASSUME NEW i \in 1 .. Len(r) PROVE r[i] = IF i <= Len(a) THEN a[i] ELSE b[i - Len(a)]
      BY <2>2, <2>3, <2>4
    <3>2. ASSUME NEW i \in 1 .. Len(r), i < k PROVE r[i] = s[i]
      BY <3>1, <3>2, <2>3
    <3>3. ASSUME NEW i \in 1 .. Len(r), ~(i < k) PROVE r[i] = s[i + 1]
      <4>1. i - Len(a) \in 1 .. Len(s) - k /\ k + (i - Len(a)) = i + 1 /\ ~(i <= Len(a))
        BY <3>3, <2>3, <2>4
      <4> QED BY <3>1, <4>1, <2>3
    <3> QED BY <3>2, <3>3
  <2>6. ASSUME NEW i \in DOMAIN r PROVE (IF i < k THEN i ELSE i + 1) \in DOMAIN s \ {k}
    BY <2>4
  <2>7. DOMAIN r = 1 .. Len(r)
    BY <2>4
  <2>8. ASSUME NEW i \in DOMAIN r, NEW j \in DOMAIN r, r[i] = r[j] PROVE i = j
    <3>1. (IF i < k THEN i ELSE i + 1) = (IF j < k THEN j ELSE j + 1)
      BY <2>5, <2>6, <2>7, <2>8
    <3> QED BY <3>1, <2>4, <2>7
  <2>9. ASSUME NEW i \in DOMAIN r PROVE r[i] # e /\ \E j \in DOMAIN s : r[i] = s[j]
    BY <2>5, <2>6, <2>7
  <2> QED BY <2>4, <2>8, <2>9
<1>2. CASE ~\E i \in 1 .. Len(s) : s[i] = e
  <2>1. r = s
    BY <1>2 DEF W!RemoveFirst
  <2> QED BY <1>2, <2>1
<1> QED BY <1>1, <1>2

\* What the gateway has, when its state changes.
LEMMA ReplyIs ==
  ASSUME WorkerSized, replies \in [Conn -> Reply], NEW c \in Conn, NEW st \in States,
         replies' \in {replies, [replies EXCEPT ![c].state = st], [replies EXCEPT ![c] = [state |-> st, n |-> 0]]}
  PROVE  /\ replies' \in [Conn -> Reply]
         /\ \A d \in Conn \ {c} : replies'[d] = replies[d]
         /\ replies'[c].n \in {replies[c].n, 0} /\ replies'[c].state \in {replies[c].state, st}
<1>1. replies[c].n \in 0 .. Pieces /\ 0 \in 0 .. Pieces /\ replies[c].state \in States
  BY DEF WorkerSized, Reply
<1>2. replies' = [replies EXCEPT ![c].state = st] => replies'[c] = [state |-> st, n |-> replies[c].n]
  BY DEF Reply
<1>3. replies' = [replies EXCEPT ![c].state = st] => replies' = [replies EXCEPT ![c] = [state |-> st, n |-> replies[c].n]]
  BY <1>2 DEF Reply
<1> QED BY <1>1, <1>2, <1>3 DEF Reply

\* A request that waits for the model server, or is answered by it, and where its handler is.
LEMMA HandlerKeeps ==
  ASSUME WorkerInv, NEW c \in Conn, WorkerTypes', Once',
         \A d \in Conn \ {c} : replies'[d] = replies[d] /\ place'[d] = place[d] /\ up'[d] = up[d],
         short \ {c} \subseteq short',
         \A d \in Queued' : d \in Queued \/ d = c,
         c \in Queued' => up'[c].state \in {"queued", "open"},
         up'[c].state # "none" => place'[c] \in {"ask", "copy"},
         up'[c].state = "end" => up'[c].n = Pieces,
         place'[c] = "ask" => replies'[c].n = 0,
         place'[c] = "copy" => replies'[c].n <= up'[c].n,
         replies'[c].state = "whole" => replies'[c].n = Pieces \/ c \in short'
  PROVE  WorkerInv'
  BY DEF WorkerInv

\* The model server's reply is dropped, and the handler goes on to something else than to ask or to copy.
LEMMA ReleasedKeeps ==
  ASSUME WorkerSized, WorkerInv, NEW c \in Conn, W!Released(c), NEW to \in {"next", "closed"}, W!Goes(c, to),
         replies' \in [Conn -> Reply],
         \A d \in Conn \ {c} : replies'[d] = replies[d],
         replies'[c].state = "whole" => replies'[c].n = Pieces \/ c \in short', UNCHANGED posed,
         short' \in {short, short \cup {c}}
  PROVE  WorkerInv'
<1>1. WorkerTypes /\ Once
  BY DEF WorkerInv
<1>2. up' = [up EXCEPT ![c] = [state |-> "none", n |-> 0]] /\ queue' = W!RemoveFirst(queue, c) /\ place' = [place EXCEPT ![c] = to]
  BY DEF W!Released, W!Dropped, W!NoReply, W!Goes
<1>3. /\ queue' \in Seq(Conn) /\ Once'
      /\ \A i \in DOMAIN queue' : queue'[i] # c /\ \E j \in DOMAIN queue : queue'[i] = queue[j]
  <2>1. queue \in Seq(Conn) /\ \A i, j \in DOMAIN queue : queue[i] = queue[j] => i = j
    BY <1>1 DEF WorkerTypes, Once
  <2> QED BY <2>1, <1>2, RemovedIs DEF Once
<1>4. WorkerTypes'
  BY <1>1, <1>2, <1>3 DEF WorkerTypes, WorkerSized
<1>5. c \notin Queued' /\ Queued' \subseteq Queued
  BY <1>3 DEF Queued
<1>6. up'[c].state = "none" /\ place'[c] = to /\ \A d \in Conn \ {c} : place'[d] = place[d] /\ up'[d] = up[d]
  BY <1>1, <1>2 DEF WorkerTypes
<1> QED BY <1>3, <1>4, <1>5, <1>6, HandlerKeeps

\* The gateway's requests, and what it does while they are answered.
LEMMA RequestStep ==
  ASSUME WorkerSized, WorkerInv, NEW c \in Conn, W!Request(c) \/ W!Local(c) \/ W!TooLarge(c) \/ W!Hangup(c) \/ W!Opened(c)
  PROVE  WorkerInv'
<1> USE DEF W!Request, W!Local, W!TooLarge, W!Hangup, W!Opened, W!Got, W!Goes, W!Busy, W!Fault
<1>1. /\ WorkerTypes /\ Once /\ UNCHANGED <<up, queue>>
      /\ \E st \in {"waiting", "refused", "cut", "left", "reading"} :
           replies' \in {replies, [replies EXCEPT ![c].state = st], [replies EXCEPT ![c] = [state |-> st, n |-> 0]]}
  BY DEF WorkerInv
<1>2. WorkerTypes'
  <2>1. replies' \in [Conn -> Reply]
    BY <1>1, ReplyIs DEF WorkerTypes, States
  <2>2. posed' = posed \/ (posed' = posed + 1 /\ posed < MaxRequests)
    OBVIOUS
  <2>3. posed' \in 0 .. MaxRequests
    BY <1>1, <2>2 DEF WorkerTypes, WorkerSized
  <2>4. place' \in [Conn -> {"next", "ask", "copy", "closed"}]
    BY <1>1 DEF WorkerTypes
  <2>5. short' \subseteq short
    OBVIOUS
  <2> QED BY <1>1, <2>1, <2>3, <2>4, <2>5 DEF WorkerTypes
<1>9. short \ {c} \subseteq short' /\ (replies'[c].state = "whole" => short' = short)
  BY <1>2 DEF WorkerInv, WorkerTypes, Reply, States
<1>3. Once' /\ Queued' = Queued
  BY <1>1 DEF Once, Queued
<1>4. \A d \in Conn \ {c} : replies'[d] = replies[d] /\ place'[d] = place[d] /\ up'[d] = up[d]
  BY <1>1 DEF WorkerTypes
<1>5. up'[c].state # "none" => place'[c] \in {"ask", "copy"}
  BY DEF WorkerInv, WorkerTypes
<1>6. place'[c] = "ask" => replies'[c].n = 0
  BY DEF WorkerInv, WorkerTypes, Reply, States
<1>7. place'[c] = "copy" => replies'[c].n <= up'[c].n
  <2>1. up[c].n \in Nat
    BY DEF WorkerInv, WorkerTypes, WorkerSized
  <2>2. place'[c] = "copy" => \/ place[c] = "copy" /\ replies'[c].n = replies[c].n
                              \/ place[c] = "ask" /\ replies'[c].n = replies[c].n
    BY <1>1 DEF WorkerTypes, Reply
  <2> QED BY <1>1, <2>1, <2>2 DEF WorkerInv
<1>8. replies'[c].state = "whole" => replies'[c].n = Pieces \/ c \in short'
  BY <1>9 DEF WorkerInv, WorkerTypes, Reply, States
<1> QED BY <1>1, <1>2, <1>3, <1>4, <1>5, <1>6, <1>7, <1>8, <1>9, HandlerKeeps DEF WorkerInv

\* The handler asks, and the model server writes.
LEMMA ServerWrites ==
  ASSUME WorkerSized, WorkerInv, NEW c \in Conn, W!Ask(c) \/ W!Generate(c)
  PROVE  WorkerInv'
<1>1. WorkerTypes /\ Once /\ UNCHANGED <<replies, place, posed, short>>
  BY DEF WorkerInv, W!Ask, W!Generate
<1>2. CASE W!Ask(c)
  <2>1. /\ place[c] = "ask" /\ up[c].state = "none" /\ up' = [up EXCEPT ![c].state = "queued"]
        /\ queue' = Append(queue, c) /\ c \notin Queued
    BY <1>2 DEF W!Ask, WorkerInv
  <2>2. WorkerTypes'
    <3>1. queue' \in Seq(Conn)
      BY <1>1, <2>1 DEF WorkerTypes
    <3> QED BY <1>1, <2>1, <3>1 DEF WorkerTypes
  <2>4. /\ DOMAIN queue = 1 .. Len(queue) /\ Len(queue) \in Nat /\ DOMAIN queue' = 1 .. Len(queue) + 1
        /\ \A i \in DOMAIN queue' : queue'[i] = IF i \in DOMAIN queue THEN queue[i] ELSE c
    BY <1>1, <2>1 DEF WorkerTypes
  <2>5. Once'
    BY <1>1, <2>1, <2>4 DEF Once, Queued
  <2>6. Queued' \subseteq Queued \cup {c}
    BY <2>4 DEF Queued
  <2>3. up'[c].state = "queued" /\ \A d \in Conn \ {c} : up'[d] = up[d]
    BY <1>1, <2>1 DEF WorkerTypes
  <2> QED BY <1>1, <2>1, <2>2, <2>3, <2>5, <2>6, HandlerKeeps DEF WorkerInv
<1>3. CASE W!Generate(c)
  <2>1. queue # <<>> /\ Head(queue) = c /\ up[c].state \in {"queued", "open"}
    BY <1>3 DEF W!Generate, W!Slot
  <2>2. CASE up[c].n = Pieces
    <3>1. up' = [up EXCEPT ![c] = [@ EXCEPT !.state = "end"]] /\ queue' = Tail(queue)
      BY <1>3, <2>2 DEF W!Generate
    <3>2. WorkerTypes' /\ up'[c].state = "end" /\ up'[c].n = Pieces /\ \A d \in Conn \ {c} : up'[d] = up[d]
      BY <1>1, <2>1, <2>2, <3>1 DEF WorkerTypes
    <3>4. /\ \A i \in DOMAIN queue' : i + 1 \in DOMAIN queue /\ queue'[i] = queue[i + 1] /\ i \in Nat \ {0}
          /\ queue[1] = c /\ 1 \in DOMAIN queue
      BY <1>1, <2>1, <3>1 DEF WorkerTypes
    <3>3. Once' /\ Queued' \subseteq Queued /\ c \notin Queued'
      BY <1>1, <3>4 DEF Once, Queued
    <3> QED BY <1>1, <2>1, <2>2, <3>2, <3>3, HandlerKeeps DEF WorkerInv
  <2>3. CASE up[c].n # Pieces
    <3>1. up' = [up EXCEPT ![c] = [state |-> "open", n |-> @.n + 1]] /\ queue' = queue
      BY <1>3, <2>3 DEF W!Generate
    <3>2. /\ WorkerTypes' /\ up'[c].state = "open" /\ up'[c].n = up[c].n + 1
          /\ \A d \in Conn \ {c} : up'[d] = up[d]
      BY <1>1, <2>3, <3>1 DEF WorkerTypes, WorkerSized
    <3>3. Once' /\ Queued' = Queued
      BY <1>1, <3>1 DEF Once, Queued
    <3>4. replies[c].n \in Nat /\ up[c].n \in Nat
      BY <1>1 DEF WorkerTypes, Reply, States, WorkerSized
    <3> QED BY <1>1, <2>1, <3>2, <3>3, <3>4, HandlerKeeps DEF WorkerInv
  <2> QED BY <2>2, <2>3
<1> QED BY <1>2, <1>3

\* A piece is copied.
LEMMA CopyStep ==
  ASSUME WorkerSized, WorkerInv, NEW c \in Conn, W!Copy(c)
  PROVE  WorkerInv'
<1>1. WorkerTypes /\ Once /\ place[c] = "copy" /\ replies[c].n < up[c].n /\ UNCHANGED <<posed, short>>
  BY DEF WorkerInv, W!Copy
<1>2. CASE W!Busy(c)
  <2>1. replies' = [replies EXCEPT ![c].n = @ + 1] /\ UNCHANGED <<place, up, queue>> /\ replies[c].state # "whole"
    BY <1>2 DEF W!Copy, W!Busy
  <2>2. replies[c].n \in Nat /\ up[c].n \in 0 .. Pieces /\ replies[c].n + 1 \in 0 .. Pieces /\ replies[c].n + 1 <= up[c].n
    BY <1>1 DEF WorkerTypes, Reply, States, WorkerSized
  <2>3. /\ WorkerTypes' /\ replies'[c].n = replies[c].n + 1 /\ replies'[c].state = replies[c].state
        /\ \A d \in Conn \ {c} : replies'[d] = replies[d]
    BY <1>1, <2>1, <2>2 DEF WorkerTypes, Reply, States
  <2>4. Once' /\ Queued' = Queued
    BY <1>1, <2>1 DEF Once, Queued
  <2> QED BY <1>1, <2>1, <2>2, <2>3, <2>4, HandlerKeeps DEF WorkerInv
<1>3. CASE ~W!Busy(c)
  <2>1. W!Released(c) /\ W!Goes(c, "closed") /\ UNCHANGED replies
    BY <1>3 DEF W!Copy
  <2> QED BY <1>1, <2>1, ReleasedKeeps DEF WorkerInv, WorkerTypes
<1> QED BY <1>2, <1>3

\* The handler ends, the reply whole or not.
LEMMA HandlerEnds ==
  ASSUME WorkerSized, WorkerInv, NEW c \in Conn, W!NoBackend(c) \/ W!Ends(c) \/ W!EndsShort(c) \/ W!Breaks(c) \/ W!Reset(c)
  PROVE  WorkerInv'
<1> USE DEF W!NoBackend, W!Ends, W!EndsShort, W!LastChunk, W!Breaks, W!Reset
<1>1. /\ W!Released(c) /\ UNCHANGED posed /\ short' \in {short, short \cup {c}}
      /\ \E to \in {"next", "closed"} : W!Goes(c, to)
  OBVIOUS
<1>2. PICK st \in {"refused", "cut", "whole"} : /\ replies' \in {replies, [replies EXCEPT ![c].state = st]}
                                                /\ st = "whole" => replies' = replies \/ replies[c].n = Pieces \/ c \in short'
  BY DEF WorkerInv
<1>3. replies \in [Conn -> Reply] /\ (replies[c].state = "whole" => replies[c].n = Pieces \/ c \in short)
  BY DEF WorkerInv, WorkerTypes
<1>4. replies' \in [Conn -> Reply] /\ (\A d \in Conn \ {c} : replies'[d] = replies[d]) /\ replies'[c].state \in {replies[c].state, st}
  BY <1>2, <1>3, ReplyIs DEF States
<1>5. replies'[c].n = replies[c].n
  BY <1>2, <1>3 DEF Reply
<1>6. replies'[c].state = "whole" => replies'[c].n = Pieces \/ c \in short'
  BY <1>1, <1>2, <1>3, <1>4, <1>5
<1> QED BY <1>1, <1>4, <1>6, ReleasedKeeps

\* For any connections, replies and faults: what the gateway takes for a whole reply is all of it, but for one that
\* the model server gave a length and ended before; it never has a piece before it was written, and the model server
\* only works for a handler that still wants it (WorkerSound).
THEOREM ProxySound == ASSUME WorkerSized PROVE W!Spec => [](W!TypeOK /\ W!WorkerSound)
<1>1. W!Init => WorkerInv
  BY DEF W!Init, W!NoReply, WorkerSized, WorkerInv, WorkerTypes, Reply, States, Once, Queued
<1>2. WorkerInv /\ [W!Next]_W!vars => WorkerInv'
  <2>1. ASSUME WorkerInv, W!Next PROVE WorkerInv'
    BY <2>1, RequestStep, ServerWrites, CopyStep, HandlerEnds DEF W!Next, W!Work
  <2>2. ASSUME WorkerInv, UNCHANGED W!vars PROVE WorkerInv'
    BY <2>2 DEF W!vars, WorkerInv, WorkerTypes, Once, Queued
  <2> QED BY <2>1, <2>2
<1>3. WorkerInv => W!TypeOK /\ W!WorkerSound
  <2>1. ASSUME WorkerInv PROVE W!TypeOK /\ W!Exact
    BY <2>1 DEF WorkerInv, WorkerTypes, Reply, States, W!TypeOK, W!Exact
  <2>2. ASSUME WorkerInv PROVE W!SlotWanted
    <3>1. \A i \in DOMAIN queue : queue[i] \in Conn /\ queue[i] \in Queued
      BY <2>2 DEF WorkerInv, WorkerTypes, Queued
    <3> QED BY <2>2, <3>1 DEF WorkerInv, Once, W!SlotWanted
  <2> QED BY <2>1, <2>2 DEF W!WorkerSound
<1> QED BY <1>1, <1>2, <1>3, PTL DEF W!Spec
=================================================================================
