------------------------------ MODULE MCServing ------------------------------
(***************************************************************************)
(* A peer that serves and asks, for TLC: the threads of a node             *)
(* (NodeLifecycle), the address it is reached at (Direct), the direct      *)
(* links to others (RtcLinks) and its local API (Serve).  Each abstracts   *)
(* the others to what it sees of them; a behaviour of this module is one   *)
(* of one of them, chosen at the start, and one run checks them all.       *)
(***************************************************************************)
EXTENDS NodeLifecycle

CONSTANTS front, rest

VARIABLES
  active,
  addr, table, recent, jobs, work, kept, open, plans, out, reader, got, hung, cancelled, outcome,
  ownFront, block, closing, changes,
  state, negotiations, slots, inflight, shared, link, servers, call, lFaults,
  cfg, around, ip, router, ids, renewing, lost, deleted, pc, tries, denied, candidate, mapping, decision,
  gw, connected, dht, server, url, tunnel, bad, slept, started, sleeps, moves, dFaults

serveVars == <<addr, table, recent, jobs, work, kept, open, plans, out, reader, got, hung, cancelled, outcome,
               ownFront, block, closing, changes>>
linkVars == <<state, negotiations, slots, inflight, shared, link, servers, call, lFaults>>
directVars == <<cfg, around, ip, router, ids, renewing, lost, deleted, pc, tries, denied, candidate, mapping, decision,
                gw, connected, dht, server, url, tunnel, bad, slept, started, sleeps, moves, dFaults>>
allVars == <<active, vars, serveVars, linkVars, directVars>>

\* One streamed request and one that is not; a node that serves a front of its own.
V == INSTANCE Serve WITH
  Streamed <- {"s"}, Plain <- {"t"}, Peer <- {1, 2}, AfterFront <- {2}, Seed <- {1}, SharedFront <- TRUE,
  MaxTokens <- 1, MaxChanges <- 2, MaxMoves <- 1, front <- ownFront
R == INSTANCE RtcLinks WITH
  Owner <- {1, 2}, Endpoint <- {1}, Slots <- 2, MaxEndpoints <- 1, MaxLinks <- 2, MaxFaults <- 2,
  OfferWaits <- FALSE, jobs <- negotiations, server <- servers, faults <- lFaults
\* A node behind a router with a tunnel to fall back on, and one told its address; asleep once, or
\* moved to another window once.
Asked == {[manual |-> FALSE, fallback |-> TRUE, gateway |-> TRUE], [manual |-> TRUE, fallback |-> FALSE, gateway |-> FALSE]}
Sleeper == INSTANCE Direct WITH
  Net <- {"open", "nat", "down"}, Cfg <- Asked, Ip <- {1, 2}, Dials <- 2, MaxIds <- 2, MaxSleeps <- 1, MaxMoves <- 0,
  MaxFaults <- 1, net <- around, held <- mapping, faults <- dFaults
Moving == INSTANCE Direct WITH
  Net <- {"open", "nat", "down"}, Cfg <- Asked, Ip <- {1, 2}, Dials <- 2, MaxIds <- 2, MaxSleeps <- 0, MaxMoves <- 1,
  MaxFaults <- 1, net <- around, held <- mapping, faults <- dFaults

Part == {"node", "api", "links", "sleeper", "mover"}
Addressing == {"sleeper", "mover"}

ServingInit ==
  /\ active \in Part
  /\ Init /\ V!Init /\ R!Init
  /\ Sleeper!Init /\ (active \notin Addressing => cfg.manual /\ around = "open")

Keep(it) ==
  /\ active = it /\ active' = active
  /\ it # "node" => UNCHANGED vars
  /\ it # "api" => UNCHANGED serveVars
  /\ it # "links" => UNCHANGED linkVars
  /\ it \notin Addressing => UNCHANGED directVars

ServingNext ==
  \/ active = "node" /\ Next /\ Keep("node")
  \/ active = "api" /\ V!Next /\ Keep("api")
  \/ active = "links" /\ R!Next /\ Keep("links")
  \/ active = "sleeper" /\ Sleeper!Next /\ Keep("sleeper")
  \/ active = "mover" /\ Moving!Next /\ Keep("mover")

\* The fairness of each module, as its Spec has it.
ServingSpec ==
  /\ ServingInit /\ [][ServingNext]_allVars
  /\ WF_vars(active = "node" /\ Main) /\ WF_vars(active = "node" /\ Maintain)
  /\ WF_serveVars(active = "api" /\ V!Work)
  /\ \A r \in V!Request : WF_serveVars(active = "api" /\ V!Take(r))
  /\ \A o \in {1, 2} : WF_linkVars(active = "links" /\ R!Calls(o))
  /\ \A l \in R!Link : WF_linkVars(active = "links" /\ R!Negotiate(l))
  /\ WF_linkVars(active = "links" /\ R!Start(1))
  /\ WF_directVars(active = "sleeper" /\ Sleeper!Steps) /\ WF_directVars(active = "sleeper" /\ Sleeper!NetUp)
  /\ WF_directVars(active = "mover" /\ Moving!Steps) /\ WF_directVars(active = "mover" /\ Moving!NetUp)

-----------------------------------------------------------------------------
\* Properties, with PublishedIsServed of NodeLifecycle.

\* The worker of the local API: routes, links that are shut down, what is counted.
ApiSound == V!TypeOK /\ V!ServeSound
\* The address a node publishes, and the ports it holds open.
AddressSound == TypeOK /\ Sleeper!TypeOK /\ Sleeper!DirectSound
\* The direct links to other peers.
LinksSound == R!TypeOK /\ R!RtcSound

\* A node settles on an address that answers, and ends when it is told to.
NodeLives == /\ RecordSettles /\ LeaveEnds
             /\ active \in Addressing => Sleeper!Addressed
\* Every request ends, and every call.
AnswersEnd == V!ServeEnds /\ R!CallsEnd
=============================================================================
