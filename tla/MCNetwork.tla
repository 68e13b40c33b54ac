------------------------------ MODULE MCNetwork ------------------------------
(***************************************************************************)
(* What the peers of a network know of one another, for TLC: the signed    *)
(* records (PeerTable), how they travel (Gossip, Dht, Directory), the      *)
(* DHT's routing (DhtTable) and the plan of the whole network (Assign).    *)
(* They meet only in the records, of which PeerTable takes any at any      *)
(* time; so a behaviour of this module is one of one of them, chosen at    *)
(* the start, and one run checks them all.                                 *)
(***************************************************************************)
EXTENDS PeerTable, TLC

CONSTANTS n1, n2

VARIABLES
  active,
  up, broken, age, failures, ask, turn, gFaults,
  ip, data, per, secret, token, seq, stale, store, late, find, hFaults,
  bucket, cache, tasks, ping, addr, tFaults,
  phase, run, dClock, old, done, listed, records, shown, reports, dLate, dFaults,
  gib, live, window, chain, outcome

gossipVars == <<up, broken, age, failures, ask, turn, gFaults>>
dhtVars == <<ip, data, per, secret, token, seq, stale, store, late, find, hFaults>>
tableVars == <<bucket, cache, tasks, ping, addr, tFaults>>
directoryVars == <<phase, run, dClock, old, done, listed, records, shown, reports, dLate, dFaults>>
planVars == <<gib, live, window, chain, outcome>>
allVars == <<active, vars, gossipVars, dhtVars, tableVars, directoryVars, planVars>>

\* Three peers that all have a seed.
G == INSTANCE Gossip WITH
  Peer <- {1, 2, 3}, Seeds <- <<{2}, {1}, {1}>>, FANOUT <- 2, SKIP <- 2, LIVE <- 3, MaxFaults <- 2,
  faults <- gFaults
\* One publisher with two records and a reader; two publishers at two addresses.
HRead == INSTANCE Dht WITH
  Node <- {1, 2, 3}, Publisher <- {1}, Ip <- {"a"}, Home <- (1 :> "a"), Reader <- 3,
  MaxPerKey <- 2, MaxPerSource <- 1, MaxSeq <- (1 :> 2), MaxFaults <- 1, faults <- hFaults
HPut == INSTANCE Dht WITH
  Node <- {1, 2, 3}, Publisher <- {1, 2}, Ip <- {"a", "b"}, Home <- (1 :> "a" @@ 2 :> "b"), Reader <- 0,
  MaxPerKey <- 2, MaxPerSource <- 1, MaxSeq <- (1 :> 1 @@ 2 :> 2), MaxFaults <- 1, faults <- hFaults
T == INSTANCE DhtTable WITH
  Peer <- {1, 2, 3}, K <- 2, MaxTasks <- 1, MaxAddr <- 2, MaxFaults <- 1, faults <- tFaults
D == INSTANCE Directory WITH
  Peer <- {1, 2}, MaxPerNetwork <- 1, MaxClock <- 1, MaxRuns <- 1, MaxDone <- 1, MaxFaults <- 1,
  clock <- dClock, late <- dLate, faults <- dFaults
\* Three stages, and three peers of which one is faster, each with room for one or two.
A == INSTANCE Assign WITH
  Peer <- {1, 2, 3}, Speed <- <<0, 1, 0>>, Gib <- {1, 2},
  Network <- [boundaries |-> <<0, 1, 2, 3>>, layer |-> [any |-> 1], fixed |-> 0, io |-> [any |-> 0], limit |-> 0]

Part == {"records", "gossip", "read", "put", "bucket", "directory", "plan"}

NetworkInit ==
  /\ active \in Part
  /\ Init /\ G!Init /\ T!Init /\ D!Init
  /\ IF active = "put" THEN HPut!Init ELSE HRead!Init
  /\ IF active = "plan" THEN A!Init ELSE A!Init /\ gib = <<1, 1, 1>>

Keep(name) ==
  /\ active = name /\ active' = active
  /\ name # "records" => UNCHANGED vars
  /\ name # "gossip" => UNCHANGED gossipVars
  /\ name \notin {"read", "put"} => UNCHANGED dhtVars
  /\ name # "bucket" => UNCHANGED tableVars
  /\ name # "directory" => UNCHANGED directoryVars
  /\ name # "plan" => UNCHANGED planVars

NetworkNext ==
  \/ active = "records" /\ Next /\ Keep("records")
  \/ active = "gossip" /\ G!Next /\ Keep("gossip")
  \/ active = "read" /\ HRead!Next /\ Keep("read")
  \/ active = "put" /\ HPut!Next /\ Keep("put")
  \/ active = "bucket" /\ T!Next /\ Keep("bucket")
  \/ active = "directory" /\ D!Next /\ Keep("directory")
  \/ active = "plan" /\ A!Next /\ Keep("plan")

\* The fairness of each module, as its Spec has it.
NetworkSpec ==
  /\ NetworkInit /\ [][NetworkNext]_allVars
  /\ WF_gossipVars(active = "gossip" /\ G!Round) /\ WF_gossipVars(active = "gossip" /\ G!Tick)
  /\ WF_dhtVars(active = "read" /\ HRead!Storing(1)) /\ WF_dhtVars(active = "read" /\ HRead!Announce(1))
  /\ WF_tableVars(active = "bucket" /\ T!Maintain)
  /\ \A i \in 1 .. 2 : WF_tableVars(active = "bucket" /\ T!LookupFails(i))
  /\ \A p1 \in {1, 2} : /\ WF_directoryVars(active = "directory" /\ D!Announce(p1))
                        /\ WF_directoryVars(active = "directory" /\ D!Expire(p1))
                        /\ WF_directoryVars(active = "directory" /\ D!Ages(p1) /\ phase[p1] = "stopped")
-----------------------------------------------------------------------------
\* Properties, with those of PeerTable.

\* What gossip makes of a record's age, and that every table is well formed.
NeverFresher == TypeOK /\ G!TypeOK /\ G!NeverFresher
\* Peers that can be reached are seen again, and one that is gone fades.
SeenAgain == active = "gossip" => G!Converges /\ G!Fades

\* The DHT's counters, stores and routing table (store.py, table.py).
DhtSound == /\ active = "read" => HRead!TypeOK /\ HRead!DhtSound
            /\ active = "put" => HPut!TypeOK /\ HPut!DhtSound
            /\ T!TypeOK /\ T!TableSound
\* The gateway's directory and dashboard.
DirectorySound == D!TypeOK /\ D!DirectorySound
\* Neither the DHT nor the gateway goes back to an older word of a peer.
NothingOlder == /\ [][active = "read" => HRead!KeepsNewest]_dhtVars
                /\ [][active = "put" => HPut!KeepsNewest]_dhtVars
                /\ D!NeverBack
\* What is announced spreads over the DHT, and a dead node goes from its tables.
DhtServes == /\ \A n \in 1 .. 3 : []<>(active = "read" => ~HRead!Missing(n, 1))
             /\ active = "bucket" => T!DeadLeave
\* A peer that stays up is in the directory in the end.
UpIsListed == active = "directory" => D!UpIsListed

\* A plan is one that can be served, and none is refused that can.
PlanSound == A!TypeOK /\ A!AssignSound
\* A network that follows its plan keeps it.
Stable == A!Stable
=============================================================================
