------------------------------ MODULE DhtTable ------------------------------
(***************************************************************************)
(* One bucket of a DHT node's routing table (commonnet/dht/table.py) and   *)
(* the queue of its maintenance (dht/node.py): who is let in, who is kept  *)
(* in reserve, and who is pinged and evicted.  The other nodes die, come   *)
(* back, and come back at another address; packets are lost.               *)
(*                                                                         *)
(* Buckets do not affect one another: the contacts here are those of one.  *)
(* A task holds the contact itself, so it follows a change of its address  *)
(* for as long as that contact is in the bucket (`held').                  *)
(***************************************************************************)
EXTENDS Integers, Sequences

CONSTANTS
  Peer,       \* the peers whose ids fall into this bucket
  K,          \* size of the bucket and of its cache
  MaxTasks,   \* maxlen of the queue
  MaxAddr, MaxFaults

VARIABLES
  bucket,  \* contacts, least recently seen first
  cache,   \* replacements, newest last
  tasks,   \* the queue
  ping,    \* the task whose ping is under way, or NoTask
  addr,    \* per peer the address it has; 0 when it is not running
  faults

vars == <<bucket, cache, tasks, ping, addr, faults>>

NoTask == [kind |-> "none", peer |-> 0, addr |-> 0, held |-> FALSE]
Contact(p, a) == [peer |-> p, addr |-> a, fails |-> 0]
Peers(s) == {s[i].peer : i \in DOMAIN s}
\* Without the contact of p, of which there is one at most.
Without(s, p) ==
  LET i == CHOOSE j \in DOMAIN s : s[j].peer = p
  IN IF p \notin Peers(s) THEN s ELSE [j \in 1 .. Len(s) - 1 |-> s[IF j < i THEN j ELSE j + 1]]
LastN(s, n) == IF Len(s) <= n THEN s ELSE SubSeq(s, Len(s) - n + 1, Len(s))
Fault == faults < MaxFaults /\ faults' = faults + 1

Init == /\ bucket = <<>> /\ cache = <<>> /\ tasks = <<>> /\ ping = NoTask
        /\ addr = [p \in Peer |-> 1] /\ faults = 0

-----------------------------------------------------------------------------
\* RoutingTable.add: a peer that is known goes to the end; one more goes to the reserve, and the
\* one least recently seen is to be pinged.
Full == Len(bucket) = K
Queued(task) == LastN(Append(tasks, task), MaxTasks)
Follows(task, p, a) == IF task.held /\ task.peer = p THEN [task EXCEPT !.addr = a] ELSE task
AddAgain(p, a) == /\ bucket' = IF Full THEN bucket ELSE Append(bucket, Contact(p, a))
                  /\ cache' = IF Full THEN LastN(Append(Without(cache, p), Contact(p, a)), K) ELSE cache
                  /\ tasks' = IF Full THEN Queued([kind |-> "evict", peer |-> bucket[1].peer,
                                                   addr |-> bucket[1].addr, held |-> TRUE])
                              ELSE tasks
Add(p, a) ==
  IF p \in Peers(bucket)
    THEN /\ bucket' = Append(Without(bucket, p), Contact(p, a))
         /\ tasks' = [i \in DOMAIN tasks |-> Follows(tasks[i], p, a)] /\ UNCHANGED cache
  ELSE IF ~Full
    THEN bucket' = Append(bucket, Contact(p, a)) /\ UNCHANGED <<cache, tasks>>
  ELSE /\ cache' = LastN(Append(Without(cache, p), Contact(p, a)), K)
       /\ tasks' = Queued([kind |-> "evict", peer |-> bucket[1].peer, addr |-> bucket[1].addr,
                           held |-> TRUE])
       /\ UNCHANGED bucket

\* RoutingTable.remove: the newest of the reserve takes the place.
Dropped(task, p) == IF task.peer = p THEN [task EXCEPT !.held = FALSE] ELSE task
RemoveOnly(p) == /\ bucket' = Without(bucket, p)
                 /\ cache' = IF p \in Peers(bucket) THEN cache ELSE Without(cache, p)
                 /\ tasks' = [i \in DOMAIN tasks |-> Dropped(tasks[i], p)]
Remove(p) ==
  /\ tasks' = [i \in DOMAIN tasks |-> Dropped(tasks[i], p)]
  /\ IF p \in Peers(bucket)
       THEN /\ bucket' = IF cache = <<>> THEN Without(bucket, p)
                         ELSE Append(Without(bucket, p), cache[Len(cache)])
            /\ cache' = IF cache = <<>> THEN cache ELSE SubSeq(cache, 1, Len(cache) - 1)
       ELSE cache' = Without(cache, p) /\ UNCHANGED bucket

-----------------------------------------------------------------------------
\* _on_response: a peer that runs answers some request of this node.
Answers(p) == /\ addr[p] # 0 /\ Add(p, addr[p]) /\ UNCHANGED <<ping, addr, faults>>
\* _on_request: a stranger's request has its address verified later.
Stranger(p) == /\ addr[p] # 0 /\ addr[p] \notin {bucket[i].addr : i \in {j \in DOMAIN bucket : bucket[j].peer = p}}
               /\ \A i \in DOMAIN tasks : tasks[i].kind = "verify" => tasks[i].peer # p
               /\ tasks' = Queued([kind |-> "verify", peer |-> p, addr |-> addr[p], held |-> FALSE])
               /\ UNCHANGED <<bucket, cache, ping, addr, faults>>

\* _lookup: a contact that does not answer has failed; twice in a row, and it is dropped (fail).
Unheard(c) == addr[c.peer] # c.addr
FailCounts(i) == bucket' = [bucket EXCEPT ![i].fails = @ + 1] /\ UNCHANGED <<cache, tasks>>
LookupForgives(i) ==
  /\ i \in DOMAIN bucket /\ Unheard(bucket[i])
  /\ bucket' = [bucket EXCEPT ![i].fails = 1] /\ UNCHANGED <<cache, tasks, ping, addr, faults>>
LookupFails(i) ==
  /\ i \in DOMAIN bucket /\ Unheard(bucket[i])
  /\ IF bucket[i].fails + 1 >= 2 THEN Remove(bucket[i].peer) ELSE FailCounts(i)
  /\ UNCHANGED <<ping, addr, faults>>
LookupLost(i) ==
  /\ i \in DOMAIN bucket /\ ~Unheard(bucket[i]) /\ Fault
  /\ IF bucket[i].fails + 1 >= 2 THEN Remove(bucket[i].peer) ELSE FailCounts(i)
  /\ UNCHANGED <<ping, addr>>

\* run_maintenance, _run_task: one ping at a time.
TakeTask == /\ tasks # <<>> /\ ping = NoTask /\ ping' = Head(tasks) /\ tasks' = Tail(tasks)
            /\ UNCHANGED <<bucket, cache, addr, faults>>
Pong == /\ ping # NoTask /\ ping' = NoTask /\ addr[ping.peer] = ping.addr
        /\ Add(ping.peer, ping.addr) /\ UNCHANGED <<addr, faults>>
NoPong == /\ ping # NoTask /\ ping' = NoTask
          /\ IF addr[ping.peer] = ping.addr THEN Fault ELSE UNCHANGED faults
          /\ IF ping.kind = "evict" THEN Remove(ping.peer) ELSE UNCHANGED <<bucket, cache, tasks>>
          /\ UNCHANGED addr

Dies(p) == /\ addr[p] # 0 /\ Fault /\ addr' = [addr EXCEPT ![p] = 0]
           /\ UNCHANGED <<bucket, cache, tasks, ping>>
Returns(p) == /\ addr[p] = 0 /\ \E a \in 1..MaxAddr : addr' = [addr EXCEPT ![p] = a]
              /\ UNCHANGED <<bucket, cache, tasks, ping, faults>>

-----------------------------------------------------------------------------
Maintain == TakeTask \/ Pong \/ NoPong
Next == \/ Maintain
        \/ \E p \in Peer : Answers(p) \/ Stranger(p) \/ Dies(p) \/ Returns(p)
        \/ \E i \in 1..K : LookupFails(i) \/ LookupLost(i)
\* Lookups go on (run_maintenance refreshes every bucket), and so does the queue.
Spec == Init /\ [][Next]_vars /\ WF_vars(Maintain) /\ \A i \in 1..K : WF_vars(LookupFails(i))

-----------------------------------------------------------------------------
\* Types of the state.
TypeOK == /\ bucket \in Seq([peer : Peer, addr : 1..MaxAddr, fails : 0..1]) /\ Len(tasks) <= MaxTasks
          /\ addr \in [Peer -> 0..MaxAddr]

\* RoutingTable.check_invariants: bounds, no duplicates, and nobody both in use and in reserve.
Distinct(s) == \A i, j \in DOMAIN s : s[i].peer = s[j].peer => i = j
CheckInvariants == /\ Len(bucket) <= K /\ Len(cache) <= K /\ Distinct(bucket) /\ Distinct(cache)
                   /\ Peers(bucket) \cap Peers(cache) = {}
\* The reserve is only waiting while the bucket is full: nobody is kept out of a free place.
ReserveIsUsed == cache # <<>> => Full
TableSound == CheckInvariants /\ ReserveIsUsed

\* A peer that has gone for good goes from the table.
DeadLeave == \A p \in Peer : <>[](addr[p] = 0) => <>[](p \notin Peers(bucket))
=============================================================================
