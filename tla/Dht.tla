--------------------------------- MODULE Dht ---------------------------------
(***************************************************************************)
(* Peer records in the DHT (commonnet/dht/node.py, store.py): a peer looks *)
(* up the nodes closest to a key and stores its signed record on each,     *)
(* showing the write token that node gave it; anyone collects the records  *)
(* from some of them.  Packets are lost, and an old store request may      *)
(* arrive late; nodes restart with nothing stored and a new token secret.  *)
(*                                                                         *)
(* One key is modelled: keys do not affect one another, except through the *)
(* limit per source, which is then that of one key.  A token is the secret *)
(* it was made of, 0 for one that no longer fits.                          *)
(***************************************************************************)
EXTENDS Integers, FiniteSets, TLC

CONSTANTS
  Node,          \* the DHT nodes, which are few enough to be all among the closest
  Publisher,     \* the nodes that serve layers, and so publish a record
  Ip, Home,      \* the IP addresses publishers are seen from, and per publisher its first
  Reader,        \* a node that looks for peers, if there is one
  MaxPerKey, MaxPerSource,
  MaxSeq,        \* per publisher
  MaxFaults

VARIABLES
  ip,       \* per publisher the address it is seen from
  data,     \* per node the records it holds: per publisher [seq, src], seq 0 for none
  per,      \* per node and source the counter of its values
  secret,   \* per node, changed by a restart
  token,    \* per publisher and node the token it holds, 0 for none
  seq,      \* per publisher the newest record
  stale,    \* per publisher: records up to this one have gone stale
  store,    \* per publisher its announcement
  late,     \* store requests that have not arrived
  find,     \* the reader's search
  faults

vars == <<ip, data, per, secret, token, seq, stale, store, late, find, faults>>

Source == Ip \cup {"local"}
None == [seq |-> 0, src |-> "local"]
Idle == [pc |-> "idle", attempt |-> 0, todo |-> {}, retry |-> {}, acked |-> {}, stored |-> 0]
NoFind == [pc |-> "idle", todo |-> {}, best |-> [p \in Publisher |-> 0]]
Fault == faults < MaxFaults /\ faults' = faults + 1

Init == /\ ip = Home /\ data = [n \in Node |-> [p \in Publisher |-> None]]
        /\ per = [n \in Node |-> [s \in Source |-> 0]]
        /\ secret = [n \in Node |-> 1] /\ token = [p \in Publisher |-> [n \in Node |-> 0]]
        /\ seq = [p \in Publisher |-> 0] /\ stale = [p \in Publisher |-> 0]
        /\ store = [p \in Publisher |-> Idle] /\ late = {} /\ find = NoFind /\ faults = 0

-----------------------------------------------------------------------------
(* ValueStore.                                                             *)

Live(p, r) == r.seq > stale[p]
\* _prune_locked: what went stale goes, and is no longer counted.
Pruned(n) == [p \in Publisher |-> IF Live(p, data[n][p]) THEN data[n][p] ELSE None]
Counted(d) == [s \in Source |-> Cardinality({p \in Publisher : d[p].seq # 0 /\ d[p].src = s})]
Gone(n) == {p \in Publisher : data[n][p].seq # 0 /\ ~Live(p, data[n][p])}
PrunedCounts(n) == [s \in Source |-> per[n][s] - Cardinality({p \in Gone(n) : data[n][p].src = s})]
Prune(n) == /\ data' = [data EXCEPT ![n] = Pruned(n)] /\ per' = [per EXCEPT ![n] = PrunedCounts(n)]

\* put: whether the record s of p, sent from src, is refused, held already, or kept.
Old(n, p) == Pruned(n)[p]
Room(n, p) == \/ Old(n, p).seq # 0
              \/ Cardinality({q \in Publisher : Pruned(n)[q].seq # 0}) < MaxPerKey
CountWithout(n, p) == IF Old(n, p).seq # 0 THEN [PrunedCounts(n) EXCEPT ![Old(n, p).src] = @ - 1]
                      ELSE PrunedCounts(n)
Refuses(n, p, s, src) == \/ s <= stale[p] \/ Old(n, p).seq > s \/ ~Room(n, p)
                         \/ s # Old(n, p).seq /\ CountWithout(n, p)[src] >= MaxPerSource
PutForgetful(n, p, s, src) ==
  /\ data' = [data EXCEPT ![n] = IF Refuses(n, p, s, src) \/ s = Old(n, p).seq THEN Pruned(n)
                                 ELSE [Pruned(n) EXCEPT ![p] = [seq |-> s, src |-> src]]]
  /\ per' = [per EXCEPT ![n] = IF s <= stale[p] \/ Old(n, p).seq >= s \/ ~Room(n, p) THEN PrunedCounts(n)
                               ELSE IF CountWithout(n, p)[src] >= MaxPerSource THEN CountWithout(n, p)
                               ELSE [CountWithout(n, p) EXCEPT ![src] = @ + 1]]
PutLatest(n, p, s, src) ==
  /\ data' = [data EXCEPT ![n] = IF s <= stale[p] \/ ~Room(n, p) THEN Pruned(n)
                                 ELSE [Pruned(n) EXCEPT ![p] = [seq |-> s, src |-> src]]]
  /\ per' = [per EXCEPT ![n] = IF s <= stale[p] \/ ~Room(n, p) THEN PrunedCounts(n)
                               ELSE [CountWithout(n, p) EXCEPT ![src] = @ + 1]]
Put(n, p, s, src) ==
  IF Refuses(n, p, s, src) \/ s = Old(n, p).seq THEN Prune(n)
  ELSE /\ data' = [data EXCEPT ![n] = [Pruned(n) EXCEPT ![p] = [seq |-> s, src |-> src]]]
       /\ per' = [per EXCEPT ![n] = [CountWithout(n, p) EXCEPT ![src] = @ + 1]]

-----------------------------------------------------------------------------
(* announce, _store_on_closest.                                            *)

\* A new record: kept by this node itself, which is among the closest; the lookup has found some
\* of the others, and each gave a token with its answer.
Publish(p) ==
  /\ store[p].pc = "idle" /\ seq[p] < MaxSeq[p]
  /\ seq' = [seq EXCEPT ![p] = @ + 1]
  /\ \E found \in SUBSET (Node \ {p}) :
       /\ IF found = Node \ {p} THEN UNCHANGED faults ELSE Fault
       /\ token' = [token EXCEPT ![p] = [n \in Node |-> IF n \in found THEN secret[n] ELSE @[n]]]
       /\ store' = [store EXCEPT ![p] = [Idle EXCEPT !.pc = "store", !.todo = found,
                      !.stored = IF Refuses(p, p, seq[p] + 1, "local") THEN 0 ELSE 1]]
  /\ Put(p, p, seq[p] + 1, "local")
  /\ UNCHANGED <<ip, secret, stale, late, find>>
\* The same record again, as it is announced every so often.
AnnounceUnlessHeld(p) ==
  /\ store[p].pc = "idle" /\ seq[p] > 0 /\ data[p][p].seq # seq[p]
  /\ store' = [store EXCEPT ![p] = [Idle EXCEPT !.pc = "store", !.todo = Node \ {p}]]
  /\ token' = [token EXCEPT ![p] = secret] /\ Put(p, p, seq[p], "local")
  /\ UNCHANGED <<ip, secret, seq, stale, late, find, faults>>
Announce(p) ==
  /\ store[p].pc = "idle" /\ seq[p] > 0 /\ \E n \in Node : data[n][p].seq # seq[p]
  /\ store' = [store EXCEPT ![p] = [Idle EXCEPT !.pc = "store", !.todo = Node \ {p},
                 !.stored = IF Refuses(p, p, seq[p], "local") THEN 0 ELSE 1]]
  /\ token' = [token EXCEPT ![p] = secret]
  /\ Put(p, p, seq[p], "local")
  /\ UNCHANGED <<ip, secret, seq, stale, late, find, faults>>

\* One store request: it is answered, or the request or the answer is lost.
Request(p, n) == [p |-> p, src |-> ip[p], n |-> n, seq |-> seq[p], token |-> token[p][n]]
Done(p, n) == store' = [store EXCEPT ![p].todo = @ \ {n}]
Stores(p, n) ==
  /\ store[p].pc = "store" /\ n \in store[p].todo /\ token[p][n] = secret[n]
  /\ ~Refuses(n, p, seq[p], ip[p]) /\ Put(n, p, seq[p], ip[p])
  /\ store' = [store EXCEPT ![p].todo = @ \ {n}, ![p].stored = @ + 1, ![p].acked = @ \cup {n}]
  /\ UNCHANGED <<ip, secret, token, seq, stale, late, find, faults>>
RefusesIt(p, n) ==
  /\ store[p].pc = "store" /\ n \in store[p].todo /\ token[p][n] = secret[n]
  /\ Refuses(n, p, seq[p], ip[p]) /\ Put(n, p, seq[p], ip[p]) /\ Done(p, n)
  /\ UNCHANGED <<ip, secret, token, seq, stale, late, find, faults>>
BadToken(p, n) ==
  /\ store[p].pc = "store" /\ n \in store[p].todo /\ token[p][n] # secret[n]
  /\ token' = [token EXCEPT ![p][n] = 0]
  /\ store' = [store EXCEPT ![p].todo = @ \ {n}, ![p].retry = @ \cup {n}]
  /\ UNCHANGED <<ip, data, per, secret, seq, stale, late, find, faults>>
RequestLost(p, n) ==
  /\ store[p].pc = "store" /\ n \in store[p].todo /\ Fault /\ Done(p, n)
  /\ late' = late \cup {Request(p, n)}
  /\ UNCHANGED <<ip, data, per, secret, token, seq, stale, find>>
AnswerLost(p, n) ==
  /\ store[p].pc = "store" /\ n \in store[p].todo /\ Fault /\ token[p][n] = secret[n] /\ Done(p, n)
  /\ Put(n, p, seq[p], ip[p])
  /\ UNCHANGED <<ip, secret, token, seq, stale, late, find>>
\* A request that was given up arrives all the same.
Late(r) == /\ r \in late /\ late' = late \ {r}
           /\ IF r.token = secret[r.n] THEN Put(r.n, r.p, r.seq, r.src) ELSE UNCHANGED <<data, per>>
           /\ UNCHANGED <<ip, secret, token, seq, stale, store, find, faults>>

\* The nodes that refused the token are pinged for another, and asked once more.
AgainAll(p) ==
  /\ store[p].pc = "store" /\ store[p].todo = {} /\ store[p].retry # {} /\ store[p].attempt = 0
  /\ store' = [store EXCEPT ![p].attempt = 1, ![p].todo = store[p].retry \cup store[p].acked, ![p].retry = {}]
  /\ token' = [token EXCEPT ![p] = [n \in Node |-> IF n \in store[p].retry THEN secret[n] ELSE @[n]]]
  /\ UNCHANGED <<ip, data, per, secret, seq, stale, late, find, faults>>
Again(p) ==
  /\ store[p].pc = "store" /\ store[p].todo = {} /\ store[p].retry # {} /\ store[p].attempt = 0
  /\ store' = [store EXCEPT ![p].attempt = 1, ![p].todo = store[p].retry, ![p].retry = {}]
  /\ token' = [token EXCEPT ![p] = [n \in Node |-> IF n \in store[p].retry THEN secret[n] ELSE @[n]]]
  /\ UNCHANGED <<ip, data, per, secret, seq, stale, late, find, faults>>
Announced(p) ==
  /\ store[p].pc = "store" /\ store[p].todo = {} /\ (store[p].retry = {} \/ store[p].attempt = 1)
  /\ store' = [store EXCEPT ![p] = Idle]
  /\ UNCHANGED <<ip, data, per, secret, token, seq, stale, late, find, faults>>

-----------------------------------------------------------------------------
(* find_peers, _collect.                                                   *)

Better(best, d) == [p \in Publisher |-> IF d[p].seq > best[p] THEN d[p].seq ELSE best[p]]
AnyOf(best, d) == [p \in Publisher |-> IF d[p].seq # 0 THEN d[p].seq ELSE best[p]]
Find == /\ find.pc = "idle" /\ Reader \in Node /\ Prune(Reader)
        /\ find' = [pc |-> "collect", todo |-> Node \ {Reader}, best |-> Better(NoFind.best, Pruned(Reader))]
        /\ UNCHANGED <<ip, secret, token, seq, stale, store, late, faults>>
CollectAny(n) == /\ find.pc = "collect" /\ n \in find.todo /\ Prune(n)
                 /\ find' = [find EXCEPT !.todo = @ \ {n}, !.best = AnyOf(@, Pruned(n))]
                 /\ UNCHANGED <<ip, secret, token, seq, stale, store, late, faults>>
Collect(n) == /\ find.pc = "collect" /\ n \in find.todo /\ Prune(n)
              /\ find' = [find EXCEPT !.todo = @ \ {n}, !.best = Better(@, Pruned(n))]
              /\ UNCHANGED <<ip, secret, token, seq, stale, store, late, faults>>
NoValues(n) == /\ find.pc = "collect" /\ n \in find.todo /\ Fault
               /\ find' = [find EXCEPT !.todo = @ \ {n}]
               /\ UNCHANGED <<ip, data, per, secret, token, seq, stale, store, late>>
\* What has gone stale meanwhile is left out.
Found == /\ find.pc = "collect" /\ find.todo = {}
         /\ find' = [find EXCEPT !.pc = "found",
                       !.best = [p \in Publisher |-> IF @[p] > stale[p] THEN @[p] ELSE 0]]
         /\ UNCHANGED <<ip, data, per, secret, token, seq, stale, store, late, faults>>

-----------------------------------------------------------------------------
\* Time passes (LIVE_SECONDS, TOKEN_SECONDS); a node stops and starts again.
GoesStale(p) == /\ stale[p] < seq[p] /\ Fault /\ stale' = [stale EXCEPT ![p] = @ + 1]
                /\ UNCHANGED <<ip, data, per, secret, token, seq, store, late, find>>
Restart(n) ==
  /\ Fault /\ secret' = [secret EXCEPT ![n] = @ + 1]
  /\ data' = [data EXCEPT ![n] = [p \in Publisher |-> None]]
  /\ per' = [per EXCEPT ![n] = [s \in Source |-> 0]]
  /\ token' = [p \in Publisher |-> IF p = n THEN [m \in Node |-> 0] ELSE token[p]]
  /\ store' = [p \in Publisher |-> IF p = n THEN Idle ELSE store[p]]
  /\ find' = IF n = Reader THEN NoFind ELSE find
  /\ UNCHANGED <<ip, seq, stale, late>>

\* A publisher is seen from another address: the tokens were for the old one.
Moves(p) == /\ Fault /\ \E a \in Ip \ {ip[p]} : ip' = [ip EXCEPT ![p] = a]
            /\ token' = [token EXCEPT ![p] = [n \in Node |-> 0]]
            /\ UNCHANGED <<data, per, secret, seq, stale, store, late, find>>

-----------------------------------------------------------------------------
Storing(p) == \/ \E n \in Node : Stores(p, n) \/ RefusesIt(p, n) \/ BadToken(p, n)
              \/ Again(p) \/ Announced(p)
Next == \/ \E p \in Publisher : \/ Publish(p) \/ Announce(p) \/ Storing(p) \/ GoesStale(p) \/ Moves(p)
                                \/ \E n \in Node : RequestLost(p, n) \/ AnswerLost(p, n)
        \/ \E r \in late : Late(r)
        \/ Find \/ Found \/ \E n \in Node : Collect(n) \/ NoValues(n) \/ Restart(n)
Spec == Init /\ [][Next]_vars /\ \A p \in Publisher : WF_vars(Storing(p)) /\ WF_vars(Announce(p))

-----------------------------------------------------------------------------
\* Types of the state.
TypeOK == /\ \A n \in Node, p \in Publisher : data[n][p].seq \in 0..MaxSeq[p]
          /\ \A p \in Publisher : store[p].stored \in 0..Cardinality(Node)

\* The counters of the limits are those of the values that are held, however these came and went.
CountsExact == \A n \in Node : per[n] = Counted(data[n])
\* An announcement counts no replica twice.
CountTrue == \A p \in Publisher : store[p].stored <= Cardinality(store[p].acked) + 1
\* No node holds more of a key, or of a source, than its limits.
LimitsHold == \A n \in Node :
  /\ Cardinality({p \in Publisher : data[n][p].seq # 0}) <= MaxPerKey
  /\ \A s \in Source : Counted(data[n])[s] <= MaxPerSource
DhtSound == CountsExact /\ CountTrue /\ LimitsHold

\* A record that a node of the DHT holds, or a search has met, is never replaced by an older one,
\* whatever arrives late and in whatever order: it goes by growing stale, or with the node.
KeepsNewest == \A p \in Publisher :
  /\ \A n \in Node : data'[n][p].seq < data[n][p].seq =>
                       data[n][p].seq <= stale[p] \/ secret'[n] # secret[n]
  /\ find.pc = "collect" /\ find'.best[p] < find.best[p] =>
       find.best[p] <= stale[p] \/ secret'[Reader] # secret[Reader]
NeverOlder == [][KeepsNewest]_vars

\* Whoever goes on announcing has its newest record, again and again, on every node that takes it.
Missing(n, p) == data[n][p].seq # seq[p] /\ seq[p] > stale[p] /\ ~Refuses(n, p, seq[p], ip[p])
Spreads == \A p \in Publisher, n \in Node : []<>~Missing(n, p)
=============================================================================
