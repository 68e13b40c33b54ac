------------------------------- MODULE Direct -------------------------------
(***************************************************************************)
(* A node that serves on an address of its own (direct.py, net/nat.py, and *)
(* what node.py does with them): it asks the router for a port, asks STUN  *)
(* for its address, has somebody outside connect to it, and publishes the  *)
(* address or falls back to a tunnel.  It decides once, and again when the *)
(* machine has slept.  The network may be another one after a sleep, and   *)
(* change under the node; answers of the router may be lost; a thread      *)
(* renews what the router has granted.                                     *)
(***************************************************************************)
EXTENDS Integers, FiniteSets

CONSTANTS
  Net,                  \* some of "open", "nat", "cgnat", "down"
  Cfg,                  \* [manual, fallback, gateway]: what the owner asked for
  Ip,                   \* public addresses
  Dials,                \* check_reachability: tries
  MaxIds,               \* port mappings asked for
  MaxSleeps, MaxMoves, MaxFaults

Own == CHOOSE i \in Ip : TRUE     \* the address of --public-ip

VARIABLES
  cfg,
  net, ip,    \* what the machine is connected to, and its public address
  router,     \* the router's port mappings: [id, lease]
  ids,        \* port mappings asked for so far
  renewing,   \* per mapping, its thread: "off", "on", or "ending": released while it waits for the router
  lost,       \* mappings whose answer, or whose deletion, was lost
  deleted,    \* mappings whose deletion was confirmed
  pc, tries, denied, candidate,   \* deciding
  held,       \* the mapping of the decision, 0 for none
  decision,   \* [kind, ip]
  gw,         \* _gw_check
  connected,  \* addresses somebody outside has connected to since the machine last slept
  dht, server, url, tunnel, bad,
  slept, started, sleeps, moves, faults

decide == <<tries, denied, candidate, held, decision, gw, connected>>
mappings == <<router, ids, renewing, lost, deleted>>
bounds == <<slept, started, sleeps, moves>>
served == <<dht, server, url, tunnel, bad>>
vars == <<cfg, net, ip, mappings, pc, decide, served, bounds, faults>>

Routed == net \in {"nat", "cgnat"}
Fault == faults < MaxFaults /\ faults' = faults + 1
NoAddress == [kind |-> "none", ip |-> 0]
IsDirect(d) == d.kind \in {"manual", "mapped", "stun"}

Init == /\ cfg \in Cfg
        /\ net \in Net /\ ip = Own /\ router = {} /\ ids = 0 /\ renewing = [i \in 1 .. MaxIds |-> "off"]
        /\ lost = {} /\ deleted = {} /\ pc = "serve" /\ tries = 0 /\ denied = FALSE
        /\ candidate = NoAddress /\ held = 0 /\ decision = NoAddress /\ gw = "unasked" /\ connected = {}
        /\ dht = TRUE /\ server = "none" /\ url = "none" /\ tunnel = "none" /\ bad = FALSE
        /\ slept = FALSE /\ started = FALSE /\ sleeps = 0 /\ moves = 0 /\ faults = 0

-----------------------------------------------------------------------------
(* Mapping.                                                                *)

Grant(lease) == /\ ids < MaxIds /\ ids' = ids + 1
                /\ router' = router \cup {[id |-> ids + 1, lease |-> lease]}
\* release: stop the renewal, which may be waiting for an answer, and delete; what fails is forgotten.
Ended(thread) == IF thread = "on" THEN {"off", "ending"} ELSE {"off"}
Release ==
  \/ held = 0 /\ UNCHANGED <<held, mappings, faults>>
  \/ /\ held # 0 /\ held' = 0 /\ UNCHANGED ids
     /\ \E ended \in Ended(renewing[held]) : renewing' = [renewing EXCEPT ![held] = ended]
     /\ \/ /\ Routed /\ router' = {e \in router : e.id # held} /\ deleted' = deleted \cup {held}
           /\ UNCHANGED <<lost, faults>>
        \/ /\ ~Routed /\ lost' = lost \cup {held} /\ UNCHANGED <<router, deleted, faults>>
        \/ /\ Routed /\ Fault /\ lost' = lost \cup {held} /\ UNCHANGED deleted
           /\ router' \in {router, {e \in router : e.id # held}}

\* start_renewal: half of the lease has passed; the router answers, or it does not.
Renew(i) ==
  /\ \/ renewing[i] = "on" /\ UNCHANGED renewing
     \/ renewing[i] = "ending" /\ renewing' = [renewing EXCEPT ![i] = "off"]
  /\ \/ Routed /\ router' = router \cup {[id |-> i, lease |-> "timed"]} /\ UNCHANGED faults
     \/ ~Routed /\ UNCHANGED <<router, faults>>
     \/ Fault /\ UNCHANGED router
  /\ UNCHANGED <<cfg, net, ip, ids, lost, deleted, pc, decide, served, bounds>>
\* A lease runs out once nobody renews it; or the router restarts.
Lapse(e) == /\ e \in router /\ router' = router \ {e}
            /\ \/ e.lease = "timed" /\ renewing[e.id] = "off" /\ UNCHANGED faults
               \/ Fault
            /\ UNCHANGED <<cfg, net, ip, ids, renewing, lost, deleted, pc, decide, served, bounds>>

-----------------------------------------------------------------------------
(* decide.                                                                 *)

\* _serve_direct: the server first, then the decision, unless there is one.
Serve ==
  /\ pc = "serve" /\ server' = "tls"
  /\ \/ decision = NoAddress /\ cfg.manual /\ pc' = "address" /\ candidate' = [kind |-> "manual", ip |-> Own]
     \/ decision = NoAddress /\ ~cfg.manual /\ pc' = "upnp" /\ candidate' = NoAddress
     \/ decision # NoAddress /\ pc' = (IF IsDirect(decision) THEN "publish" ELSE "fallback")
        /\ UNCHANGED candidate
  /\ UNCHANGED <<cfg, net, ip, mappings, tries, denied, held, decision, gw, connected>>
  /\ UNCHANGED <<dht, url, tunnel, bad, bounds, faults>>

\* map_port: UPnP, then PCP, then NAT-PMP.  One that is refused may have been granted.
Ask(leases, next) ==
  /\ \/ /\ Routed /\ pc' = "address" /\ candidate' = [kind |-> "mapped", ip |-> 0]
        /\ \E lease \in leases :
             /\ Grant(lease)
             /\ renewing' = [renewing EXCEPT ![ids + 1] = IF lease = "timed" THEN "on" ELSE "off"]
        /\ held' = ids + 1 /\ UNCHANGED <<lost, faults>>
     \/ /\ pc' = next /\ candidate' = [kind |-> "stun", ip |-> 0] /\ UNCHANGED <<held, renewing>>
        /\ \/ UNCHANGED <<router, ids, lost, faults>>
           \/ Routed /\ Fault /\ Grant("timed") /\ lost' = lost \cup {ids + 1}
  /\ UNCHANGED <<cfg, net, ip, deleted, tries, denied, decision, gw, connected, served, bounds>>
\* A UPnP router may grant permanent leases only (725).
Upnp == pc = "upnp" /\ Ask({"timed", "permanent"}, "pcp")
Pcp == pc = "pcp" /\ Ask({"timed"}, "pmp")
Pmp == pc = "pmp" /\ Ask({"timed"}, "address")

\* What is unreachable gives its mapping back.
UnreachableHolding == /\ decision' = [kind |-> "unreachable", ip |-> 0] /\ candidate' = NoAddress
                      /\ pc' = "fallback" /\ held' = 0 /\ UNCHANGED <<mappings, faults>>
Unreachable == /\ decision' = [kind |-> "unreachable", ip |-> 0] /\ candidate' = NoAddress
               /\ pc' = "fallback" /\ Release

\* The address: the owner's, the router's if it is a public one, or what STUN says.
Seen == IF net = "down" THEN {} ELSE {ip}
StunSays == {0} \cup Seen
Address ==
  /\ pc = "address"
  /\ \E a \in IF candidate.kind = "manual" THEN {Own} ELSE StunSays :
       \/ /\ a # 0 /\ candidate' = [candidate EXCEPT !.ip = a]
          /\ pc' = "check" /\ tries' = Dials /\ denied' = FALSE /\ UNCHANGED <<decision, held, mappings, faults>>
       \/ a = 0 /\ Unreachable /\ UNCHANGED <<tries, denied>>
  /\ UNCHANGED <<cfg, net, ip, gw, connected, served, bounds>>

\* Whether a connection from outside gets through to this address.
Open(a) == a = ip /\ (net = "open" \/ (net = "nat" /\ router # {}))
\* _dial_back: the gateway is asked once; its word counts if it saw the same address.
GatewaySays == IF gw # "unasked" THEN {gw}
               ELSE {"none"} \cup (IF ~cfg.gateway \/ net = "down" THEN {}
                                   ELSE IF candidate.ip # ip THEN {"other"}
                                   ELSE {IF Open(candidate.ip) THEN "yes" ELSE "no"})
HelperSays == {"none"} \cup (IF ~dht \/ net = "down" THEN {}
                             ELSE {IF Open(candidate.ip) THEN "yes" ELSE "no"})
\* Either of them saying yes will do.
Answer(g, h) == IF "yes" \in {g, h} THEN "yes" ELSE IF "no" \in {g, h} THEN "no" ELSE "none"
Published(kind) == /\ decision' = [kind |-> kind, ip |-> candidate.ip] /\ candidate' = NoAddress /\ pc' = "publish"
                   /\ UNCHANGED <<held, mappings, faults>>
\* check_reachability: one yes is enough; what nobody could check is published only for the owner's word.
Dial ==
  /\ pc = "check"
  /\ \E g \in GatewaySays, h \in HelperSays :
       LET no == denied \/ Answer(g, h) = "no"
       IN /\ gw' = g
          /\ connected' = IF (gw = "unasked" /\ g = "yes") \/ h = "yes" THEN connected \cup {candidate.ip}
                          ELSE connected
          /\ \/ /\ Answer(g, h) # "yes" /\ tries > 1 /\ tries' = tries - 1 /\ denied' = no
                /\ UNCHANGED <<pc, decision, candidate, held, mappings, faults>>
             \/ /\ Answer(g, h) = "yes" \/ tries = 1
                /\ tries' = 0 /\ denied' = FALSE
                /\ \/ Answer(g, h) = "yes" /\ Published(candidate.kind)
                   \/ Answer(g, h) # "yes" /\ candidate.kind = "manual" /\ ~no /\ Published("manual")
                   \/ Answer(g, h) # "yes" /\ (candidate.kind # "manual" \/ no) /\ Unreachable
  /\ UNCHANGED <<cfg, net, ip, served, bounds>>

-----------------------------------------------------------------------------
(* The node.                                                               *)

Publish == /\ pc = "publish" /\ url' = "direct" /\ pc' = "idle" /\ started' = TRUE
           /\ UNCHANGED <<cfg, net, ip, mappings, decide, dht, server, tunnel, bad, slept, sleeps, moves, faults>>
\* Not reachable: give up, or serve as without --direct, through the tunnel there is or a new one.
Raise == pc' = IF started THEN "idle" ELSE "stopped"
Fallback ==
  /\ pc = "fallback"
  /\ \/ ~cfg.fallback /\ server' = "none" /\ Raise /\ UNCHANGED started
     \/ cfg.fallback /\ server' = "plain" /\ tunnel = "none" /\ pc' = "tunnel" /\ UNCHANGED started
     \/ cfg.fallback /\ server' = "plain" /\ tunnel # "none" /\ pc' = "idle" /\ started' = TRUE
  /\ UNCHANGED <<cfg, net, ip, mappings, decide, dht, url, tunnel, bad, slept, sleeps, moves, faults>>
OpenTunnel == /\ pc = "tunnel"
              /\ \/ /\ net # "down" /\ tunnel' = "up" /\ url' = "tunnel" /\ bad' = FALSE /\ pc' = "idle"
                    /\ started' = TRUE /\ UNCHANGED faults
                 \/ /\ (net = "down" /\ UNCHANGED faults) \/ Fault
                    /\ Raise /\ UNCHANGED <<started, tunnel, url, bad>>
              /\ UNCHANGED <<cfg, net, ip, mappings, decide, dht, server, slept, sleeps, moves>>

\* _check_tunnel: a tunnel that does not answer twice is replaced.
Answers == url = "tunnel" /\ tunnel = "up" /\ net # "down"
CheckTunnelOnce ==
  /\ pc = "idle" /\ ~slept /\ server # "none" /\ ~IsDirect(decision) /\ tunnel = "none" /\ pc' = "tunnel"
  /\ UNCHANGED <<cfg, net, ip, mappings, decide, served, bounds, faults>>
CheckTunnel ==
  /\ pc = "idle" /\ ~slept /\ server # "none" /\ ~IsDirect(decision)
  /\ \/ tunnel = "none" /\ pc' = "tunnel" /\ UNCHANGED <<tunnel, url, bad>>
     \/ tunnel # "none" /\ Answers /\ bad /\ bad' = FALSE /\ UNCHANGED <<pc, tunnel, url>>
     \/ tunnel # "none" /\ ~Answers /\ ~bad /\ bad' = TRUE /\ UNCHANGED <<pc, tunnel, url>>
     \/ tunnel # "none" /\ ~Answers /\ bad /\ tunnel' = "none" /\ url' = "none" /\ pc' = "tunnel"
        /\ UNCHANGED bad
  /\ UNCHANGED <<cfg, net, ip, mappings, decide, dht, server, bounds, faults>>

\* Another window at the same address.
Move == /\ pc = "idle" /\ ~slept /\ started /\ moves < MaxMoves /\ moves' = moves + 1
        /\ server' = "none" /\ pc' = "serve"
        /\ UNCHANGED <<cfg, net, ip, mappings, decide, dht, url, tunnel, bad, slept, started, sleeps, faults>>

\* The machine sleeps, and wakes somewhere.
Sleep == /\ pc = "idle" /\ sleeps < MaxSleeps /\ sleeps' = sleeps + 1 /\ slept' = TRUE
         /\ net' \in Net /\ ip' \in Ip /\ tunnel' \in {tunnel, IF tunnel = "up" THEN "dead" ELSE tunnel}
         /\ router' \in {router, {e \in router : e.lease = "permanent"}} /\ connected' = {}
         /\ UNCHANGED <<cfg, ids, renewing, lost, deleted, pc, tries, denied, candidate, held, decision, gw>>
         /\ UNCHANGED <<dht, server, url, bad, started, moves, faults>>
\* _reopen_direct_endpoint: everything is forgotten and decided again; without a socket for the DHT the
\* tunnel is used at once, or nothing.
Bound == \/ dht' = TRUE /\ pc' = "serve"
         \/ dht' = FALSE /\ pc' = IF cfg.fallback THEN "fallback" ELSE "idle"
ReopenBelieving ==
  /\ pc = "idle" /\ slept /\ slept' = FALSE /\ server' = "none" /\ url' = "none" /\ decision' = NoAddress
  /\ Release /\ Bound
  /\ UNCHANGED <<cfg, net, ip, tries, denied, candidate, gw, connected, tunnel, bad, started, sleeps, moves>>
Reopen ==
  /\ pc = "idle" /\ slept /\ slept' = FALSE /\ server' = "none" /\ url' = "none" /\ decision' = NoAddress
  /\ Release /\ gw' = "unasked" /\ Bound
  /\ UNCHANGED <<cfg, net, ip, tries, denied, candidate, connected, tunnel, bad, started, sleeps, moves>>

Stop == /\ pc = "idle" /\ pc' = "stopped" /\ server' = "none" /\ url' = "none" /\ tunnel' = "none"
        /\ dht' = FALSE /\ Release
        /\ UNCHANGED <<cfg, net, ip, tries, denied, candidate, decision, gw, connected, bad, bounds>>

\* The network: it comes back; it changes under the node.
NetUp == /\ net = "down" /\ pc # "stopped" /\ net' \in Net \ {"down"}
         /\ UNCHANGED <<cfg, ip, mappings, pc, decide, served, bounds, faults>>
Changes == /\ pc # "stopped" /\ Fault /\ net' \in Net /\ ip' \in Ip /\ (net' # net \/ ip' # ip)
           /\ UNCHANGED <<cfg, mappings, pc, decide, served, bounds>>

-----------------------------------------------------------------------------
Steps == \/ Serve \/ Upnp \/ Pcp \/ Pmp
         \/ Address \/ Dial \/ Publish \/ Fallback \/ OpenTunnel \/ CheckTunnel \/ Reopen
Next == \/ Steps \/ Move \/ Sleep \/ Stop \/ NetUp \/ Changes
        \/ \E i \in 1 .. MaxIds : Renew(i)
        \/ \E e \in router : Lapse(e)
Spec == Init /\ [][Next]_vars /\ WF_vars(Steps) /\ WF_vars(NetUp)

-----------------------------------------------------------------------------
\* Types of the state.
TypeOK == /\ pc \in {"serve", "upnp", "pcp", "pmp", "address", "check", "publish", "fallback", "tunnel",
                     "idle", "stopped"}
          /\ gw \in {"unasked", "none", "other", "yes", "no"} /\ held \in 0 .. ids /\ tries \in 0 .. Dials
          /\ decision.kind \in {"none", "manual", "mapped", "stun", "unreachable"}

\* An address found by the node itself is believed only after somebody outside has connected to it, from
\* where the machine is now; the owner's word stands alone only when nobody could be asked.
Believed == ~slept /\ decision.kind \in {"mapped", "stun"} => decision.ip \in connected
\* A port left open in the router is the decision's, unless an answer of the router was lost or a renewal
\* was being answered.
NoStray == \A e \in router : e.id \in {held} \cup lost \cup deleted
\* What is published is served: the direct address over TLS, the tunnel without.
Served == pc = "idle" /\ ~slept => /\ url = "direct" => server = "tls" /\ IsDirect(decision)
                                   /\ url = "tunnel" => server = "plain" /\ tunnel # "none"
DirectSound == Believed /\ NoStray /\ Served

\* A node that may use a tunnel has an address in the end, one that answers if it is the tunnel's.
Addressed == cfg.fallback => <>(pc = "stopped") \/ <>[](url = "direct" \/ (url = "tunnel" /\ tunnel = "up"))

\* Mapping's docstring: release() deletes it and stops the renewal.
ReleaseHolds == \A e \in router : e.id \notin deleted
\* _after_resume's comment: a tunnel is probed at once, and replaced only when it does not answer.
TunnelKept == pc = "idle" /\ ~slept /\ server = "plain" /\ tunnel = "up" => url = "tunnel"
=============================================================================
