----------------------------- MODULE Directory -----------------------------
(***************************************************************************)
(* The gateway's directory and dashboard (gateway/app/directory.py,        *)
(* dashboard.py) and the peers that announce and report to them            *)
(* (node.py, mesh/directory.py, metrics.py).  What a peer sends may be     *)
(* lost, or arrive after what it sent later; the gateway restarts with     *)
(* nothing stored; a peer stops, crashes and starts again.                 *)
(*                                                                         *)
(* A peer's clock[p] is the time of the last thing it signed: the seq and  *)
(* ts of a record, the ts and (within a run of the peer) the seq of a      *)
(* report.  Everything signed up to old[p] is too old to be taken or       *)
(* shown.  A peer's metrics are the chat requests it has completed.        *)
(***************************************************************************)
EXTENDS Integers, FiniteSets

CONSTANTS
  Peer,
  MaxPerNetwork,  \* MAX_PER_NETWORK, MAX_PEERS
  MaxClock,       \* of what need not be signed
  MaxRuns, MaxDone, MaxFaults

VARIABLES
  phase, run, clock, old,   \* per peer
  done,      \* per peer and run the requests completed
  listed,    \* per peer what its log last said: whether it is on the directory
  records,   \* the directory: per peer the seq of its record, 0 for none
  shown,     \* the dashboard: per peer [ts, phase], ts 0 for none
  reports,   \* per peer and run [seq, done], seq 0 for none
  late,      \* sent, given up by the sender, and not arrived
  faults

vars == <<phase, run, clock, old, done, listed, records, shown, reports, late, faults>>
gateway == <<records, shown, reports>>

Run == 1 .. MaxRuns
Fault == faults < MaxFaults /\ faults' = faults + 1
NoPeer == [ts |-> 0, phase |-> "stopped"]
NoReport == [seq |-> 0, done |-> 0]

Init ==
  /\ phase = [p \in Peer |-> "stopped"] /\ run = [p \in Peer |-> 0] /\ clock = [p \in Peer |-> 0]
  /\ old = [p \in Peer |-> 0] /\ done = [p \in Peer |-> [r \in Run |-> 0]]
  /\ listed = [p \in Peer |-> "unknown"] /\ records = [p \in Peer |-> 0]
  /\ shown = [p \in Peer |-> NoPeer] /\ reports = [p \in Peer |-> [r \in Run |-> NoReport]]
  /\ late = {} /\ faults = 0

-----------------------------------------------------------------------------
(* The gateway.                                                            *)

\* _expire: what is kept is dropped some time after it has become too old (TTL, HISTORY_SECONDS).
Kept == Cardinality({p \in Peer : records[p] # 0})
ExpireNothing(p) == UNCHANGED vars
Expire(p) == /\ \/ records[p] # 0 /\ records[p] <= old[p]
                \/ shown[p].ts # 0 /\ shown[p].ts <= old[p]
             /\ records' = [records EXCEPT ![p] = IF @ <= old[p] THEN 0 ELSE @]
             /\ shown' = [shown EXCEPT ![p] = IF @.ts <= old[p] THEN NoPeer ELSE @]
             /\ reports' = [reports EXCEPT ![p] =
                              [r \in Run |-> IF @[r].seq <= old[p] THEN NoReport ELSE @[r]]]
             /\ UNCHANGED <<phase, run, clock, old, done, listed, late, faults>>

Shown == Cardinality({p \in Peer : shown[p].ts # 0})
DashboardFull(m) == shown[m.p].ts = 0 /\ Shown >= MaxPerNetwork
\* _remember: the newest of what a peer's record and its reports say.
RememberAny(m) == shown' = [shown EXCEPT ![m.p] = [ts |-> m.ts, phase |-> m.phase]]
Remember(m) == IF m.ts < shown[m.p].ts \/ DashboardFull(m) THEN UNCHANGED shown
               ELSE shown' = [shown EXCEPT ![m.p] = [ts |-> m.ts, phase |-> m.phase]]

\* /announce: whether it is refused, what it does, and what it answers.
Refused(m) == \/ m.ts <= old[m.p]
              \/ records[m.p] = 0 /\ Kept >= MaxPerNetwork
AnnouncedAny(m) == IF Refused(m) THEN UNCHANGED gateway
                   ELSE /\ records' = [records EXCEPT ![m.p] = m.ts]
                        /\ Remember(m) /\ UNCHANGED reports
Announced(m) ==
  IF Refused(m) \/ records[m.p] > m.ts THEN UNCHANGED gateway
  ELSE /\ records' = [records EXCEPT ![m.p] = m.ts]
       /\ Remember(m) /\ UNCHANGED reports

\* /api/network-report: a report replaces the counts of the one before it, of the same run.
ReportedAdding(m) ==
  IF m.ts <= old[m.p] \/ reports[m.p][m.run].seq >= m.ts \/ DashboardFull(m) THEN UNCHANGED gateway
  ELSE /\ reports' = [reports EXCEPT ![m.p][m.run] = [seq |-> m.ts, done |-> @.done + m.done]]
       /\ Remember(m) /\ UNCHANGED records
Reported(m) ==
  IF m.ts <= old[m.p] \/ reports[m.p][m.run].seq >= m.ts \/ DashboardFull(m) THEN UNCHANGED gateway
  ELSE /\ reports' = [reports EXCEPT ![m.p][m.run] = [seq |-> m.ts, done |-> m.done]]
       /\ Remember(m) /\ UNCHANGED records
Taken(m) == IF m.kind = "record" THEN Announced(m) ELSE Reported(m)

\* Nothing is kept over a restart.
Restart == /\ Fault /\ records' = [p \in Peer |-> 0] /\ shown' = [p \in Peer |-> NoPeer]
           /\ reports' = [p \in Peer |-> [r \in Run |-> NoReport]]
           /\ UNCHANGED <<phase, run, clock, old, done, listed, late>>

-----------------------------------------------------------------------------
(* The peers.                                                              *)

Message(p, kind, at) == [kind |-> kind, p |-> p, ts |-> clock[p] + 1, phase |-> at, run |-> run[p],
                         done |-> IF kind = "report" THEN done[p][run[p]] ELSE 0]
Tick(p) == clock' = [clock EXCEPT ![p] = @ + 1]
\* A message arrives and is answered; or it is lost; or it will come later.
Sent(m) == Taken(m) /\ UNCHANGED <<late, faults>>
NotSent(m) == Fault /\ late' \in {late, late \cup {m}} /\ UNCHANGED gateway

Boot(p) == /\ phase[p] = "stopped" /\ run[p] < MaxRuns
           /\ phase' = [phase EXCEPT ![p] = "loading"] /\ run' = [run EXCEPT ![p] = @ + 1]
           /\ listed' = [listed EXCEPT ![p] = "unknown"]
           /\ UNCHANGED <<clock, old, done, late, faults, gateway>>
Serve(p) == /\ phase[p] = "loading" /\ phase' = [phase EXCEPT ![p] = "up"]
            /\ UNCHANGED <<run, clock, old, done, listed, late, faults, gateway>>
Complete(p) == /\ phase[p] = "up" /\ done[p][run[p]] < MaxDone
               /\ done' = [done EXCEPT ![p][run[p]] = @ + 1]
               /\ UNCHANGED <<phase, run, clock, old, listed, late, faults, gateway>>

\* _announce, _announce_to_directory: while it is up a peer announces itself again and again; an
\* announcement that would change nothing is left out, and a refused one does not count as time.
Due(p) == phase[p] = "up" /\ (listed[p] # "yes" \/ records[p] <= old[p] \/ records[p] = 0)
Announce(p) ==
  /\ Due(p)
  /\ LET m == Message(p, "record", "up")
     IN \/ /\ ~Refused(m) /\ Sent(m) /\ Tick(p) /\ listed' = [listed EXCEPT ![p] = "yes"]
        \/ /\ Refused(m) /\ listed[p] # "no" /\ Sent(m)
           /\ listed' = [listed EXCEPT ![p] = "no"] /\ UNCHANGED clock
        \/ /\ NotSent(m) /\ Tick(p) /\ listed' = [listed EXCEPT ![p] = "no"]
  /\ UNCHANGED <<phase, run, old, done>>
\* Reporter._run: a heartbeat, whatever the phase.
Report(p) == /\ phase[p] \in {"loading", "up"} /\ clock[p] < MaxClock /\ Tick(p)
             /\ LET m == Message(p, "report", phase[p]) IN Sent(m) \/ NotSent(m)
             /\ UNCHANGED <<phase, run, old, done, listed>>
\* A peer stops: the last report says so.  Or it dies.
Stop(p) == /\ phase[p] \in {"loading", "up"} /\ Tick(p) /\ phase' = [phase EXCEPT ![p] = "stopped"]
           /\ LET m == Message(p, "report", "leaving") IN Sent(m) \/ NotSent(m)
           /\ UNCHANGED <<run, old, done, listed>>
Crash(p) == /\ phase[p] # "stopped" /\ Fault /\ phase' = [phase EXCEPT ![p] = "stopped"]
            /\ UNCHANGED <<run, clock, old, done, listed, late, gateway>>

Arrives(m) == /\ m \in late /\ late' = late \ {m} /\ Taken(m)
              /\ UNCHANGED <<phase, run, clock, old, done, listed, faults>>
\* LIVE_SECONDS pass without anything new from the peer.
Ages(p) == /\ old[p] < clock[p] /\ old' = [old EXCEPT ![p] = clock[p]]
           /\ (phase[p] # "stopped" => Fault) /\ (phase[p] = "stopped" => UNCHANGED faults)
           /\ UNCHANGED <<phase, run, clock, done, listed, late, gateway>>

-----------------------------------------------------------------------------
Next == \/ \E p \in Peer : \/ Boot(p) \/ Serve(p) \/ Complete(p) \/ Announce(p) \/ Report(p)
                           \/ Stop(p) \/ Crash(p) \/ Ages(p) \/ Expire(p)
        \/ \E m \in late : Arrives(m)
        \/ Restart
Spec == Init /\ [][Next]_vars
        /\ \A p \in Peer : WF_vars(Announce(p)) /\ WF_vars(Expire(p)) /\ WF_vars(Ages(p) /\ phase[p] = "stopped")

-----------------------------------------------------------------------------
\* Types of the state.
TypeOK == /\ phase \in [Peer -> {"stopped", "loading", "up"}] /\ records \in [Peer -> Nat]
          /\ listed \in [Peer -> {"unknown", "yes", "no"}]

\* The dashboard counts no request twice, however often it was reported and in whatever order: what
\* it adds up is, for each run of a peer, no more than that run has completed.
CountedOnce == \A p \in Peer, r \in Run : reports[p][r].done <= done[p][r]
\* Neither table exceeds its limit, whatever expires, arrives late or is announced again.
LimitsHold == Kept <= MaxPerNetwork /\ Shown <= MaxPerNetwork
DirectorySound == CountedOnce /\ LimitsHold

\* Neither the directory nor the dashboard goes back to an older word of a peer.
KeepsNewer == \A p \in Peer :
  /\ records'[p] >= records[p] \/ records'[p] = 0
  /\ shown'[p].ts >= shown[p].ts \/ shown'[p].ts = 0
NeverBack == [][KeepsNewer]_vars

\* A peer that stays up is in the directory in the end, however the gateway restarts, once the others
\* have left it their places.
UpIsListed == \A p \in Peer :
  <>[](phase[p] = "up" /\ \A q \in Peer \ {p} : phase[q] = "stopped")
    => <>[](records[p] > old[p])
=============================================================================
