----------------------------- MODULE PeerService -----------------------------
(***************************************************************************)
(* A peer of the layer network as a process of its machine: `common join`  *)
(* in a terminal and as a background service (join/join.py), the set-up    *)
(* that comes before the node (join/layers.py: the checks, the code, the   *)
(* Python environment), the status file that the other commands read, and  *)
(* `common leave` (common/common.py).  The service manager (external)      *)
(* starts the service again whenever it ends.                              *)
(*                                                                         *)
(* A terminal and a service may run at once, and set the machine up at     *)
(* once: nothing keeps them apart.  They share the code, the environment   *)
(* and the status file.  Process ids are never reused.                     *)
(***************************************************************************)
EXTENDS Naturals

CONSTANTS
  Options,      \* what the user may ask for: a subset of Asks
  MaxCommands, MaxFaults

VARIABLES
  proc,      \* per process: its step, options and pid, and the code it runs (2: whole)
  service,   \* the options the installed service has, or NoService
  asked,     \* what the user asked of the service
  status,    \* the status file: the pid and state last written
  tick,      \* per process: a status that was read and is not written yet
  source, staging,  \* the code's directory and the one it is unpacked to: 0 none, 1 in part, 2 whole,
                    \* 3 marked as whole and perhaps not
  venv,      \* "none", "bare" (a Python without pip), "pip", "full"
  disturbed, \* for the properties: processes during whose set-up another wrote the code, or
             \* that took what two had written, or one had begun to remove, for whole
  leave,     \* `common leave`: its step and the pid it has signalled
  pids, commands, faults

vars == <<proc, service, asked, status, tick, source, staging, venv, disturbed, leave, pids, commands, faults>>
disk == <<source, staging, venv, disturbed>>
budget == <<commands, faults>>

Process == {"terminal", "service"}
SetUp == {"check", "fetch", "unpack", "swap", "clear", "replace", "runtime", "venv", "pip", "import"}
Asks == [network : {"plain", "named", "preset"}, api : {"unset", "off", "port"},
         direct : {"unset", "no", "forced"}]
NoService == [network |-> "none", api |-> "none", direct |-> "none"]
Off == [pc |-> "off", ask |-> NoService, pid |-> 0, code |-> 0]
Running == {"node", "up", "leaving"}
Alive(pid) == \E p \in Process : proc[p].pid = pid /\ proc[p].pc \in Running
Fault == faults < MaxFaults /\ faults' = faults + 1
Goes(p, pc) == proc' = [proc EXCEPT ![p].pc = pc]
Ends(p) == proc' = [proc EXCEPT ![p] = Off]

Init == /\ proc = [p \in Process |-> Off] /\ service = NoService /\ asked = NoService
        /\ status = [state |-> "absent", pid |-> 0] /\ tick = [p \in Process |-> "none"]
        /\ source = 0 /\ staging = 0 /\ venv = "none" /\ disturbed = {} /\ leave = [pc |-> "idle", pid |-> 0]
        /\ pids = 0 /\ commands = 0 /\ faults = 0

-----------------------------------------------------------------------------
(* main of join.py: what the node is run with, and what the service is.    *)

Direct(ask) == [unset |-> "auto", no |-> "tunnel", forced |-> "direct"][ask.direct]
Runs(ask) ==
  [network |-> IF ask.network = "plain" /\ ask.direct = "forced" THEN "dht" ELSE ask.network,
   api |-> [unset |-> "port", off |-> "none", port |-> "port"][ask.api],
   direct |-> Direct(ask)]
\* The service's own command line: it says nothing of an API that is switched off.
ServiceArgvNoDirect(ask) == [ask EXCEPT !.api = IF @ = "off" THEN "unset" ELSE "port",
                                        !.direct = IF @ = "no" THEN "unset" ELSE @]
ServiceArgv(ask) == [ask EXCEPT !.api = IF @ = "off" THEN "unset" ELSE "port"]

Command == commands < MaxCommands /\ commands' = commands + 1
Forgotten == leave' = [pc |-> "idle", pid |-> 0]

\* `common join` in a terminal: it runs the node with what it was asked for.
Join == /\ Command /\ proc["terminal"].pc = "off" /\ Forgotten
        /\ proc' = [proc EXCEPT !["terminal"] = [Off EXCEPT !.pc = "check"]]
        /\ UNCHANGED <<service, asked, status, tick, disk, pids, faults>>
\* SIGTERM: a node leaves the network; a set-up just ends.
Stopped(q) == IF q.pc \in Running THEN [q EXCEPT !.pc = "leaving"] ELSE Off
\* install_permanent: the service that runs is stopped, for the new one.
Install == /\ Command /\ Forgotten
           /\ \E ask \in Options : service' = ServiceArgv(ask) /\ asked' = ask
           /\ proc' = [proc EXCEPT !["service"] = Stopped(@)]
           /\ UNCHANGED <<status, tick, disk, pids, faults>>
StartsAtLogin == /\ service # NoService /\ proc["service"].pc = "off" /\ pids = 0
                 /\ proc' = [proc EXCEPT !["service"] = [Off EXCEPT !.pc = "check", !.ask = service]]
                 /\ UNCHANGED <<service, asked, status, tick, disk, leave, pids, budget>>
\* The service manager (external), told Restart=always or KeepAlive.
ServiceStarts == /\ service # NoService /\ proc["service"].pc = "off"
                 /\ proc' = [proc EXCEPT !["service"] = [Off EXCEPT !.pc = "check", !.ask = service]]
                 /\ UNCHANGED <<service, asked, status, tick, disk, leave, pids, budget>>

-----------------------------------------------------------------------------
(* layers.run: the set-up.                                                 *)

rest == <<service, asked, status, tick, leave, pids>>
SettingUp(p) == proc[p].pc \in SetUp \ {"check"} \/ (proc[p].pc = "node" /\ proc[p].pid = 0)
WritesCode(p) == disturbed' = disturbed \cup {q \in Process \ {p} : SettingUp(q)}

\* preflight: a machine that cannot join is told before anything is fetched.
Preflight(p) == /\ proc[p].pc = "check" /\ Goes(p, "fetch")
                /\ disturbed' = disturbed \ {p}
                /\ UNCHANGED <<rest, source, staging, venv, budget>>
\* ensure_source: code that is marked as of the version asked for is used, if that is not a branch.
Reuse(p) == /\ proc[p].pc = "fetch" /\ source \in {2, 3} /\ Goes(p, "runtime")
            /\ disturbed' = IF source = 3 THEN disturbed \cup {p} ELSE disturbed
            /\ UNCHANGED <<rest, source, staging, venv, budget>>
\* Another version, or a branch (the default), is fetched anew.
Fetch(p) == /\ proc[p].pc = "fetch" /\ Goes(p, "unpack")
            /\ staging' = 1 /\ WritesCode(p)
            /\ UNCHANGED <<rest, source, venv, budget>>
\* The mark is written last. Where another has removed or unpacked at the same place meanwhile, what
\* there is may have its mark and not all its files, or not pass as the code.
Unpack(p) == /\ proc[p].pc = "unpack" /\ WritesCode(p)
             /\ \/ staging' = (IF p \in disturbed THEN 3 ELSE 2) /\ Goes(p, "swap")
                \/ p \in disturbed /\ staging' \in {staging, 0} /\ Ends(p)
             /\ UNCHANGED <<rest, source, venv, budget>>
\* The code of before is removed, a file at a time, and what was unpacked takes its place.
Swap(p) == /\ proc[p].pc = "swap" /\ WritesCode(p) /\ Goes(p, "clear")
           /\ source' = IF source = 2 THEN 3 ELSE source
           /\ UNCHANGED <<rest, staging, venv, budget>>
\* Of code that another moved in meanwhile, some may stay.
Clear(p) == /\ proc[p].pc = "clear" /\ WritesCode(p) /\ Goes(p, "replace")
            /\ source' \in IF source = 2 THEN {0, 3} ELSE {0}
            /\ UNCHANGED <<rest, staging, venv, budget>>
Replace(p) == /\ proc[p].pc = "replace" /\ WritesCode(p)
              /\ IF staging # 0 /\ source = 0 THEN source' = staging /\ staging' = 0 /\ Goes(p, "runtime")
                 ELSE UNCHANGED <<source, staging>> /\ Ends(p)
              /\ UNCHANGED <<rest, venv, budget>>

\* ensure_runtime: the environment is used if the node can be imported in it, and made if not.
\* Of code that is there in part, the import may fail.
Runtime(p) == /\ proc[p].pc = "runtime"
              /\ \/ venv = "full" /\ source # 0 /\ Goes(p, "node")
                 \/ venv = "none" /\ Goes(p, "venv")
                 \/ venv # "none" /\ (venv = "full" => source # 2) /\ Goes(p, "pip")
              /\ UNCHANGED <<rest, disk, budget>>
\* python -m venv: the interpreter first, pip after it.
MakeVenv(p) == /\ proc[p].pc = "venv"
               /\ IF venv = "none" THEN venv' = "bare" /\ UNCHANGED proc
                  ELSE venv' = (IF venv = "bare" THEN "pip" ELSE venv) /\ Goes(p, "pip")
               /\ UNCHANGED <<rest, source, staging, disturbed, budget>>
Pip(p) == /\ proc[p].pc = "pip"
          /\ IF venv = "bare" THEN Ends(p) /\ UNCHANGED venv ELSE venv' = "full" /\ Goes(p, "import")
          /\ UNCHANGED <<rest, source, staging, disturbed, budget>>
Import(p) == /\ proc[p].pc = "import"
             /\ (source # 0 /\ Goes(p, "node")) \/ (source # 2 /\ Ends(p))
             /\ UNCHANGED <<rest, disk, budget>>
\* A check, a download or an install fails, or the set-up is interrupted or killed.
SetUpFails(p) == /\ proc[p].pc \in SetUp /\ Fault /\ Ends(p)
                 /\ \/ UNCHANGED disk
                    \/ /\ proc[p].pc = "unpack" /\ staging' = 0 /\ WritesCode(p)
                       /\ UNCHANGED <<source, venv>>
                 /\ UNCHANGED <<rest, commands>>

-----------------------------------------------------------------------------
(* The node, as the other commands see it.                                 *)

Start(p) == /\ proc[p].pc = "node" /\ proc[p].pid = 0 /\ source # 0
            /\ pids' = pids + 1
            /\ proc' = [proc EXCEPT ![p].pid = pids + 1, ![p].code = source]
            /\ status' = [state |-> "starting", pid |-> pids + 1]
            /\ UNCHANGED <<service, asked, tick, disk, leave, budget>>
\* Python does not find the code, or not all of it: the process ends, and nothing is written.
CannotStart(p) == /\ proc[p].pc = "node" /\ proc[p].pid = 0 /\ source # 2 /\ Ends(p)
                  /\ UNCHANGED <<rest, disk, budget>>
NodeUp(p) == /\ proc[p].pc = "node" /\ proc[p].pid # 0 /\ Goes(p, "up")
             /\ status' = [state |-> "up", pid |-> proc[p].pid]
             /\ UNCHANGED <<service, asked, tick, disk, leave, pids, budget>>
\* _status_loop: the status is put together first, and written after.
TickReads(p) == /\ proc[p].pc = "up" /\ tick[p] = "none" /\ tick' = [tick EXCEPT ![p] = "up"]
                /\ UNCHANGED <<proc, service, asked, status, disk, leave, pids, budget>>
TickWrites(p) == /\ tick[p] # "none" /\ tick' = [tick EXCEPT ![p] = "none"]
                 /\ status' = [state |-> tick[p], pid |-> proc[p].pid]
                 /\ UNCHANGED <<proc, service, asked, disk, leave, pids, budget>>
\* stop(): the status loop has ended before the last status is written.
LeavesAtOnce(p) == /\ proc[p].pc = "leaving" /\ proc[p].pid # 0
                   /\ status' = [state |-> "stopped", pid |-> proc[p].pid]
                   /\ IF tick[p] = "none" THEN Ends(p) ELSE UNCHANGED proc
                   /\ UNCHANGED <<service, asked, tick, disk, leave, pids, budget>>
Leaves(p) == /\ proc[p].pc = "leaving" /\ tick[p] = "none"
             /\ status' = IF proc[p].pid = 0 THEN status
                          ELSE [state |-> "stopped", pid |-> proc[p].pid]
             /\ Ends(p)
             /\ UNCHANGED <<service, asked, tick, disk, leave, pids, budget>>
\* The node cannot start, or fails: it says so, and stops.
NodeFails(p) == /\ proc[p].pc = "node" /\ proc[p].pid # 0 /\ Fault /\ Ends(p)
                /\ status' = [state |-> "error", pid |-> proc[p].pid]
                /\ UNCHANGED <<service, asked, tick, disk, leave, pids, commands>>
\* Killed: nothing is written.
Crash(p) == /\ proc[p].pc \in Running /\ Fault /\ Ends(p) /\ tick' = [tick EXCEPT ![p] = "none"]
            /\ UNCHANGED <<service, asked, status, disk, leave, pids, commands>>
\* Ctrl-C in the terminal.
CtrlC == /\ proc["terminal"].pc \in Running \ {"leaving"} /\ Fault
         /\ Goes("terminal", "leaving")
         /\ UNCHANGED <<service, asked, status, tick, disk, leave, pids, commands>>

-----------------------------------------------------------------------------
(* `common leave`.                                                         *)

\* _read_layer_status
Health == IF status.state \in {"absent", "stopped"} THEN status.state
          ELSE IF Alive(status.pid) THEN status.state ELSE "crashed"
LeaveGoes(pc) == leave' = [leave EXCEPT !.pc = pc]
Leave == /\ Command /\ leave.pc \in {"idle", "done"}
         /\ leave' = [pc |-> "read", pid |-> 0]
         /\ UNCHANGED <<proc, service, asked, status, tick, disk, pids, faults>>
\* _stop_layer_peer: the peer of the status file is asked to leave, if it is there.
Ask == /\ leave.pc = "read"
       /\ IF Health \in {"absent", "stopped", "crashed"} THEN LeaveGoes("remove") /\ UNCHANGED proc
          ELSE /\ leave' = [pc |-> "wait", pid |-> status.pid]
               /\ proc' = [p \in Process |-> IF proc[p].pid = status.pid /\ proc[p].pc \in Running
                                             THEN [proc[p] EXCEPT !.pc = "leaving"] ELSE proc[p]]
       /\ UNCHANGED <<service, asked, status, tick, disk, pids, budget>>
\* It has left, or it is taking its time.
Waited == /\ leave.pc = "wait" /\ LeaveGoes("remove")
          /\ UNCHANGED <<proc, service, asked, status, tick, disk, pids, budget>>
\* remove_permanent: the service is stopped and its definition deleted.
RemoveFile == /\ leave.pc = "remove" /\ LeaveGoes("done")
              /\ service' = IF proc["service"].pc = "off" THEN NoService ELSE service
              /\ proc' = [proc EXCEPT !["service"] = Stopped(@)]
              /\ UNCHANGED <<asked, status, tick, disk, pids, budget>>
Remove == /\ leave.pc = "remove" /\ LeaveGoes("done") /\ service' = NoService
          /\ proc' = [proc EXCEPT !["service"] = Stopped(@)]
          /\ UNCHANGED <<asked, status, tick, disk, pids, budget>>

-----------------------------------------------------------------------------
Works(p) == \/ Preflight(p) \/ Reuse(p) \/ Fetch(p) \/ Unpack(p) \/ Swap(p) \/ Clear(p) \/ Replace(p)
            \/ Runtime(p) \/ MakeVenv(p) \/ Pip(p) \/ Import(p) \/ Start(p) \/ CannotStart(p) \/ NodeUp(p)
            \/ TickWrites(p) \/ Leaves(p)
Leaving == Ask \/ Waited \/ Remove
Next == \/ Join \/ Install \/ ServiceStarts \/ CtrlC \/ Leave \/ Leaving
        \/ \E p \in Process : \/ Works(p) \/ SetUpFails(p) \/ TickReads(p) \/ NodeFails(p) \/ Crash(p)
Spec == /\ Init /\ [][Next]_vars /\ WF_vars(ServiceStarts) /\ WF_vars(Leaving)
        /\ \A p \in Process : WF_vars(Works(p)) /\ WF_vars(TickReads(p))

-----------------------------------------------------------------------------
\* Types of the state.
TypeOK == /\ \A p \in Process : proc[p].pc \in SetUp \cup Running \cup {"off"} /\ proc[p].pid <= pids
          /\ source \in 0..3 /\ staging \in 0..3 /\ disturbed \subseteq Process /\ service \in Asks \cup {NoService}

\* A node never runs code that was unpacked in part, whatever was cut short before and whatever
\* version is asked for (ensure_source unpacks beside the directory and swaps it in); unless
\* another set-up wrote the code while its own was under way, or the code it found marked had been
\* written by two at once or begun to be removed.
WholeCode == \A p \in Process \ disturbed : proc[p].pc \in Running /\ proc[p].pid # 0 => proc[p].code = 2
\* The service runs the node as `common join` with the same options would (_service_argv).
SameAsAsked == proc["service"].pc \in {"node", "up"} => Runs(proc["service"].ask) = Runs(asked)
\* A node that ended in order is not taken for one that is up: no status is written after its last.
LastStatus == status.pid # 0 /\ status.state \in {"stopped", "error"} =>
                \A p \in Process : proc[p].pid # status.pid
\* Once `common leave` is done there is no service, and none starts.
LeftForGood == leave.pc = "done" => service = NoService /\ proc["service"].pc \notin SetUp \cup {"node", "up"}
PeerSound == /\ WholeCode /\ LeftForGood /\ LastStatus
             /\ asked = NoService \/ asked.api = "off" \/ SameAsAsked

\* A service that is installed comes up, however often its set-up fails and whatever else sets the
\* machine up, unless an environment was left without pip, or code marked and not whole, which no
\* set-up with that version repairs; and a peer that was asked to leave does.
ComesUp == \/ service # NoService ~> (service = NoService \/ proc["service"].pc = "up")
           \/ <>[](venv = "bare") \/ <>[](source = 3)
Departs == leave.pc = "done" ~> (leave.pc # "done" \/
                                 (proc["service"].pc = "off" /\ (leave.pid = 0 \/ ~Alive(leave.pid))))
\* What the status file says comes to be so: a peer that stays up is found there.
Found == \A p \in Process : proc[p].pc = "up" ~> (proc[p].pc # "up" \/ Health = "up")
ServiceLives == ComesUp /\ Departs /\ Found
=============================================================================
