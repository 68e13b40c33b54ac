----------------------------- MODULE LegacyNode -----------------------------
(***************************************************************************)
(* A node of one machine and one model, as join/join.py runs it for a      *)
(* gateway (--model, --lan): the model server, the worker, the tunnel, the *)
(* registration under a name and the loop that keeps the gateway's address *)
(* current.  The gateway is external: it keeps one record per name, and    *)
(* lets only the holder of the record's token change it.                   *)
(*                                                                         *)
(* Times are left out: a wait ends when it likes.  The model server that   *)
(* answers at the port may be one that an earlier run left behind.         *)
(***************************************************************************)
EXTENDS Integers

CONSTANTS
  MaxUrl,       \* addresses the tunnel has had
  Tries,        \* REANNOUNCE_ATTEMPTS, and tries of the registration
  MaxRuns,
  MaxFaults

VARIABLES
  pc,
  name,      \* the name of this run
  model,     \* the model of this run
  llama,     \* its own model server: "none", "loading", "up"
  port,      \* the model that answers at the port, 0 for none
  tunnel,    \* "none", "up", "moved" (alive, no longer reachable at its address), "dead"
  url,       \* its address
  told,      \* registered_url: the address the gateway has confirmed (0: none)
  token,     \* the token in memory (0: none)
  identity,  \* the file: name and token (0: none)
  record,    \* the gateway's: per name its token and address (token 0: none)
  tries, runs, faults, tokens

vars == <<pc, name, model, llama, port, tunnel, url, told, token, identity, record, tries, runs,
          faults, tokens>>
children == <<model, llama, port>>
gatewaySide == <<record, tokens>>
counters == <<runs, faults>>

Model == {1, 2}
Name == 1..MaxRuns
NoRecord == [token |-> 0, url |-> 0]
NoIdentity == [name |-> 0, token |-> 0]
Fault == faults < MaxFaults /\ faults' = faults + 1

Init == /\ pc = "off" /\ name = 1 /\ model = 1 /\ llama = "none" /\ port = 0
        /\ tunnel = "none" /\ url = 0 /\ told = 0 /\ token = 0 /\ identity = NoIdentity
        /\ record = [n \in Name |-> NoRecord] /\ tries = 0 /\ runs = 0 /\ faults = 0 /\ tokens = 0

-----------------------------------------------------------------------------
\* main: the name that is given (a service's is), or else the identity file's, or a fresh one.
Names(run) == {1, IF identity.name # 0 THEN identity.name ELSE run}
Start ==
  /\ pc = "off" /\ runs < MaxRuns /\ runs' = runs + 1
  /\ name' \in Names(runs') /\ token' = 0 /\ told' = 0 /\ tries' = 0
  /\ model' \in Model
  /\ llama' = "loading" /\ pc' = "model"
  /\ UNCHANGED <<port, tunnel, url, identity, gatewaySide, faults>>

\* Whatever ends the process in order stops its children (stop_children, atexit).
StopChildren == /\ llama' = "none" /\ tunnel' = "none"
                /\ port' = IF llama = "up" THEN 0 ELSE port
Dies == pc' = "off" /\ StopChildren

\* The server binds the port, or finds it taken and exits.
LlamaBinds == /\ llama = "loading" /\ port = 0
              /\ llama' = "up" /\ port' = model
              /\ UNCHANGED <<pc, name, model, tunnel, url, told, token, identity, gatewaySide,
                             tries, counters>>
LlamaExits == /\ llama = "loading" /\ port # 0
              /\ llama' = "none"
              /\ UNCHANGED <<pc, name, model, port, tunnel, url, told, token, identity,
                             gatewaySide, tries, counters>>
LlamaCrashes == /\ llama = "up" /\ Fault /\ llama' = "none" /\ port' = 0
                /\ UNCHANGED <<pc, name, model, tunnel, url, told, token, identity, gatewaySide,
                               tries, runs>>

\* wait_for_llama: /health answers, and /props names the weights that are served.
HealthAlone == /\ pc = "model" /\ port # 0 /\ pc' = "tunnel"
               /\ UNCHANGED <<name, children, tunnel, url, told, token, identity, gatewaySide,
                              tries, counters>>
Health == /\ pc = "model" /\ port # 0
          /\ IF port = model THEN pc' = "tunnel" /\ UNCHANGED <<llama, port, tunnel>> ELSE Dies
          /\ UNCHANGED <<name, model, url, told, token, identity, gatewaySide, tries, counters>>
NoHealth == /\ pc = "model" /\ (llama = "none" \/ (llama = "loading" /\ port = 0))
            /\ llama = "none" \/ faults < MaxFaults
            /\ faults' = IF llama = "none" THEN faults ELSE faults + 1
            /\ Dies
            /\ UNCHANGED <<name, model, url, told, token, identity, gatewaySide, tries, runs>>

\* start_tunnel: a new address, or the end of the process (the model goes with it).
OpenTunnel == /\ pc = "tunnel" /\ url < MaxUrl
              /\ tunnel' = "up" /\ url' = url + 1 /\ pc' = "register"
              /\ UNCHANGED <<name, children, told, token, identity, gatewaySide, tries, counters>>
NoTunnel == /\ pc = "tunnel" /\ Fault /\ Dies
            /\ UNCHANGED <<name, model, url, told, token, identity, gatewaySide, tries, runs>>

-----------------------------------------------------------------------------
\* POST /nodes at the gateway.
Shown == IF token # 0 THEN token ELSE IF identity.name = name THEN identity.token ELSE 0
Refused == record[name].token # 0 /\ record[name].token # Shown
Holds == [token |-> IF record[name].token # 0 THEN record[name].token ELSE tokens + 1, url |-> url]
Recorded == /\ record' = [record EXCEPT ![name] = Holds]
            /\ tokens' = IF record[name].token # 0 THEN tokens ELSE tokens + 1

\* The node is live: the token is kept for the next run, as far as the disk lets it.
Register ==
  /\ pc = "register" /\ ~Refused /\ Recorded
  /\ token' = Holds.token /\ told' = url /\ pc' = "serving" /\ tries' = 0
  /\ \/ identity' = [name |-> name, token |-> Holds.token] /\ UNCHANGED faults
     \/ Fault /\ UNCHANGED identity
  /\ UNCHANGED <<name, children, tunnel, url, runs>>
Refuse == /\ pc = "register" /\ Refused /\ Dies
          /\ UNCHANGED <<name, model, url, told, token, identity, gatewaySide, tries, counters>>
\* The gateway cannot resolve the address yet, or its answer does not arrive: again, up to
\* RETRY_MAX_WAIT.
NotYet == /\ pc = "register" /\ ~Refused /\ Fault
          /\ \/ UNCHANGED gatewaySide
             \/ Recorded
          /\ IF tries + 1 < Tries THEN tries' = tries + 1 /\ UNCHANGED <<pc, llama, port, tunnel>>
             ELSE Dies /\ UNCHANGED tries
          /\ UNCHANGED <<name, model, url, told, token, identity, runs>>

-----------------------------------------------------------------------------
\* The loop: a child that ended takes the node out of the network (cleanup).
Serving == pc = "serving"
MayDelete == record[name].token = token
Leaves == /\ record' = IF MayDelete THEN [record EXCEPT ![name] = NoRecord] ELSE record
          /\ identity' = NoIdentity /\ Dies
          /\ UNCHANGED <<name, model, url, told, token, tries, tokens>>
ChildEnded == /\ Serving /\ (tunnel = "dead" \/ llama = "none")
              /\ Leaves /\ UNCHANGED counters
\* Ctrl-C, SIGTERM, or an update that is about to be applied.
Leave == Serving /\ Fault /\ Leaves /\ UNCHANGED runs
\* The DELETE does not arrive; the identity goes all the same.
LeavesUnheard == /\ Serving /\ Fault /\ identity' = NoIdentity /\ Dies
                 /\ UNCHANGED <<name, model, url, told, token, gatewaySide, tries, runs>>

\* The tunnel is looked at from outside, and opened again when it is not reachable.
Restart == /\ Serving /\ tunnel = "moved" /\ tries = 0 /\ url < MaxUrl
           /\ tunnel' = "up" /\ url' = url + 1
           /\ UNCHANGED <<pc, name, children, told, token, identity, gatewaySide, tries, counters>>
NoRestart == /\ Serving /\ tunnel = "moved" /\ tries = 0 /\ Fault /\ Dies
             /\ UNCHANGED <<name, model, url, told, token, identity, gatewaySide, tries, runs>>
\* reannounce: what the gateway has is believed changed only once it said so.
Reannounce == /\ Serving /\ tunnel = "up" /\ told # url /\ ~Refused /\ Recorded
              /\ told' = url /\ token' = Holds.token /\ tries' = 0
              /\ UNCHANGED <<pc, name, children, tunnel, url, identity, counters>>
ReannounceForgets == /\ Serving /\ tunnel = "up" /\ told # url /\ Fault
                     /\ UNCHANGED gatewaySide \/ (~Refused /\ Recorded)
                     /\ told' = url /\ tries' = 0
                     /\ UNCHANGED <<pc, name, children, tunnel, url, token, identity, runs>>
ReannounceFails == /\ Serving /\ tunnel = "up" /\ told # url /\ Fault
                   /\ UNCHANGED gatewaySide \/ (~Refused /\ Recorded)
                   /\ tries' = (tries + 1) % Tries
                   /\ UNCHANGED <<pc, name, children, tunnel, url, told, token, identity, runs>>

\* Ctrl-C before the handlers are there: the record, if there is one, stays.
Interrupt == /\ pc \in {"model", "tunnel", "register"} /\ Fault /\ Dies
             /\ UNCHANGED <<name, model, url, told, token, identity, gatewaySide, tries, runs>>

\* What happens to the tunnel and to the process.
TunnelMoves == /\ tunnel = "up" /\ Fault /\ tunnel' = "moved"
               /\ UNCHANGED <<pc, name, children, url, told, token, identity, gatewaySide, tries, runs>>
TunnelEnds == /\ tunnel \in {"up", "moved"} /\ Fault /\ tunnel' = "dead"
              /\ UNCHANGED <<pc, name, children, url, told, token, identity, gatewaySide, tries, runs>>
\* Killed, or signalled before the handlers are there: nothing is stopped, and the model
\* server keeps the port.
Kill == /\ pc # "off" /\ Fault
        /\ pc' = "off" /\ llama' = "none" /\ tunnel' = "none"
        /\ UNCHANGED <<name, model, port, url, told, token, identity, gatewaySide, tries, runs>>
\* Someone ends the server that was left behind.
Freed == /\ llama # "up" /\ port # 0 /\ port' = 0
         /\ UNCHANGED <<pc, name, model, llama, tunnel, url, told, token, identity, gatewaySide,
                        tries, counters>>

-----------------------------------------------------------------------------
Work == \/ LlamaBinds \/ LlamaExits \/ Health \/ OpenTunnel \/ Register \/ Refuse
        \/ ChildEnded \/ Restart \/ Reannounce
Next == \/ Work \/ Start \/ NoHealth \/ LlamaCrashes \/ NoTunnel \/ NotYet \/ Leave
        \/ Interrupt \/ LeavesUnheard \/ NoRestart \/ ReannounceFails \/ TunnelMoves \/ TunnelEnds \/ Kill \/ Freed
Spec == Init /\ [][Next]_vars /\ WF_vars(Work)

-----------------------------------------------------------------------------
\* Types of the state.
TypeOK == /\ pc \in {"off", "model", "tunnel", "register", "serving"} /\ name \in Name
          /\ llama \in {"none", "loading", "up"} /\ port \in Model \cup {0}
          /\ tunnel \in {"none", "up", "moved", "dead"} /\ url \in 0..MaxUrl
          /\ \A n \in Name : record[n].url \in 0..MaxUrl

\* A node never answers with the weights of a server that an earlier run left behind: what
\* answers at the port is its own model whenever it has been registered and still has its
\* server (wait_for_llama, 773-778).
OwnModel == Serving /\ port # 0 => port = model
\* A process that ended in order leaves nothing behind.
NothingLeft == pc = "off" => llama = "none" /\ tunnel = "none"
\* The node never believes the gateway knows an address that it does not.
ToldIsTrue == Serving /\ record[name].token = token => record[name].url = told \/ told # url
LegacySound == OwnModel /\ NothingLeft /\ ToldIsTrue

\* As long as the node serves over a tunnel that is up, the gateway comes to have its address.
AddressFollows == [](Serving => <>(pc = "off" \/ tunnel # "up" \/ record[name].url = url))

\* The token that a record asks for is kept for the next run: "the token is the only way back
\* in under the same name" (write_identity, join.py 402-405).
TokenKept == \A n \in Name : record[n].token # 0 =>
               token = record[n].token \/ (identity.name = n /\ identity.token = record[n].token)
=============================================================================
