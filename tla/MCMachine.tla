------------------------------ MODULE MCMachine ------------------------------
(***************************************************************************)
(* What runs on one machine, for TLC: decoding with drafts (Speculative),  *)
(* the weights, the runtime and the program itself as they are fetched     *)
(* (Hub, Runtime, Update), the reports of its user (Reports), the          *)
(* installed service (PeerService) and the node of the retired network     *)
(* with its proxy (LegacyNode, WorkerProxy).  They share no state while    *)
(* they run; a behaviour of this module is one of one of them, chosen at   *)
(* the start, and one run checks them all.                                 *)
(***************************************************************************)
EXTENDS Speculative

VARIABLES
  active,
  disk, kept, hPc, file, done, todo, req, etag, attempts, hFaults, version,
  machine, candidates, part, fetched, tree, damaged, rAside, current, meta, rPc, rFile, attempt, rFaults,
  uDisk, aside, before, uPc, uTodo, new, uCurrent, then, code, noUpdate, itself, remote, uFaults,
  proc, service, asked, status, tick, source, staging, venv, disturbed, leave, pids, commands, sFaults,
  lPc, name, model, llama, port, tunnel, url, told, token, identity, record, tries, runs, lFaults, tokens,
  gw, at, up, queue, wAsked, wFaults, reset, short,
  asks, stash, about, saved, drawn, cFile, held, cli, clean, cFaults

hubVars == <<disk, kept, hPc, file, done, todo, req, etag, attempts, hFaults, version>>
runtimeVars == <<machine, candidates, part, fetched, tree, damaged, rAside, current, meta, rPc, rFile, attempt, rFaults>>
updateVars == <<uDisk, aside, before, uPc, uTodo, new, uCurrent, then, code, noUpdate, itself, remote, uFaults>>
serviceVars == <<proc, service, asked, status, tick, source, staging, venv, disturbed, leave, pids, commands, sFaults>>
legacyVars == <<lPc, name, model, llama, port, tunnel, url, told, token, identity, record, tries, runs, lFaults,
                tokens>>
workerVars == <<gw, at, up, queue, wAsked, wFaults, reset, short>>
reportVars == <<asks, stash, about, saved, drawn, cFile, held, cli, clean, cFaults>>
allVars == <<active, vars, hubVars, runtimeVars, updateVars, serviceVars, legacyVars, workerVars, reportVars>>

\* A file of which three ranges are wanted, and one fetched whole.
H == INSTANCE Hub WITH
  Remote <- << << <<2, 4>>, <<5, 7>>, <<10, 11>> >>, << <<1, 4>> >> >>, Whole <- {2},
  Bridge <- 1, MaxSegment <- 6, Chunk <- 3, Retries <- 2, Attempts <- 2, MaxFaults <- 2, MaxVersion <- 2,
  pc <- hPc, faults <- hFaults
R == INSTANCE Runtime WITH
  Size <- 2, Tries <- 2, MaxFaults <- 3,
  aside <- rAside, pc <- rPc, file <- rFile, faults <- rFaults
U == INSTANCE Update WITH
  MaxVersion <- 2, MaxFaults <- 2,
  disk <- uDisk, pc <- uPc, todo <- uTodo, current <- uCurrent, faults <- uFaults
\* A terminal and a service at once: two commands, of which a set-up or a node is killed; three commands.
S == INSTANCE PeerService WITH
  Options <- [network : {"plain"}, api : {"unset", "off"}, direct : {"no"}],
  MaxCommands <- 2, MaxFaults <- 1, faults <- sFaults
Third == INSTANCE PeerService WITH
  Options <- [network : {"plain"}, api : {"unset"}, direct : {"no"}],
  MaxCommands <- 3, MaxFaults <- 0, faults <- sFaults
L == INSTANCE LegacyNode WITH
  MaxUrl <- 3, Tries <- 2, MaxRuns <- 3, MaxFaults <- 4, pc <- lPc, faults <- lFaults
W == INSTANCE WorkerProxy WITH
  Conn <- {1, 2}, Pieces <- 2, MaxRequests <- 3, MaxFaults <- 2, asked <- wAsked, faults <- wFaults
\* Two commands and one report; one command, two reports and one more fault.
Two == INSTANCE Reports WITH
  Command <- {1, 2}, MaxAsks <- 1, MaxReports <- 1, MaxIds <- 4, Foreign <- {1}, MaxFaults <- 1,
  file <- cFile, faults <- cFaults
One == INSTANCE Reports WITH
  Command <- {1}, MaxAsks <- 1, MaxReports <- 2, MaxIds <- 5, Foreign <- {1}, MaxFaults <- 2,
  file <- cFile, faults <- cFaults

Service == {"service", "third command"}
Part == Service \cup {"decoding", "weights", "runtime", "update", "legacy", "proxy",
         "two reporters", "one reporter"}

MachineInit ==
  /\ active \in Part
  /\ Init /\ (active # "decoding" => mode = "plain" /\ \A i \in DOMAIN answer : answer[i] = last)
  /\ R!Init /\ (active # "runtime" => machine = "plain" /\ Len(candidates) = 1)
  /\ H!Init /\ U!Init /\ S!Init /\ L!Init /\ W!Init
  /\ IF active = "two reporters" THEN Two!Init ELSE One!Init

Keep(it) ==
  /\ active = it /\ active' = active
  /\ it # "decoding" => UNCHANGED vars
  /\ it # "weights" => UNCHANGED hubVars
  /\ it # "runtime" => UNCHANGED runtimeVars
  /\ it # "update" => UNCHANGED updateVars
  /\ it \notin Service => UNCHANGED serviceVars
  /\ it # "legacy" => UNCHANGED legacyVars
  /\ it # "proxy" => UNCHANGED workerVars
  /\ it \notin {"two reporters", "one reporter"} => UNCHANGED reportVars

MachineNext ==
  \/ active = "decoding" /\ Next /\ Keep("decoding")
  \/ active = "weights" /\ H!Next /\ Keep("weights")
  \/ active = "runtime" /\ R!Next /\ Keep("runtime")
  \/ active = "update" /\ U!Next /\ Keep("update")
  \/ active = "service" /\ S!Next /\ Keep("service")
  \/ active = "third command" /\ Third!Next /\ Keep("third command")
  \/ active = "legacy" /\ L!Next /\ Keep("legacy")
  \/ active = "proxy" /\ W!Next /\ Keep("proxy")
  \/ active = "two reporters" /\ Two!Next /\ Keep("two reporters")
  \/ active = "one reporter" /\ One!Next /\ Keep("one reporter")

\* The fairness of each module, as its Spec has it.
MachineSpec ==
  /\ MachineInit /\ [][MachineNext]_allVars
  /\ WF_vars(active = "decoding" /\ Work)
  /\ WF_hubVars(active = "weights" /\ H!Fetch)
  /\ WF_runtimeVars(active = "runtime" /\ R!Run)
  /\ WF_updateVars(active = "update" /\ U!Proceed)
  /\ WF_serviceVars(active \in Service /\ S!ServiceStarts) /\ WF_serviceVars(active \in Service /\ S!Leaving)
  /\ \A p \in S!Process : /\ WF_serviceVars(active \in Service /\ S!Works(p))
                          /\ WF_serviceVars(active \in Service /\ S!TickReads(p))
  /\ WF_legacyVars(active = "legacy" /\ L!Work)
  /\ \A c \in {1, 2} : WF_workerVars(active = "proxy" /\ W!Work(c))
  /\ WF_reportVars(active = "one reporter" /\ One!Work(1)) /\ WF_reportVars(active = "one reporter" /\ One!Retry(1))

-----------------------------------------------------------------------------
\* Properties, with PlainText and DraftsSound of Speculative.

\* What is fetched is whole and right: weights, runtime, the program itself.
FetchedWhole == /\ active = "weights" => H!TypeOK /\ H!DownloadExact
                /\ active = "runtime" => R!TypeOK /\ R!RuntimeSound
                /\ active = "update" => U!TypeOK /\ U!UpdateSound
\* Reports: none lost, none sent that was not agreed to, none sent twice by a failure.
ReportsSound == /\ active = "two reporters" => Two!TypeOK /\ Two!ReportsSound
                /\ active = "one reporter" => One!TypeOK /\ One!ReportsSound
\* Run again after any failure, each of them completes, and so does the sending of a report.
RetriesComplete ==
  /\ active = "weights" => H!DownloadCompletes
  /\ active = "runtime" => R!Installs
  /\ U!UpdateLands
  /\ active = "one reporter" => One!SentInTheEnd

\* The installed service, the retired node and its proxy.
ServicesSound == /\ active \in Service => S!TypeOK /\ S!PeerSound
                 /\ active = "legacy" => L!TypeOK /\ L!LegacySound
                 /\ active = "proxy" => W!TypeOK /\ W!WorkerSound
\* A service comes up, or leaves when asked; a node's new address is told; a reply ends.
ServicesLive == S!ServiceLives /\ L!AddressFollows /\ W!RepliesEnd
=============================================================================
