------------------------------ MODULE Runtime ------------------------------
(***************************************************************************)
(* How `common join --legacy` gets llama.cpp and a model                   *)
(* (join/runtime.py): each archive is downloaded in pieces, checked        *)
(* against its recorded hash and unpacked; `current` names the build that  *)
(* started.  The current build is tried first, then a pinned one.  A run   *)
(* that failed or was killed is run again, and finds what it left behind.  *)
(* It may be killed anywhere; an error of the disk ends it just so.        *)
(***************************************************************************)
EXTENDS Integers, Sequences

CONSTANTS
  Size,       \* of every file, in reads
  Tries,      \* DOWNLOAD_ATTEMPTS
  MaxFaults

Build == {"latest", "pinned"}
Files == Build \cup {"model"}
Member == {"server", "library"}     \* of an archive; llama-server links its libraries
NoPart == [n |-> 0, good |-> TRUE]

VARIABLES
  machine,    \* "cuda": unpacked aside and renamed; "plain": unpacked in place
  candidates, \* builds still to try in this run
  part,       \* per file: reads in its .part, and whether all are right
  fetched,    \* per file: "none", "right" or "wrong" bytes under its name
  tree,       \* per build, the members in its directory
  damaged,    \* for the properties: builds that lost a member since they were installed
  aside,      \* members this run has unpacked
  current, meta,
  pc, file, attempt, faults

vars == <<machine, candidates, part, fetched, tree, damaged, aside, current, meta, pc, file, attempt, faults>>
disk == <<part, fetched, tree, damaged, aside, current, meta>>

Fault == faults < MaxFaults /\ faults' = faults + 1
Runnable(b) == tree[b] = Member

Init == /\ machine \in {"plain", "cuda"}
        /\ candidates \in {<<"latest", "pinned">>, <<"pinned">>}
        /\ part = [f \in Files |-> NoPart] /\ fetched = [f \in Files |-> "none"]
        /\ tree = [b \in Build |-> {}] /\ damaged = {} /\ aside = {}
        /\ current = "none" /\ meta = FALSE
        /\ pc = "start" /\ file = "model" /\ attempt = 1 /\ faults = 0

-----------------------------------------------------------------------------
\* ensure_llama_server: what is installed and starts is used.
Start == /\ pc = "start"
         /\ pc' = IF current # "none" /\ Runnable(current) THEN "model" ELSE "build"
         /\ UNCHANGED <<machine, candidates, disk, file, attempt, faults>>

\* The next candidate; with none left the run fails.
TryBuild == /\ pc = "build"
            /\ IF candidates = <<>> THEN pc' = "failed" /\ UNCHANGED <<file, attempt>>
               ELSE /\ file' = Head(candidates) /\ attempt' = 1
                    /\ pc' = IF fetched[Head(candidates)] = "right" THEN "unpack" ELSE "fetch"
            /\ UNCHANGED <<machine, candidates, disk, faults>>

\* A candidate that fails loses its archive; the model has no other candidate.
GiveUp == IF file = "model" THEN pc' = "failed" /\ UNCHANGED <<candidates, fetched>>
          ELSE /\ pc' = "build" /\ candidates' = Tail(candidates)
               /\ fetched' = [fetched EXCEPT ![file] = "none"]
Interrupted == IF attempt < Tries
               THEN pc' = "fetch" /\ attempt' = attempt + 1 /\ UNCHANGED <<candidates, fetched>>
               ELSE GiveUp /\ UNCHANGED attempt

-----------------------------------------------------------------------------
\* _download_once: resumed from the length of the part.  A range that begins
\* at the end of the file is refused (416), which is not tried again.
Fetch == /\ pc = "fetch"
         /\ IF part[file].n < Size THEN pc' = "read" /\ UNCHANGED <<candidates, fetched>> ELSE GiveUp
         /\ UNCHANGED <<machine, part, tree, damaged, aside, current, meta, file, attempt, faults>>
RangeIgnoredAppended ==
  /\ pc = "fetch" /\ part[file].n \in 1..Size - 1 /\ Fault
  /\ pc' = "read"
  /\ part' = [part EXCEPT ![file].good = FALSE]
  /\ UNCHANGED <<machine, candidates, fetched, tree, damaged, aside, current, meta, file, attempt>>
RangeIgnored ==
  /\ pc = "fetch" /\ part[file].n \in 1..Size - 1 /\ Fault
  /\ pc' = "read"
  /\ part' = [part EXCEPT ![file] = NoPart]
  /\ UNCHANGED <<machine, candidates, fetched, tree, damaged, aside, current, meta, file, attempt>>
Unreachable == /\ pc = "fetch" /\ Fault
               /\ Interrupted
               /\ UNCHANGED <<machine, part, tree, damaged, aside, current, meta, file>>
\* No checksum to compare with: nothing is installed.
NoDigest == /\ pc = "fetch" /\ file # "model" /\ attempt = 1 /\ Fault
            /\ GiveUp
            /\ UNCHANGED <<machine, part, tree, damaged, aside, current, meta, file, attempt>>

Read == /\ pc = "read" /\ part[file].n < Size
        /\ \/ part' = [part EXCEPT ![file].n = @ + 1] /\ UNCHANGED faults
           \/ Fault /\ part' = [part EXCEPT ![file].n = @ + 1, ![file].good = FALSE]
        /\ pc' = IF part'[file].n = Size THEN "finish" ELSE "read"
        /\ UNCHANGED <<machine, candidates, fetched, tree, damaged, aside, current, meta, file, attempt>>
Break == /\ pc = "read" /\ Fault
         /\ Interrupted
         /\ UNCHANGED <<machine, part, tree, damaged, aside, current, meta, file>>
\* The response ends early without an error: what came is the whole of it.
EndsEarly == /\ pc = "read" /\ Fault
             /\ pc' = "finish"
             /\ UNCHANGED <<machine, candidates, disk, file, attempt>>

FinishTrusting ==
  /\ pc = "finish"
  /\ part' = [part EXCEPT ![file] = NoPart]
  /\ IF part[file].n = Size
     THEN /\ fetched' = [fetched EXCEPT ![file] = IF part[file].good THEN "right" ELSE "wrong"]
          /\ pc' = IF file = "model" THEN "note" ELSE "unpack"
          /\ UNCHANGED candidates
     ELSE GiveUp
  /\ UNCHANGED <<machine, tree, damaged, aside, current, meta, file, attempt, faults>>
\* Size and hash are compared; a file that does not match is removed.
Finish == /\ pc = "finish"
          /\ part' = [part EXCEPT ![file] = NoPart]
          /\ IF part[file] = [n |-> Size, good |-> TRUE]
             THEN /\ fetched' = [fetched EXCEPT ![file] = "right"]
                  /\ pc' = IF file = "model" THEN "note" ELSE "unpack"
                  /\ UNCHANGED candidates
             ELSE GiveUp
          /\ UNCHANGED <<machine, tree, damaged, aside, current, meta, file, attempt, faults>>

-----------------------------------------------------------------------------
\* A tree that has its server (for CUDA, and its library) is taken as it is.
Unpack == /\ pc = "unpack"
          /\ pc' = IF "server" \in tree[file] /\ (machine = "cuda" => "library" \in tree[file])
                   THEN "try" ELSE "unpacking"
          /\ aside' = {}
          /\ UNCHANGED <<machine, candidates, part, fetched, tree, damaged, current, meta, file, attempt, faults>>
\* _extract, one member at a time: in place, or aside (_install_windows_cuda).
UnpackMember == /\ pc = "unpacking"
                /\ \E m \in Member \ aside :
                     /\ aside' = aside \cup {m}
                     /\ tree' = IF machine = "plain" THEN [tree EXCEPT ![file] = @ \cup {m}] ELSE tree
                /\ UNCHANGED <<machine, candidates, part, fetched, damaged, current, meta, pc, file, attempt, faults>>
Installed == /\ tree' = [tree EXCEPT ![file] = aside] /\ damaged' = damaged \ {file}
             /\ pc' = "try"
Unpacked == /\ pc = "unpacking" /\ aside = Member
            /\ IF machine = "plain" THEN Installed ELSE pc' = "removing" /\ UNCHANGED <<tree, damaged>>
            /\ UNCHANGED <<machine, candidates, part, fetched, aside, current, meta, file, attempt, faults>>
\* What was unpacked aside takes the place of what is left there: that is removed first.
RemoveMember == /\ pc = "removing"
                /\ \E m \in tree[file] : tree' = [tree EXCEPT ![file] = @ \ {m}]
                /\ UNCHANGED <<machine, candidates, part, fetched, damaged, aside, current, meta, pc, file, attempt, faults>>
MoveIn == /\ pc = "removing" /\ tree[file] = {}
          /\ Installed
          /\ UNCHANGED <<machine, candidates, part, fetched, aside, current, meta, file, attempt, faults>>

PointFirst == /\ pc = "try"
              /\ current' = file
              /\ IF Runnable(file) THEN pc' = "model" /\ UNCHANGED <<candidates, fetched>> ELSE GiveUp
              /\ UNCHANGED <<machine, part, tree, damaged, aside, meta, file, attempt, faults>>
\* It must start before `current` names it.
Point == /\ pc = "try"
         /\ IF Runnable(file)
            THEN pc' = "model" /\ current' = file /\ UNCHANGED <<candidates, fetched>>
            ELSE GiveUp /\ UNCHANGED current
         /\ UNCHANGED <<machine, part, tree, damaged, aside, meta, file, attempt, faults>>

-----------------------------------------------------------------------------
\* ensure_gguf: the model, unless it is there with its note, or Ollama has it.
Model == /\ pc = "model"
         /\ file' = "model" /\ attempt' = 1
         /\ IF meta /\ fetched["model"] # "none" THEN pc' = "ready" /\ UNCHANGED fetched
            ELSE \/ pc' = "fetch" /\ UNCHANGED fetched
                 \/ pc' = "note" /\ fetched' = [fetched EXCEPT !["model"] = "right"]
         /\ UNCHANGED <<machine, candidates, part, tree, damaged, aside, current, meta, faults>>
NoSpace == /\ pc = "model" /\ ~meta /\ Fault
           /\ pc' = "failed"
           /\ UNCHANGED <<machine, candidates, disk, file, attempt>>
Note == /\ pc = "note"
        /\ meta' = TRUE /\ pc' = "ready"
        /\ UNCHANGED <<machine, candidates, part, fetched, tree, damaged, aside, current, file, attempt, faults>>

\* Killed: what is on the disk stays, and `current` may be left empty by its writing.
Kill == /\ pc \notin {"failed", "ready"} /\ Fault
        /\ pc' = "failed"
        /\ current' \in IF pc = "try" /\ Runnable(file) THEN {current, "none"} ELSE {current}
        /\ UNCHANGED <<machine, candidates, part, fetched, tree, damaged, aside, meta, file, attempt>>
\* Between two runs, something else on the machine removes a file of a build (_installed_binary:
\* "if it is still there and still works").
Damage == /\ pc = "failed" /\ Fault
          /\ \E b \in Build : \E m \in tree[b] :
               tree' = [tree EXCEPT ![b] = @ \ {m}] /\ damaged' = damaged \cup {b}
          /\ UNCHANGED <<machine, candidates, part, fetched, aside, current, meta, pc, file, attempt>>
Again == /\ pc = "failed"
         /\ pc' = "start"
         /\ candidates' \in {<<"latest", "pinned">>, <<"pinned">>}
         /\ UNCHANGED <<machine, disk, file, attempt, faults>>

Run == Start \/ TryBuild \/ Fetch \/ Read \/ Finish \/ Unpack \/ UnpackMember \/ Unpacked
       \/ RemoveMember \/ MoveIn \/ Point \/ Model \/ Note \/ Again
Next == Run \/ RangeIgnored \/ Unreachable \/ NoDigest \/ Break \/ EndsEarly \/ NoSpace \/ Kill \/ Damage

Spec == Init /\ [][Next]_vars /\ WF_vars(Run)

-----------------------------------------------------------------------------
TypeOK ==
  /\ part \in [Files -> [n : 0..Size, good : BOOLEAN]]
  /\ fetched \in [Files -> {"none", "right", "wrong"}]
  /\ tree \in [Build -> SUBSET Member] /\ damaged \subseteq Build /\ aside \subseteq Member
  /\ current \in Build \cup {"none"} /\ meta \in BOOLEAN

\* Whatever was resumed, ignored, cut short, removed or killed before: `current` names a build
\* that was unpacked to the end and has lost nothing since, no file has bytes under its name that
\* its hash is not of, and a run goes on to the model, and ends, only with a runtime that starts
\* (_download_once, ensure_llama_server).
Current == current \notin {"none"} \cup damaged => Runnable(current)
Ready == pc \in {"model", "note", "ready"} \/ (pc \in {"fetch", "read", "finish"} /\ file = "model") =>
           current # "none" /\ Runnable(current)
RuntimeSound ==
  /\ Current /\ Ready
  /\ \A f \in Files : fetched[f] # "wrong"
  /\ pc = "ready" => fetched["model"] = "right" /\ meta

\* What no later run gets past: a part that was read to its end and never renamed, of which
\* every run asks for the rest and is refused; or, where builds are unpacked in place, a build
\* that has its server and not its library, and is taken as it is.
Stranded == \/ \E f \in {"pinned", "model"} : part[f].n = Size
            \/ machine = "plain" /\ tree["pinned"] = {"server"}
\* However often it fails and wherever it is killed, run again it ends with a runtime that
\* starts ("one that will not start is replaced rather than trusted", runtime.py), unless it is
\* stranded by what an earlier run, or something else, left.
Installs == <>[](pc = "ready") \/ <>[]Stranded
=============================================================================
