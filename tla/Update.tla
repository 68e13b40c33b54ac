------------------------------- MODULE Update -------------------------------
(***************************************************************************)
(* How an installed copy updates itself (common/common.py, join/join.py).  *)
(* `common` fetches one archive of the branch and swaps every file that    *)
(* differs, or puts the old ones back; it then runs join.py.  join.py,     *)
(* started by itself or left running, refreshes its siblings one by one    *)
(* and replaces itself last.  The branch moves meanwhile.                  *)
(*                                                                         *)
(* A file is the version it holds: Missing, or Cut when a write of it      *)
(* failed part of the way.                                                 *)
(***************************************************************************)
EXTENDS Integers

CONSTANTS
  MaxVersion, \* versions of the branch, from 1
  MaxFaults   \* fetches and writes that fail, kills

VARIABLES
  disk,     \* the version of each installed file
  aside,    \* the originals that the swap keeps in its temporary directory
  before,   \* the files as the archive found them
  pc,
  todo,     \* files left to swap, to put back or to refresh
  new,      \* the version of the archive, or of the join.py fetched
  current,  \* _LAUNCHER_CURRENT; while refreshing, that every sibling was confirmed
  then,     \* what follows the refresh, or a failed archive
  code,     \* versions the running join.py and its modules were loaded from
  noUpdate, \* --no-update
  itself,   \* join.py has replaced itself
  remote, faults

vars == <<disk, aside, before, pc, todo, new, current, then, code, noUpdate, itself, remote, faults>>
job == <<todo, new, current, then>>

Missing == 0
Cut == -1
Order == [common |-> 1, join |-> 2, runtime |-> 3, worker |-> 4]  \* of the archive
File == DOMAIN Order
Siblings == {"worker", "runtime"}                                 \* refreshed the last first
First(S) == CHOOSE f \in S : \A g \in S : Order[f] <= Order[g]
Last(S) == CHOOSE f \in S : \A g \in S : Order[f] >= Order[g]
Ready(f) == disk[f] > 0
NotLoaded == [f \in File |-> Missing]

Fault == faults < MaxFaults /\ faults' = faults + 1

Init == /\ disk = [f \in File |-> 1] /\ aside = NotLoaded /\ before = disk
        /\ pc = "off" /\ todo = {} /\ new = 1 /\ current = FALSE /\ then = "join"
        /\ code = NotLoaded /\ noUpdate = FALSE /\ itself = FALSE
        /\ remote = 1 /\ faults = 0

Push == /\ remote < MaxVersion /\ remote' = remote + 1
        /\ UNCHANGED <<disk, aside, before, pc, job, code, noUpdate, itself, faults>>

\* The user runs `common`, or a service join.py; join.py imports worker at its top.
Launch ==
  /\ pc = "off"
  /\ \/ Ready("common") /\ pc' = "common"
     \/ Ready("join") /\ Ready("worker") /\ pc' = "join"
  /\ then' = "again" /\ current' = FALSE /\ noUpdate' = FALSE /\ itself' = FALSE
  /\ UNCHANGED <<disk, aside, before, todo, new, code, remote, faults>>

-----------------------------------------------------------------------------
FetchExisting ==
  LET changes == {f \in File : disk[f] \notin {remote, Missing}}
  IN /\ pc = "common"
     /\ new' = remote /\ before' = disk /\ todo' = changes
     /\ IF changes = {} THEN /\ pc' = "join"
                               /\ current' = (then = "again")
                               /\ noUpdate' = current'
                          ELSE pc' = "swap" /\ UNCHANGED <<current, noUpdate>>
     /\ UNCHANGED <<disk, aside, then, code, itself, remote, faults>>
\* self_update, and cmd_join's second attempt when that one failed (then = "join").
FetchBundle ==
  LET changes == {f \in File : disk[f] # remote}
  IN /\ pc = "common"
     /\ new' = remote /\ before' = disk /\ todo' = changes
     /\ IF changes = {} THEN /\ pc' = "join"
                               /\ current' = (then = "again")
                               /\ noUpdate' = current'
                          ELSE pc' = "swap" /\ UNCHANGED <<current, noUpdate>>
     /\ UNCHANGED <<disk, aside, then, code, itself, remote, faults>>
\* Nothing is fetched, or the archive is not complete: no file has been touched.
BundleFails ==
  /\ pc = "common" /\ Fault
  /\ IF then = "again" THEN then' = "join" /\ UNCHANGED pc ELSE pc' = "join" /\ UNCHANGED then
  /\ UNCHANGED <<disk, aside, before, todo, new, current, code, noUpdate, itself, remote>>

SetAside == /\ pc = "swap"
            /\ aside' = [aside EXCEPT ![First(todo)] = disk[First(todo)]]
            /\ disk' = [disk EXCEPT ![First(todo)] = Missing]
            /\ pc' = "put"
            /\ UNCHANGED <<before, job, code, noUpdate, itself, remote, faults>>
\* A new common.py is executed at once, and finds that nothing differs.
Put ==
  LET f == First(todo)
      again == then = "again" /\ before["common"] # disk'["common"]
  IN /\ pc = "put"
     /\ disk' = [disk EXCEPT ![f] = new]
     /\ todo' = todo \ {f}
     /\ IF todo' # {} THEN pc' = "swap" /\ UNCHANGED <<aside, current, noUpdate>>
        ELSE /\ aside' = NotLoaded
             /\ pc' = IF again THEN "common" ELSE "join"
             /\ current' = (then = "again" /\ ~again)
             /\ noUpdate' = current'
     /\ UNCHANGED <<before, new, then, code, itself, remote, faults>>
\* A rename fails: what has been replaced is put back, the last first.
SwapFails ==
  /\ pc \in {"swap", "put"} /\ Fault
  /\ todo' = {f \in File : before[f] # new} \ (IF pc = "put" THEN todo \ {First(todo)} ELSE todo)
  /\ pc' = "restore"
  /\ UNCHANGED <<disk, aside, before, new, current, then, code, noUpdate, itself, remote>>
RestoreNew ==
  /\ pc = "restore"
  /\ IF todo = {} THEN pc' = "restored" /\ UNCHANGED <<disk, todo>>
     ELSE /\ disk' = [disk EXCEPT ![Last(todo)] = new]
          /\ todo' = todo \ {Last(todo)} /\ UNCHANGED pc
  /\ UNCHANGED <<aside, before, new, current, then, code, noUpdate, itself, remote, faults>>
Restore ==
  /\ pc = "restore"
  /\ IF todo = {} THEN pc' = "restored" /\ UNCHANGED <<disk, todo>>
     ELSE /\ disk' = [disk EXCEPT ![Last(todo)] = aside[Last(todo)]]
          /\ todo' = todo \ {Last(todo)} /\ UNCHANGED pc
  /\ UNCHANGED <<aside, before, new, current, then, code, noUpdate, itself, remote, faults>>
\* The error is raised again: self_update and cmd_join go on with what there is.
GiveUp ==
  /\ \/ pc = "restored" /\ UNCHANGED faults
     \/ pc = "restore" /\ todo # {} /\ Fault  \* and the originals that are left are lost
  /\ aside' = NotLoaded /\ todo' = {}
  /\ IF then = "again" THEN pc' = "common" /\ then' = "join" ELSE pc' = "join" /\ UNCHANGED then
  /\ UNCHANGED <<disk, before, new, current, code, noUpdate, itself, remote>>

-----------------------------------------------------------------------------
\* join.py starts.
Load == /\ pc = "join"
        /\ IF Ready("join") /\ Ready("worker")
           THEN /\ code' = [NotLoaded EXCEPT !["join"] = disk["join"], !["worker"] = disk["worker"]]
                /\ IF noUpdate THEN pc' = "runtime" /\ UNCHANGED <<todo, current, then>>
                   ELSE /\ pc' = "refresh" /\ todo' = Siblings
                        /\ current' = TRUE /\ then' = "fetch"
           ELSE pc' = "off" /\ UNCHANGED <<code, todo, current, then>>
        /\ UNCHANGED <<disk, aside, before, new, noUpdate, itself, remote, faults>>

\* refresh_siblings, one file; what follows when all have been tried.
Refresh ==
  /\ pc = "refresh" /\ todo # {}
  /\ disk' = [disk EXCEPT ![Last(todo)] = remote]
  /\ todo' = todo \ {Last(todo)}
  /\ UNCHANGED <<aside, before, pc, new, current, then, code, noUpdate, itself, remote, faults>>
RefreshUnsaid ==
  /\ pc = "refresh" /\ todo # {} /\ Fault
  /\ \/ UNCHANGED disk
     \/ disk[Last(todo)] # remote /\ disk' = [disk EXCEPT ![Last(todo)] = Cut]
  /\ todo' = todo \ {Last(todo)}
  /\ UNCHANGED <<aside, before, pc, new, current, then, code, noUpdate, itself, remote>>
\* It cannot be fetched, or the disk fills up while it is written in place.
RefreshFails ==
  /\ pc = "refresh" /\ todo # {} /\ Fault
  /\ \/ UNCHANGED disk
     \/ disk[Last(todo)] # remote /\ disk' = [disk EXCEPT ![Last(todo)] = Cut]
  /\ todo' = todo \ {Last(todo)} /\ current' = FALSE
  /\ UNCHANGED <<aside, before, pc, new, then, code, noUpdate, itself, remote>>
Refreshed ==
  /\ pc = "refresh" /\ todo = {}
  /\ CASE then = "fetch" ->
            /\ code' = IF current THEN [code EXCEPT !["worker"] = disk["worker"]] ELSE code
            /\ pc' = "fetch"
       [] then = "apply" -> pc' = (IF current THEN "apply" ELSE "runtime") /\ UNCHANGED code
       [] then = "runtime" ->
            IF Ready("runtime") THEN /\ code' = [code EXCEPT !["runtime"] = disk["runtime"]]
                                     /\ pc' = "running"
                                ELSE pc' = "off" /\ UNCHANGED code
  /\ UNCHANGED <<disk, aside, before, job, noUpdate, itself, remote, faults>>

\* fetch_update, at the start and every half hour (Check).
FetchJoin ==
  /\ pc = "fetch"
  /\ \/ /\ remote # disk["join"]
        /\ new' = remote /\ pc' = "refresh" /\ todo' = Siblings
        /\ current' = TRUE /\ then' = "apply" /\ UNCHANGED faults
     \/ /\ pc' = "runtime" /\ UNCHANGED job
        /\ IF remote = disk["join"] THEN UNCHANGED faults ELSE Fault
  /\ UNCHANGED <<disk, aside, before, code, noUpdate, itself, remote>>
\* apply_update_and_restart, by a rename; a node that was running has left first.
ApplyFirst ==
  /\ pc = "fetch" /\ remote # disk["join"]
  /\ disk' = [disk EXCEPT !["join"] = remote] /\ pc' = "join" /\ itself' = TRUE
  /\ UNCHANGED <<aside, before, job, code, noUpdate, remote, faults>>
Apply == /\ pc = "apply"
         /\ disk' = [disk EXCEPT !["join"] = new] /\ pc' = "join" /\ itself' = TRUE
         /\ UNCHANGED <<aside, before, job, code, noUpdate, remote, faults>>
\* The disk is full.  At the start it goes on; the loop finds its tunnel stopped and leaves.
ApplyFails == /\ pc = "apply" /\ Fault
              /\ pc' = IF code["runtime"] = Missing THEN "runtime" ELSE "off"
              /\ UNCHANGED <<disk, aside, before, job, code, noUpdate, itself, remote>>

\* _require_runtime: loaded where it is first used; fetched when it is not there.
Require ==
  /\ pc = "runtime"
  /\ \/ code["runtime"] # Missing /\ pc' = "running" /\ UNCHANGED <<code, todo, then>>
     \/ /\ code["runtime"] = Missing /\ disk["runtime"] = Missing
        /\ pc' = "refresh" /\ todo' = Siblings /\ then' = "runtime" /\ UNCHANGED code
     \/ /\ code["runtime"] = Missing /\ Ready("runtime")
        /\ code' = [code EXCEPT !["runtime"] = disk["runtime"]]
        /\ pc' = "running" /\ UNCHANGED <<todo, then>>
     \/ /\ code["runtime"] = Missing /\ disk["runtime"] = Cut  \* a syntax error
        /\ pc' = "off" /\ UNCHANGED <<code, todo, then>>
  /\ UNCHANGED <<disk, aside, before, new, current, noUpdate, itself, remote, faults>>

Check == /\ pc = "running" /\ ~noUpdate /\ remote # disk["join"]
         /\ pc' = "fetch"
         /\ UNCHANGED <<disk, aside, before, job, code, noUpdate, itself, remote, faults>>
Quit == /\ pc = "running"
        /\ pc' = "off"
        /\ UNCHANGED <<disk, aside, before, job, code, noUpdate, itself, remote, faults>>
\* The temporary directory goes with the process.
Kill == /\ pc \in {"swap", "put", "restore", "refresh", "apply"} /\ Fault
        /\ pc' = "off" /\ aside' = NotLoaded
        /\ \/ UNCHANGED disk
           \/ /\ pc = "refresh" /\ todo # {} /\ disk[Last(todo)] # remote
              /\ disk' = [disk EXCEPT ![Last(todo)] = Cut]
        /\ UNCHANGED <<before, job, code, noUpdate, itself, remote>>

Proceed == \/ FetchBundle \/ SetAside \/ Put \/ Restore \/ GiveUp
           \/ Load \/ Refresh \/ Refreshed \/ FetchJoin \/ Apply \/ Require
Next == \/ Proceed \/ Push \/ Launch \/ BundleFails \/ SwapFails \/ RefreshFails \/ ApplyFails
        \/ Check \/ Quit \/ Kill

Spec == Init /\ [][Next]_vars /\ WF_vars(Proceed)

-----------------------------------------------------------------------------
Flags == {current, noUpdate, itself} \subseteq BOOLEAN
TypeOK ==
  /\ disk \in [File -> Cut..MaxVersion] /\ aside \in [File -> Cut..MaxVersion]
  /\ before \in [File -> Cut..MaxVersion] /\ code \in [File -> 0..MaxVersion]
  /\ pc \in {"off", "common", "swap", "put", "restore", "restored", "join", "refresh",
             "fetch", "apply", "runtime", "running"}
  /\ todo \subseteq File /\ new \in 1..MaxVersion
  /\ then \in {"again", "join", "fetch", "apply", "runtime"}
  /\ Flags
  /\ remote \in 1..MaxVersion /\ faults \in 0..MaxFaults

\* A swap that fails leaves the installed files as they were
\* (common.py, _install_update_bundle).
SwapUndone == pc = "restored" => disk = before
\* join.py that has replaced itself never drives siblings older than itself, whatever of
\* the refreshes failed and however the branch moved (join.py, refresh_siblings, main).
NoOlderSiblings ==
  itself /\ pc = "running" => code["worker"] >= code["join"] /\ code["runtime"] >= code["join"]
\* A join told not to update itself by a launcher that is current has the whole of one
\* version (common.py, self_update, cmd_join).
CurrentIsWhole ==
  pc = "join" /\ noUpdate => \A f, g \in File : disk[f] = disk[g] /\ disk[f] > 0
UpdateSound == SwapUndone /\ NoOlderSiblings /\ CurrentIsWhole

\* Started by `common` with the branch at rest and nothing going wrong, the newest version
\* of every file is installed and join.py runs from it: no restart goes round in circles,
\* and whatever an earlier kill or full disk left is repaired (common.py, self_update).
UpdateLands ==
  pc = "common" /\ remote = MaxVersion /\ faults = MaxFaults
    ~> /\ \A f \in File : disk[f] = remote
       /\ code["join"] = remote /\ code["worker"] = remote /\ code["runtime"] = remote

\* A refresh that fails leaves every sibling working (join.py, refresh_siblings).
RefreshKeepsWorking == \A f \in Siblings : disk[f] # Cut
=============================================================================
