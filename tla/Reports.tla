------------------------------ MODULE Reports ------------------------------
(***************************************************************************)
(* `common ask` and the reports about its answers (common/common.py): the  *)
(* last exchange is stashed on the disk, `common report` shows it, writes  *)
(* the report before it sends it, and `common reports --retry` sends what  *)
(* is still waiting.  Two commands may run at once; either may be killed   *)
(* between any two of its steps.                                           *)
(*                                                                         *)
(* The gateway that keeps the reports is not in the repository: it keeps   *)
(* one per id, and answers 409 for an id that it has.                      *)
(***************************************************************************)
EXTENDS Integers, Sequences

CONSTANTS
  Command,     \* command lines that may run at once
  MaxAsks, MaxReports,
  MaxIds,      \* report ids drawn
  Foreign,     \* ids that someone else's report has taken
  MaxFaults    \* kills, failed writes, posts that do not succeed

VARIABLES
  asks,    \* per question asked: "network" or "local", where it was to stay
  stash,   \* last-exchange.json: the question, and what it says of where it was answered
  about,   \* per report built, its question
  saved,   \* reports the user agreed to and that reached the disk
  drawn,   \* per id drawn, its report
  file,    \* per id the file of its report
  held,    \* per id the report the gateway has
  cli,     \* per command where it is, and its copy of a record
  clean,   \* no kill yet, and never two commands at once
  faults

vars == <<asks, stash, about, saved, drawn, file, held, cli, clean, faults>>

Id == 1..MaxIds
NoFile == [n |-> 0, sent |-> FALSE, attempts |-> 0]
Stranger == -1
Idle == [pc |-> "idle", id |-> 0, rec |-> NoFile, again |-> FALSE, left |-> {}]
Nothing == [q |-> 0, local |-> FALSE]

Fault == faults < MaxFaults /\ faults' = faults + 1

Init == /\ asks = <<>> /\ stash = Nothing /\ about = <<>> /\ saved = {} /\ drawn = <<>>
        /\ file = [i \in Id |-> NoFile]
        /\ held = [i \in Id |-> IF i \in Foreign THEN Stranger ELSE 0]
        /\ cli = [c \in Command |-> Idle] /\ clean = TRUE /\ faults = 0

At(c, pc) == cli[c].pc = pc
Go(c, to) == cli' = [cli EXCEPT ![c] = to]
Alone(c) == clean' = (clean /\ \A d \in Command \ {c} : At(d, "idle"))
store == <<about, saved, drawn, file, held>>

-----------------------------------------------------------------------------
\* Asking.  The stash is written when the answer is whole (_ask_local takes what came);
\* an ask that fails leaves it, and so does a stash that cannot be written.
Asked(where, says) ==
  /\ Len(asks) < MaxAsks /\ asks' = Append(asks, where)
  /\ \/ stash' = [q |-> Len(asks'), local |-> says] /\ UNCHANGED faults
     \/ Fault /\ UNCHANGED stash
  /\ UNCHANGED <<store, cli, clean>>
AskSayingNothing == \E where \in {"network", "local"} : Asked(where, FALSE)
Ask == \E where \in {"network", "local"} : Asked(where, where = "local")

-----------------------------------------------------------------------------
\* cmd_report.  _new_report_id: an id no file of this machine has.
NewId == Len(drawn) + 1
BuildAny(c) ==
  /\ At(c, "idle") /\ stash.q # 0
  /\ Len(about) < MaxReports /\ NewId \in Id /\ Alone(c)
  /\ about' = Append(about, stash.q) /\ drawn' = Append(drawn, Len(about'))
  /\ Go(c, [Idle EXCEPT !.pc = "preview", !.id = NewId, !.rec = [NoFile EXCEPT !.n = Len(about')]])
  /\ UNCHANGED <<asks, stash, saved, file, held, faults>>
Build(c) ==
  /\ At(c, "idle") /\ stash.q # 0 /\ ~stash.local
  /\ Len(about) < MaxReports /\ NewId \in Id /\ Alone(c)
  /\ about' = Append(about, stash.q) /\ drawn' = Append(drawn, Len(about'))
  /\ Go(c, [Idle EXCEPT !.pc = "preview", !.id = NewId, !.rec = [NoFile EXCEPT !.n = Len(about')]])
  /\ UNCHANGED <<asks, stash, saved, file, held, faults>>
Decline(c) == At(c, "preview") /\ Go(c, Idle) /\ UNCHANGED <<asks, stash, store, clean, faults>>
\* The file comes before the post; --save-only ends with it.
Agree(c) ==
  /\ At(c, "preview") /\ saved' = saved \cup {cli[c].rec.n}
  /\ file' = [file EXCEPT ![cli[c].id] = cli[c].rec]
  /\ \/ Go(c, Idle)
     \/ Go(c, [cli[c] EXCEPT !.pc = "send", !.again = TRUE])
  /\ UNCHANGED <<asks, stash, about, drawn, held, clean, faults>>
SaveFails(c) == /\ At(c, "preview") /\ Fault /\ Go(c, Idle)
                /\ UNCHANGED <<asks, stash, store, clean>>

-----------------------------------------------------------------------------
\* cmd_reports --retry: prune, then every record read that is not marked sent.
KeptUntried(i) == file[i].n # 0 /\ file[i].attempts = 0
Kept(i) == file[i].n # 0 /\ ~file[i].sent
Prune(old) == file' = [i \in Id |-> IF i \in old THEN NoFile ELSE file[i]]
RetryPruning(c) ==
  /\ At(c, "idle") /\ \E i \in Id : Kept(i)
  /\ Alone(c) /\ \E old \in SUBSET {i \in Id : file[i].n # 0} : Prune(old)
  /\ Go(c, [Idle EXCEPT !.pc = "next", !.left = {<<i, file[i]>> : i \in {j \in Id : Kept(j)}}])
  /\ UNCHANGED <<asks, stash, about, saved, drawn, held, faults>>
Retry(c) ==
  /\ At(c, "idle") /\ \E i \in Id : Kept(i)
  /\ Alone(c) /\ \E old \in SUBSET {i \in Id : file[i].sent} : Prune(old)
  /\ Go(c, [Idle EXCEPT !.pc = "next", !.left = {<<i, file[i]>> : i \in {j \in Id : Kept(j)}}])
  /\ UNCHANGED <<asks, stash, about, saved, drawn, held, faults>>
Next1(c) ==
  /\ At(c, "next")
  /\ IF cli[c].left = {} THEN Go(c, Idle)
     ELSE \E r \in cli[c].left :
            /\ \A s \in cli[c].left : s[1] <= r[1]  \* newest first
            /\ Go(c, [pc |-> "send", id |-> r[1], rec |-> r[2], again |-> TRUE,
                      left |-> cli[c].left \ {r}])
  /\ UNCHANGED <<asks, stash, store, clean, faults>>

\* _send_report up to the answer of _post_report: "in", "409", or a failure that
\* lets the rest of the queue go on ("4xx") or ends it ("down": 429, 5xx, no answer).
Posted(c, reply) == Go(c, [cli[c] EXCEPT !.pc = reply, !.rec.attempts = @ + 1])
Post(c) ==
  LET i == cli[c].id
  IN /\ At(c, "send")
     /\ IF held[i] = 0 THEN held' = [held EXCEPT ![i] = cli[c].rec.n] /\ Posted(c, "in")
                       ELSE UNCHANGED held /\ Posted(c, "409")
     /\ UNCHANGED <<asks, stash, about, saved, drawn, file, clean, faults>>
\* The gateway refuses, is not reached, or its reply is lost.
PostFails(c) ==
  LET i == cli[c].id
  IN /\ At(c, "send") /\ Fault
     /\ \/ UNCHANGED held /\ (Posted(c, "4xx") \/ Posted(c, "down"))
        \/ /\ held[i] = 0 /\ held' = [held EXCEPT ![i] = cli[c].rec.n]
           /\ Posted(c, "down")
     /\ UNCHANGED <<asks, stash, about, saved, drawn, file, clean>>

\* What _send_report writes into the file once it has the reply.
FirstEver(c) == cli[c].rec.attempts = 1 /\ cli[c].again
After(c) == [cli[c] EXCEPT !.pc = "next", !.id = 0, !.rec = NoFile]
Write(c, sent) == file' = [file EXCEPT ![cli[c].id] = [cli[c].rec EXCEPT !.sent = sent]]
Taken(c) == /\ (At(c, "in") \/ (At(c, "409") /\ ~FirstEver(c)))
            /\ Write(c, TRUE) /\ Go(c, After(c))
            /\ UNCHANGED <<asks, stash, about, saved, drawn, held, clean, faults>>
ForgetTry(c) ==
  /\ (At(c, "4xx") \/ At(c, "down"))
  /\ UNCHANGED file
  /\ Go(c, IF At(c, "down") THEN Idle ELSE After(c))
  /\ UNCHANGED <<asks, stash, about, saved, drawn, held, clean, faults>>
NotSent(c) ==
  /\ (At(c, "4xx") \/ At(c, "down"))
  /\ Write(c, FALSE)
  /\ Go(c, IF At(c, "down") THEN Idle ELSE After(c))
  /\ UNCHANGED <<asks, stash, about, saved, drawn, held, clean, faults>>
\* A 409 on a report never once sent is a collision: a new id, tried once.
NewName(c) ==
  /\ At(c, "409") /\ FirstEver(c) /\ NewId \in Id
  /\ drawn' = Append(drawn, cli[c].rec.n)
  /\ file' = [file EXCEPT ![NewId] = [cli[c].rec EXCEPT !.attempts = 0]]
  /\ Go(c, [cli[c] EXCEPT !.pc = "unlink", !.rec.attempts = 0])
  /\ UNCHANGED <<asks, stash, about, saved, held, clean, faults>>
Unlink(c) ==
  /\ At(c, "unlink") /\ file' = [file EXCEPT ![cli[c].id] = NoFile]
  /\ \E i \in DOMAIN drawn :
       /\ drawn[i] = cli[c].rec.n /\ \A j \in DOMAIN drawn : drawn[j] = drawn[i] => j <= i
       /\ Go(c, [cli[c] EXCEPT !.pc = "send", !.id = i, !.again = FALSE])
  /\ UNCHANGED <<asks, stash, about, saved, drawn, held, clean, faults>>

\* Ctrl-C, or an exception of the connection that _post_report does not name.
Kill(c) == /\ ~At(c, "idle") /\ Fault /\ Go(c, Idle) /\ clean' = FALSE
           /\ UNCHANGED <<asks, stash, store>>

-----------------------------------------------------------------------------
Work(c) == \/ Agree(c) \/ Next1(c) \/ Post(c) \/ Taken(c) \/ NotSent(c)
           \/ NewName(c) \/ Unlink(c)
Next == Ask \/ \E c \in Command :
  \/ Build(c) \/ Retry(c) \/ Decline(c) \/ Work(c)
  \/ SaveFails(c) \/ PostFails(c) \/ Kill(c)

\* A command that started runs on, and someone keeps retrying what waits.
Spec == Init /\ [][Next]_vars /\ \A c \in Command : WF_vars(Work(c)) /\ WF_vars(Retry(c))

-----------------------------------------------------------------------------
Records == [n : 0..MaxReports, sent : BOOLEAN, attempts : Nat]
\* Types of the state.
TypeOK == /\ stash.q \in 0..Len(asks) /\ stash.local \in BOOLEAN
          /\ \A n \in DOMAIN about : about[n] \in DOMAIN asks
          /\ saved \subseteq DOMAIN about /\ Len(drawn) \in 0..MaxIds
          /\ file \in [Id -> Records] /\ held \in [Id -> Stranger..MaxReports]
          /\ \A c \in Command : cli[c].rec \in Records

\* A report that reached the disk stays there until the gateway has answered for one of
\* its ids: pruning, a new id and a stale copy of another command never lose it.
KeptUntilIn == \A n \in saved : \/ \E i \in Id : file[i].n = n
                                \/ \E i \in DOMAIN drawn : drawn[i] = n /\ held[i] # 0
\* What a file marks as sent is at the gateway.
SentIsIn == \A i \in Id : file[i].sent => held[i] # 0
\* The gateway has only reports that were shown and agreed to, and none of them tells a
\* question asked of the model of this machine (ask's --local, common.py 2199-2205).
OnlyAgreed == \A i \in Id : held[i] > 0 => /\ held[i] \in saved
                                           /\ asks[about[held[i]]] = "network"
Once == \A i, j \in Id : held[i] > 0 /\ held[i] = held[j] => i = j
\* Failures, lost replies among them, never file a report twice by themselves.
OnceUndisturbed == clean => Once

ReportsSound == KeptUntilIn /\ SentIsIn /\ OnlyAgreed /\ OnceUndisturbed

\* _send_report (1150-1158): a 409 means the report is already in, and the exception is a
\* genuine collision, so a report is filed once whatever happened to the command before.
FiledOnce == Once

\* A report that was saved is sent in the end while someone keeps retrying.
SentInTheEnd == \A n \in 1..MaxReports :
  (n \in saved) ~> \E i \in DOMAIN drawn : drawn[i] = n /\ held[i] # 0
=============================================================================
