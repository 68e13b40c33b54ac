---------------------------- MODULE WorkerProxy ----------------------------
(***************************************************************************)
(* The worker of a node that serves a gateway (join/worker.py): it answers *)
(* the gateway's requests over kept connections, refuses what it must not  *)
(* serve, and copies the reply of the model server piece by piece.  The    *)
(* model server (external) has one slot: requests wait for it in turn.     *)
(***************************************************************************)
EXTENDS Integers, Sequences, SequencesExt

CONSTANTS
  Conn,       \* connections of the gateway
  Pieces,     \* of a whole reply
  MaxRequests,
  MaxFaults

VARIABLES
  gw,     \* per connection what the gateway has of its request, and how many pieces
  at,     \* where the handler is: "next" (reads a request), "ask", "copy", "closed"
  up,     \* the reply of the model server: pieces sent, and whether it ended and how
  queue,  \* connections whose request the model server has, its slot first
  asked, faults,
  reset,  \* for the properties: a connection of the model server was reset
  short   \* and the connections whose reply it gave a length, and ended before it

vars == <<gw, at, up, queue, asked, faults, reset, short>>

NoReply == [state |-> "none", n |-> 0]
Fault == faults < MaxFaults /\ faults' = faults + 1

Init == /\ gw = [c \in Conn |-> [state |-> "idle", n |-> 0]]
        /\ at = [c \in Conn |-> "next"] /\ up = [c \in Conn |-> NoReply]
        /\ queue = <<>> /\ asked = 0 /\ faults = 0 /\ reset = FALSE /\ short = {}

Got(c, state) == gw' = [gw EXCEPT ![c].state = state]
Goes(c, to) == at' = [at EXCEPT ![c] = to]
Busy(c) == gw[c].state \in {"waiting", "reading"}
Dropped(c) == queue' = RemoveFirst(queue, c)
\* Closing the reply of the model server ends its work on the request.
Released(c) == Dropped(c) /\ up' = [up EXCEPT ![c] = NoReply]

-----------------------------------------------------------------------------
\* do_GET, do_POST: what is answered without the model server, and what goes on.
Request(c) ==
  /\ asked < MaxRequests /\ gw[c].state \in {"idle", "whole", "refused"} /\ at[c] = "next"
  /\ asked' = asked + 1
  /\ gw' = [gw EXCEPT ![c] = [state |-> "waiting", n |-> 0]] /\ Goes(c, "ask")
  /\ short' = short \ {c}
  /\ UNCHANGED <<up, queue, faults, reset>>
\* The health check, another route, no token, another model.
Local(c) == /\ at[c] = "ask" /\ up[c].state = "none" /\ Busy(c)
            /\ Got(c, "refused") /\ Goes(c, "next")
            /\ UNCHANGED <<up, queue, asked, faults, reset, short>>
\* A body too large is refused unread, and the connection closed.
TooLarge(c) == /\ at[c] = "ask" /\ up[c].state = "none" /\ Busy(c) /\ Fault
               /\ Got(c, "cut") /\ Goes(c, "closed")
               /\ UNCHANGED <<up, queue, asked, reset, short>>
\* _proxy_chat.
Ask(c) == /\ at[c] = "ask" /\ up[c].state = "none"
          /\ up' = [up EXCEPT ![c].state = "queued"] /\ queue' = Append(queue, c)
          /\ UNCHANGED <<gw, at, asked, faults, reset, short>>
NoBackend(c) == /\ at[c] = "ask" /\ Fault
                /\ gw' = IF Busy(c) THEN [gw EXCEPT ![c].state = "refused"] ELSE gw
                /\ Goes(c, "next") /\ Released(c)
                /\ UNCHANGED <<asked, reset, short>>
Opened(c) == /\ at[c] = "ask" /\ up[c].state \in {"open", "end"}
             /\ Goes(c, "copy")
             /\ gw' = IF Busy(c) THEN [gw EXCEPT ![c].state = "reading"] ELSE gw
             /\ UNCHANGED <<up, queue, asked, faults, reset, short>>

\* The model server (external): one request at a time, a piece at a time.
Slot(c) == queue # <<>> /\ Head(queue) = c
Generate(c) == /\ Slot(c) /\ up[c].state \in {"queued", "open"}
               /\ up' = [up EXCEPT ![c] = IF up[c].n = Pieces THEN [@ EXCEPT !.state = "end"]
                                          ELSE [state |-> "open", n |-> @.n + 1]]
               /\ queue' = IF up[c].n = Pieces THEN Tail(queue) ELSE queue
               /\ UNCHANGED <<gw, at, asked, faults, reset, short>>

-----------------------------------------------------------------------------
\* A piece is written as soon as it is read; a gateway that has gone ends the copy.
Copy(c) == /\ at[c] = "copy" /\ gw[c].n < up[c].n
           /\ IF Busy(c) THEN gw' = [gw EXCEPT ![c].n = @ + 1] /\ UNCHANGED <<at, up, queue>>
              ELSE Goes(c, "closed") /\ Released(c) /\ UNCHANGED gw
           /\ UNCHANGED <<asked, faults, reset, short>>
\* The last chunk is written.
LastChunk(c) == /\ gw' = IF Busy(c) THEN [gw EXCEPT ![c].state = "whole"] ELSE gw
                /\ Goes(c, IF Busy(c) THEN "next" ELSE "closed") /\ Released(c)
EndsEarly(c) == /\ at[c] = "copy" /\ up[c].state = "end"
                /\ LastChunk(c)
                /\ UNCHANGED <<asked, faults, reset, short>>
\* The reply is at its end.
Ends(c) == /\ at[c] = "copy" /\ up[c].state = "end" /\ gw[c].n = up[c].n
           /\ LastChunk(c)
           /\ UNCHANGED <<asked, faults, reset, short>>
\* The model server's connection ends before a reply that was given a length has it: read1
\* returns nothing, as at the end, and the last chunk is written (worker.py 375-381).
EndsShort(c) == /\ at[c] = "copy" /\ up[c].state = "open" /\ Fault
                /\ gw[c].n = up[c].n /\ up[c].n < Pieces
                /\ LastChunk(c)
                /\ short' = short \cup {c}
                /\ UNCHANGED <<asked, reset>>
\* It ends in the middle of a chunked reply, or any reply stops for UPSTREAM_TIMEOUT: the handler
\* raises, and the gateway's connection is closed without the last chunk.
KeepsOpen(c) == /\ at[c] = "copy" /\ up[c].state = "open" /\ Fault
                /\ Goes(c, "next") /\ Released(c)
                /\ UNCHANGED <<gw, asked, reset, short>>
Breaks(c) == /\ at[c] = "copy" /\ up[c].state = "open" /\ Fault
             /\ gw' = IF Busy(c) THEN [gw EXCEPT ![c].state = "cut"] ELSE gw
             /\ Goes(c, "closed") /\ Released(c)
             /\ UNCHANGED <<asked, reset, short>>
\* A connection reset by the model server is taken for the gateway hanging up (worker.py 383):
\* the handler waits for the next request on a connection whose reply has no end.
Reset(c) == /\ at[c] = "copy" /\ up[c].state = "open" /\ Fault
            /\ Goes(c, IF Busy(c) THEN "next" ELSE "closed") /\ Released(c)
            /\ reset' = TRUE /\ UNCHANGED <<gw, asked, short>>
Hangup(c) == /\ Busy(c) /\ Fault /\ Got(c, "left")
             /\ UNCHANGED <<at, up, queue, asked, reset, short>>

-----------------------------------------------------------------------------
Work(c) == Ask(c) \/ Opened(c) \/ Generate(c) \/ Copy(c) \/ Ends(c)
Next == \E c \in Conn : \/ Work(c) \/ Request(c) \/ Local(c) \/ TooLarge(c) \/ NoBackend(c)
                        \/ EndsShort(c) \/ Breaks(c) \/ Reset(c) \/ Hangup(c)
Spec == Init /\ [][Next]_vars /\ \A c \in Conn : WF_vars(Work(c))

-----------------------------------------------------------------------------
\* Types of the state.
TypeOK == /\ \A c \in Conn : gw[c].n \in 0..Pieces /\ up[c].n \in 0..Pieces
          /\ queue \in Seq(Conn) /\ asked \in 0..MaxRequests /\ short \subseteq Conn

\* What the gateway takes for a whole reply is all the pieces of it, and it has none before the
\* model server wrote it; but for a reply that the model server gave a length and ended before.
Exact == \A c \in Conn : /\ gw[c].state = "whole" => gw[c].n = Pieces \/ c \in short
                         /\ at[c] = "copy" => gw[c].n <= up[c].n
\* The one slot is only held for a request that a handler still wants.
SlotWanted == \A i \in DOMAIN queue : at[queue[i]] \in {"ask", "copy"} /\
                                      \A j \in DOMAIN queue : queue[i] = queue[j] => i = j
WorkerSound == Exact /\ SlotWanted

\* The gateway is never left waiting for the rest of a reply, unless the model server's
\* connection was reset.
RepliesEnd == \A c \in Conn : Busy(c) ~> (~Busy(c) \/ reset)
=============================================================================
