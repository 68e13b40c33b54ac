---------------------------- MODULE NodeLifecycle ----------------------------
(***************************************************************************)
(* One node behind a tunnel (commonnet/node.py): its main thread starts it *)
(* and, when a signal has come, stops it; its maintenance thread signs its *)
(* record, repairs the tunnel and moves to another window; its gossip      *)
(* thread signs the record too.  They share the node's fields, and hold    *)
(* its lock only while they set or sign some of them, so each action here  *)
(* is what a thread does between two points where another may run.         *)
(*                                                                         *)
(* Times are left out: a thread is as slow as it likes.  stop() waits for  *)
(* the others for five seconds each, and then goes on whether or not they  *)
(* have ended; the process ends with it, and they with the process.  What  *)
(* is left then are the tunnels, which are processes of their own.         *)
(***************************************************************************)
EXTENDS Naturals

CONSTANTS
  Window,
  None,
  MaxEvents,   \* tunnels breaking or not opening, loads failing, moves, resumes
  Exits        \* the tunnel opener may leave by sys.exit

ASSUME LifecycleAssumption ==
  None \notin Window \cup Nat /\ MaxEvents \in Nat /\ Exits \in BOOLEAN

Tunnel == 1..MaxEvents + 1    \* opening a second one takes an event
Thread == {"main", "maintain"}

VARIABLES
  node,      \* the fields of Node
  th,        \* per thread: where it is, where it returns to, the window it
             \* serves next and the tunnel in its hands
  gossiping, \* the gossip thread runs
  said,      \* the newest record signed; peers keep the newest they hear
  live,      \* tunnel processes running
  broken,    \* tunnels that answer no more
  opened,    \* tunnels opened so far
  events

vars == <<node, th, gossiping, said, live, broken, opened, events>>
net == <<live, broken, opened>>

State == {"loading", "up", "leaving"}
RecordType == [state : State, window : Window \cup {None}, url : Tunnel \cup {None}]
MainPC == {"load", "bound", "open", "opening", "up", "tell", "wait", "stop", "tellLeaving",
           "silence", "unserve", "close", "closing", "join", "done"}
MaintainPC == {"sleep", "resume", "sign", "check", "look", "move", "tellLoading", "unserve",
               "reload", "bound", "open", "opening", "close", "closing", "moved", "tell", "ended"}

TypeOK ==
  /\ node \in [state : State, window : Window \cup {None}, url : Tunnel \cup {None},
               server : Window \cup {None}, tunnel : Tunnel \cup {None},
               stop : BOOLEAN, leave : BOOLEAN, bad : BOOLEAN]
  /\ th \in [Thread -> [pc : MainPC \cup MaintainPC, back : {"up", "sign", "look", "moved"},
                        will : Window \cup {None}, held : Tunnel \cup {None}]]
  /\ th["main"].pc \in MainPC /\ th["maintain"].pc \in MaintainPC
  /\ gossiping \in BOOLEAN
  /\ said \in RecordType
  /\ live \subseteq Tunnel /\ broken \subseteq Tunnel
  /\ opened \in Nat /\ live \subseteq 1..opened /\ opened <= events + 1
  /\ events \in 0..MaxEvents

At(t, l) == th["main"].pc # "done" /\ th[t].pc = l
Go(t, l) == th' = [th EXCEPT ![t].pc = l]
GoBack(t, l, b) == th' = [th EXCEPT ![t].pc = l, ![t].back = b]
Event == events < MaxEvents /\ events' = events + 1

Record == [state |-> node.state, window |-> node.window, url |-> node.url]
Works(u) == u \in live \ broken

Init == /\ node = [state |-> "loading", window |-> None, url |-> None, server |-> None,
                   tunnel |-> None, stop |-> FALSE, leave |-> FALSE, bad |-> FALSE]
        /\ th = [t \in Thread |->
                   [pc |-> IF t = "main" THEN "load" ELSE "sleep", back |-> "up",
                    will |-> None, held |-> None]]
        /\ gossiping = TRUE
        /\ said = [state |-> "loading", window |-> None, url |-> None]
        /\ live = {} /\ broken = {} /\ opened = 0 /\ events = 0

-----------------------------------------------------------------------------
\* The parts both threads use.

\* Signing, and merging and pushing what was signed.
Say(t, l, next) == /\ At(t, l)
                   /\ said' = Record
                   /\ Go(t, next)
                   /\ UNCHANGED <<node, gossiping, net, events>>

\* _serve: the block is loaded and served, or the download or the load fails.
Serve(t, l, w, b) ==
  /\ At(t, l)
  /\ node' = [node EXCEPT !.server = w]
  /\ th' = [th EXCEPT ![t].pc = "bound", ![t].back = b, ![t].will = w]
  /\ UNCHANGED <<gossiping, said, net, events>>
ServeFails(t, l, next) ==
  /\ At(t, l) /\ Event
  /\ Go(t, next)
  /\ UNCHANGED <<node, gossiping, said, net>>
Bound(t) == /\ At(t, "bound")
            /\ Go(t, IF node.tunnel = None THEN "open" ELSE th[t].back)
            /\ UNCHANGED <<node, gossiping, said, net, events>>

\* _start_tunnel: a process is started, and kept once it has said its address.
BeginOpen(t) == /\ At(t, "open")
                /\ opened' = opened + 1
                /\ live' = live \cup {opened + 1}
                /\ th' = [th EXCEPT ![t].pc = "opening", ![t].held = opened + 1]
                /\ UNCHANGED <<node, gossiping, said, broken, events>>
EndOpen(t) == /\ At(t, "opening")
              /\ node' = [node EXCEPT !.tunnel = th[t].held, !.url = th[t].held,
                                      !.bad = @ /\ th[t].back # "look"]
              /\ Go(t, th[t].back)
              /\ UNCHANGED <<gossiping, said, net, events>>
\* An error is a NodeError: start() raises it, _maintain logs it.  When no
\* address comes, start_tunnel leaves by sys.exit, which _maintain does not
\* catch.
OpenFails(t) ==
  /\ At(t, "opening") /\ Event
  /\ live' = live \ {th[t].held}
  /\ \/ t = "main" /\ Go(t, "stop")
     \/ t = "maintain" /\ Go(t, "sleep")
     \/ t = "maintain" /\ Exits /\ Go(t, "ended")
  /\ UNCHANGED <<node, gossiping, said, broken, opened>>

\* _teardown_server
Unserve(t, next) == /\ At(t, "unserve")
                    /\ node' = [node EXCEPT !.server = None]
                    /\ Go(t, next)
                    /\ UNCHANGED <<gossiping, said, net, events>>

\* _close_tunnel: the process is taken, the address cleared, the process ended.
TakeTunnel(t) == /\ At(t, "close")
                 /\ node' = [node EXCEPT !.tunnel = None]
                 /\ th' = [th EXCEPT ![t].pc = "closing", ![t].held = node.tunnel]
                 /\ UNCHANGED <<gossiping, said, net, events>>
EndTunnel(t, next) == /\ At(t, "closing")
                      /\ node' = [node EXCEPT !.url = None]
                      /\ live' = live \ {th[t].held}
                      /\ Go(t, next)
                      /\ UNCHANGED <<gossiping, said, broken, opened, events>>

-----------------------------------------------------------------------------
\* The main thread: start, wait, stop.

Load == \/ \E w \in Window : Serve("main", "load", w, "up")
        \/ ServeFails("main", "load", "stop")
Up == /\ At("main", "up")
      /\ node' = [node EXCEPT !.window = th["main"].will, !.state = "up"]
      /\ Go("main", "tell")
      /\ UNCHANGED <<gossiping, said, net, events>>
WaitStop == /\ At("main", "wait") /\ node.stop
            /\ Go("main", "stop")
            /\ UNCHANGED <<node, gossiping, said, net, events>>
Wait == /\ At("main", "wait") /\ node.leave
        /\ Go("main", "stop")
        /\ UNCHANGED <<node, gossiping, said, net, events>>
Stop == /\ At("main", "stop")
        /\ node' = [node EXCEPT !.stop = TRUE, !.leave = TRUE, !.state = "leaving"]
        /\ Go("main", "tellLeaving")
        /\ UNCHANGED <<gossiping, said, net, events>>
StopGossip == /\ At("main", "silence")
              /\ gossiping' = FALSE
              /\ Go("main", "unserve")
              /\ UNCHANGED <<node, said, net, events>>
\* Whether or not the maintenance thread has ended by then.
Join == /\ At("main", "join")
        /\ node' = [node EXCEPT !.url = None]
        /\ Go("main", "done")
        /\ UNCHANGED <<gossiping, said, net, events>>

Main == \/ Load \/ Bound("main") \/ BeginOpen("main") \/ EndOpen("main") \/ OpenFails("main")
        \/ Up \/ Say("main", "tell", "wait") \/ Wait
        \/ Stop \/ Say("main", "tellLeaving", "silence") \/ StopGossip
        \/ Unserve("main", "close") \/ TakeTunnel("main") \/ EndTunnel("main", "join") \/ Join

-----------------------------------------------------------------------------
\* The maintenance thread.

Wake == /\ At("maintain", "sleep")
        /\ \/ node.stop /\ Go("maintain", "ended") /\ UNCHANGED events
           \/ ~node.stop /\ Go("maintain", "sign") /\ UNCHANGED events
           \/ ~node.stop /\ Event /\ Go("maintain", "resume")
        /\ UNCHANGED <<node, gossiping, said, net>>

\* _after_resume: a tunnel that does not answer is replaced at once.
Resume == /\ At("maintain", "resume")
          /\ LET keep == node.tunnel # None /\ Works(node.url) IN
             /\ IF node.server = None \/ keep THEN Go("maintain", "sign")
                ELSE GoBack("maintain", "close", "sign")
             /\ node' = IF node.server = None THEN node ELSE [node EXCEPT !.bad = FALSE]
          /\ UNCHANGED <<gossiping, said, net, events>>

CheckInverted ==
  /\ At("maintain", "check")
  /\ LET watched == node.server # None /\ node.state = "up"
         answers == Works(node.url)
     IN /\ IF ~watched THEN Go("maintain", "look")
           ELSE IF node.tunnel = None THEN GoBack("maintain", "open", "look")
           ELSE IF answers THEN GoBack("maintain", "close", "look")
           ELSE Go("maintain", "look")
        /\ node' = node
  /\ UNCHANGED <<gossiping, said, net, events>>
\* _check_tunnel: opened when there is none, replaced when it has not answered
\* twice (for TUNNEL_GRACE_SECONDS).
CheckNoReopen ==
  /\ At("maintain", "check")
  /\ LET watched == node.server # None /\ node.state = "up" /\ node.tunnel # None
         answers == Works(node.url)
     IN /\ IF watched /\ ~answers /\ node.bad THEN GoBack("maintain", "close", "look")
           ELSE Go("maintain", "look")
        /\ node' = IF watched THEN [node EXCEPT !.bad = ~answers] ELSE node
  /\ UNCHANGED <<gossiping, said, net, events>>
Check ==
  /\ At("maintain", "check")
  /\ LET watched == node.server # None /\ node.state = "up"
         answers == Works(node.url)
     IN /\ IF ~watched THEN Go("maintain", "look")
           ELSE IF node.tunnel = None THEN GoBack("maintain", "open", "look")
           ELSE IF ~answers /\ node.bad THEN GoBack("maintain", "close", "look")
           ELSE Go("maintain", "look")
        /\ node' = IF watched /\ node.tunnel # None THEN [node EXCEPT !.bad = ~answers]
                   ELSE node
  /\ UNCHANGED <<gossiping, said, net, events>>

\* _maybe_move: another window is wanted, and still is a moment later.
Look == /\ At("maintain", "look")
        /\ \/ Go("maintain", "sleep") /\ UNCHANGED events
           \/ /\ node.state = "up" /\ Event
              /\ \E w \in Window \ {node.window} :
                   th' = [th EXCEPT !["maintain"].pc = "move", !["maintain"].will = w]
        /\ UNCHANGED <<node, gossiping, said, net>>

MoveUnsaid == /\ At("maintain", "move")
              /\ node' = [node EXCEPT !.state = "loading", !.window = None]
              /\ Go("maintain", "unserve")
              /\ UNCHANGED <<gossiping, said, net, events>>
\* move
Move == /\ At("maintain", "move")
        /\ node' = [node EXCEPT !.state = "loading", !.window = None]
        /\ Go("maintain", "tellLoading")
        /\ UNCHANGED <<gossiping, said, net, events>>
Reload == \/ Serve("maintain", "reload", th["maintain"].will, "moved")
          \/ ServeFails("maintain", "reload", "sleep")
Moved == /\ At("maintain", "moved")
         /\ node' = [node EXCEPT !.window = th["maintain"].will, !.state = "up"]
         /\ Go("maintain", "tell")
         /\ UNCHANGED <<gossiping, said, net, events>>

Maintain ==
  \/ Wake \/ Resume \/ Say("maintain", "sign", "check") \/ Check \/ Look
  \/ Move \/ Say("maintain", "tellLoading", "unserve") \/ Unserve("maintain", "reload")
  \/ Reload \/ Moved \/ Say("maintain", "tell", "sleep")
  \/ Bound("maintain") \/ BeginOpen("maintain") \/ EndOpen("maintain") \/ OpenFails("maintain")
  \/ TakeTunnel("maintain") \/ EndTunnel("maintain", "open")

-----------------------------------------------------------------------------
\* The gossip thread signs at the start of each round.
Gossip == /\ gossiping /\ th["main"].pc # "done"
          /\ said' = Record
          /\ UNCHANGED <<node, th, gossiping, net, events>>

\* A signal, at any time: leave() only sets the event main waits for.
Signal == /\ th["main"].pc # "done" /\ ~node.leave
          /\ node' = [node EXCEPT !.leave = TRUE]
          /\ UNCHANGED <<th, gossiping, said, net, events>>

\* A tunnel loses its connection, or its process dies.
Break(u) == /\ th["main"].pc # "done" /\ Event
            /\ broken' = broken \cup {u}
            /\ UNCHANGED <<node, th, gossiping, said, live, opened>>

Next == Main \/ Maintain \/ Gossip \/ Signal \/ \E u \in live \ broken : Break(u)

\* Both threads go on; when signals come and tunnels break is open.
Spec == Init /\ [][Next]_vars /\ WF_vars(Main) /\ WF_vars(Maintain)

-----------------------------------------------------------------------------
\* Properties.

\* Others are told that a window is not served before it is taken down, and
\* that it is only after it is: the newest record never says "up" for a window
\* that no server of this node holds, whoever signed it and when (start, move).
PublishedIsServed ==
  ~node.stop /\ said.state = "up" => node.server = said.window

\* Once nothing happens to a node that is up, its newest record says what it
\* is and carries an address that answers (_check_tunnel, _after_resume).
RecordSettles ==
  <>[](node.state = "up" /\ ~node.stop => said = Record /\ Works(said.url))

\* A node told to leave ends, wherever its threads are (request_leave, stop).
LeaveEnds == node.leave ~> th["main"].pc = "done"

\* Leaving is the last thing a node says of itself ("Ctrl+C or SIGTERM publishes
\* `leaving` and stops cleanly", node.py).
LeavingStands == [][said.state = "leaving" => said'.state = "leaving"]_said
=============================================================================
