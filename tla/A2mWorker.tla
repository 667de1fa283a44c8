------------------------------ MODULE A2mWorker ------------------------------
(***************************************************************************)
(* How the a2m runtime worker takes commands off its queue, and how it is  *)
(* stopped: apple2/runtime/runtime_thread.c (runtime_thread_main's loop,   *)
(* runtime_coalesce_inspector_lands) and runtime_stop of                   *)
(* apple2/runtime/runtime.c.  While the user drags the Inspector's tape    *)
(* the UI sends one "land" after another; the worker keeps only the latest *)
(* of a run of them, and reading ahead it may have to hold back one other  *)
(* command (has_deferred).  A command is abstracted to what this code      *)
(* tells apart: a land, leave-inspector, quit, run, pause.                 *)
(***************************************************************************)
EXTENDS Naturals, Sequences

CONSTANTS Capacity,   \* RUNTIME_COMMAND_QUEUE_CAPACITY (256)
          MaxSends    \* bound: commands the UI thread sends

ASSUME BoundsAssumption == Capacity \in Nat \ {0} /\ MaxSends \in Nat

VARIABLES queue,                  \* command_queue (see MessageQueue)
          quit_requested,         \* the atomic flag
          exec_state,             \* "running" or "paused"
          w_pc,                   \* where the worker is
          command, deferred,      \* its locals; None when it holds nothing
          in_drain,               \* the command came from the inner loop
          u_pc,                   \* the thread that sends and stops
          sent, executed          \* history: commands accepted, commands run

vars == <<queue, quit_requested, exec_state, w_pc, command, deferred,
          in_drain, u_pc, sent, executed>>

UserTypes == {"land", "leave", "run", "pause"}
CommandOf == [n : 1 .. MaxSends + 1, type : UserTypes \cup {"quit"}]
None == [n |-> 0, type |-> "none"]

TypeOK ==
  /\ queue \in Seq(CommandOf) /\ Len(queue) <= Capacity
  /\ quit_requested \in BOOLEAN /\ in_drain \in BOOLEAN
  /\ exec_state \in {"running", "paused"}
  /\ w_pc \in {"top", "inner", "outer", "wait", "coalesce", "drop", "process", "exited"}
  /\ command \in CommandOf \cup {None} /\ deferred \in CommandOf \cup {None}
  /\ u_pc \in {"live", "clear", "push", "join", "joined"}
  /\ sent \in Seq(CommandOf) /\ Len(sent) <= MaxSends + 1
  /\ executed \in Seq(CommandOf) /\ Len(executed) <= MaxSends + 1

Init ==
  /\ queue = <<>> /\ quit_requested = FALSE
  /\ exec_state \in {"running", "paused"}           \* config.start_running
  /\ w_pc = "top" /\ command = None /\ deferred = None /\ in_drain = FALSE
  /\ u_pc = "live" /\ sent = <<>> /\ executed = <<>>

IsInspectorLand(c) == c.type = "land"
PreemptsInspectorLand(c) == c.type \in {"quit", "leave"}

-----------------------------------------------------------------------------
(* Worker.                                                                 *)

WorkerTo(pc) == w_pc' = pc /\ UNCHANGED <<quit_requested, u_pc, sent>>

\* while (alive && !runtime_quit_requested(rt))
Top ==
  /\ w_pc = "top"
  /\ WorkerTo(IF quit_requested THEN "exited" ELSE "inner")
  /\ UNCHANGED <<queue, exec_state, command, deferred, in_drain, executed>>

\* Mutant of Inner: the queue is read before the command held back.
InnerQueueFirst ==
  /\ w_pc = "inner" /\ in_drain' = TRUE
  /\ \/ /\ quit_requested /\ WorkerTo("exited")
        /\ UNCHANGED <<queue, command, deferred>>
     \/ /\ ~quit_requested /\ queue # <<>> /\ WorkerTo("coalesce")
        /\ command' = Head(queue) /\ queue' = Tail(queue) /\ UNCHANGED deferred
     \/ /\ ~quit_requested /\ queue = <<>> /\ deferred # None /\ WorkerTo("coalesce")
        /\ command' = deferred /\ deferred' = None /\ UNCHANGED queue
     \/ /\ ~quit_requested /\ queue = <<>> /\ deferred = None /\ WorkerTo("outer")
        /\ UNCHANGED <<queue, command, deferred>>
  /\ UNCHANGED <<exec_state, executed>>

\* The inner loop: quit first, then the command held back, then the queue.
Inner ==
  /\ w_pc = "inner"
  /\ \/ /\ quit_requested /\ WorkerTo("exited")
        /\ UNCHANGED <<queue, command, deferred, in_drain>>
     \/ /\ ~quit_requested /\ deferred # None /\ WorkerTo("coalesce")
        /\ command' = deferred /\ deferred' = None /\ in_drain' = TRUE
        /\ UNCHANGED queue
     \/ /\ ~quit_requested /\ deferred = None /\ queue # <<>> /\ WorkerTo("coalesce")
        /\ command' = Head(queue) /\ queue' = Tail(queue) /\ in_drain' = TRUE
        /\ UNCHANGED deferred
     \/ /\ ~quit_requested /\ deferred = None /\ queue = <<>> /\ WorkerTo("outer")
        /\ UNCHANGED <<queue, command, deferred, in_drain>>
  /\ UNCHANGED <<exec_state, executed>>

\* Run a batch, or block on the queue for 10 ms.
Outer ==
  /\ w_pc = "outer"
  /\ \/ /\ exec_state = "running"       \* a breakpoint may end the batch
        /\ exec_state' \in {"running", "paused"} /\ WorkerTo("top")
     \/ /\ exec_state = "paused" /\ UNCHANGED exec_state
        /\ WorkerTo(IF deferred # None THEN "top" ELSE "wait")
  /\ UNCHANGED <<queue, command, deferred, in_drain, executed>>

\* message_queue_wait_pop_timeout: an item, a wake_all, or the time is up.
WaitPop ==
  /\ w_pc = "wait"
  /\ \/ /\ queue # <<>>
        /\ command' = Head(queue) /\ queue' = Tail(queue) /\ in_drain' = FALSE
        /\ w_pc' = IF quit_requested /\ Head(queue).type # "quit"
                   THEN "exited" ELSE "coalesce"
     \/ /\ queue = <<>> /\ w_pc' = "top"
        /\ UNCHANGED <<queue, command, in_drain>>
  /\ UNCHANGED <<quit_requested, exec_state, deferred, u_pc, sent, executed>>

\* Mutant of Coalesce: the oldest land of a run is kept instead of the latest.
CoalesceKeepsFirst ==
  /\ w_pc = "coalesce"
  /\ IF ~IsInspectorLand(command) \/ queue = <<>>
     THEN WorkerTo("process") /\ UNCHANGED <<queue, command, deferred>>
     ELSE LET extra == Head(queue) IN
          /\ queue' = Tail(queue)
          /\ \/ /\ IsInspectorLand(extra)
                /\ WorkerTo("coalesce") /\ UNCHANGED <<command, deferred>>
             \/ /\ PreemptsInspectorLand(extra)
                /\ command' = extra /\ WorkerTo("drop") /\ UNCHANGED deferred
             \/ /\ ~IsInspectorLand(extra) /\ ~PreemptsInspectorLand(extra)
                /\ deferred' = extra /\ WorkerTo("process") /\ UNCHANGED command
  /\ UNCHANGED <<exec_state, in_drain, executed>>

\* runtime_coalesce_inspector_lands, one try_pop at a time: a later land
\* replaces the one in hand, quit and leave take its place, anything else is
\* held back.
Coalesce ==
  /\ w_pc = "coalesce"
  /\ IF ~IsInspectorLand(command) \/ queue = <<>>
     THEN WorkerTo("process") /\ UNCHANGED <<queue, command, deferred>>
     ELSE LET extra == Head(queue) IN
          /\ queue' = Tail(queue)
          /\ \/ /\ IsInspectorLand(extra)
                /\ command' = extra /\ WorkerTo("coalesce") /\ UNCHANGED deferred
             \/ /\ PreemptsInspectorLand(extra)
                /\ command' = extra /\ WorkerTo("drop") /\ UNCHANGED deferred
             \/ /\ ~IsInspectorLand(extra) /\ ~PreemptsInspectorLand(extra)
                /\ deferred' = extra /\ WorkerTo("process") /\ UNCHANGED command
  /\ UNCHANGED <<exec_state, in_drain, executed>>

\* Mutant of DropBacklog: the command after the backlog is dropped with it.
DropTooMuch ==
  /\ w_pc = "drop"
  /\ IF queue = <<>> THEN WorkerTo("process") /\ UNCHANGED queue
     ELSE /\ queue' = Tail(queue)
          /\ WorkerTo(IF IsInspectorLand(Head(queue)) THEN "drop" ELSE "process")
  /\ UNCHANGED <<exec_state, command, deferred, in_drain, executed>>

\* Behind a preempting command the backlog of lands is dropped.
DropBacklog ==
  /\ w_pc = "drop"
  /\ IF queue = <<>>
     THEN WorkerTo("process") /\ UNCHANGED <<queue, deferred>>
     ELSE /\ queue' = Tail(queue)
          /\ \/ /\ IsInspectorLand(Head(queue))
                /\ WorkerTo("drop") /\ UNCHANGED deferred
             \/ /\ ~IsInspectorLand(Head(queue))
                /\ WorkerTo("process") /\ deferred' = Head(queue)
  /\ UNCHANGED <<exec_state, command, in_drain, executed>>

\* runtime_process_command, then round the loop the command came from.
Process ==
  /\ w_pc = "process"
  /\ executed' = Append(executed, command)
  /\ exec_state' = CASE command.type = "run" -> "running"
                     [] command.type = "pause" -> "paused"
                     [] OTHER -> exec_state
  /\ command' = None
  /\ WorkerTo(CASE command.type = "quit" -> "exited"
                [] command.type # "quit" /\ in_drain -> "inner"
                [] OTHER -> "top")
  /\ UNCHANGED <<queue, deferred, in_drain>>

-----------------------------------------------------------------------------
(* The sending thread (the SDL main thread).                               *)

UserTo(pc) ==
  u_pc' = pc /\ UNCHANGED <<exec_state, w_pc, command, deferred, in_drain, executed>>

\* Mutant of Send: the push does not test for room.
SendOverfull(type) ==
  /\ u_pc = "live" /\ Len(sent) < MaxSends
  /\ queue' = Append(queue, [n |-> Len(sent) + 1, type |-> type])
  /\ sent' = Append(sent, [n |-> Len(sent) + 1, type |-> type])
  /\ UserTo("live") /\ UNCHANGED quit_requested

\* runtime_client_push: a full queue refuses the command.
Send(type) ==
  /\ u_pc = "live" /\ Len(sent) < MaxSends /\ Len(queue) < Capacity
  /\ queue' = Append(queue, [n |-> Len(sent) + 1, type |-> type])
  /\ sent' = Append(sent, [n |-> Len(sent) + 1, type |-> type])
  /\ UserTo("live") /\ UNCHANGED quit_requested

\* Mutant of StopRequest: neither flag nor clear, only the QUIT command.
StopWithoutFlag ==
  /\ u_pc = "live"
  /\ UserTo("push") /\ UNCHANGED <<queue, sent, quit_requested>>

\* runtime_stop: flag, clear, push QUIT, join.  (Its message_queue_wake_all
\* only shortens a wait that ends after 10 ms anyway.)
StopRequest ==
  /\ u_pc = "live"
  /\ quit_requested' = TRUE
  /\ UserTo("clear") /\ UNCHANGED <<queue, sent>>

StopClear ==
  /\ u_pc = "clear"
  /\ queue' = <<>>
  /\ UserTo("push") /\ UNCHANGED <<quit_requested, sent>>

StopPush ==
  /\ u_pc = "push"
  /\ LET quit == [n |-> Len(sent) + 1, type |-> "quit"] IN
       IF Len(queue) < Capacity
       THEN queue' = Append(queue, quit) /\ sent' = Append(sent, quit)
       ELSE UNCHANGED <<queue, sent>>
  /\ UserTo("join") /\ UNCHANGED quit_requested

Joined ==
  /\ u_pc = "join" /\ w_pc = "exited"
  /\ UserTo("joined") /\ UNCHANGED <<queue, quit_requested, sent>>

-----------------------------------------------------------------------------
Worker == Top \/ Inner \/ Outer \/ WaitPop \/ Coalesce \/ DropBacklog \/ Process
Stopping == StopClear \/ StopPush \/ Joined
Finished == u_pc = "joined" /\ UNCHANGED vars

Next ==
  \/ Worker \/ StopRequest \/ Stopping \/ Finished
  \/ \E type \in UserTypes : Send(type)

SafetySpec == Init /\ [][Next]_vars

\* Both threads are scheduled; a cond_wait_timeout returns within 10 ms.
Spec == SafetySpec /\ WF_vars(Worker) /\ WF_vars(Stopping)

-----------------------------------------------------------------------------
Executed == {executed[i].n : i \in DOMAIN executed}
Skipped  == {n \in DOMAIN sent :
               n \notin Executed /\ \E i \in DOMAIN executed : executed[i].n > n}

\* Reading ahead never reorders: commands run in the order they were sent, and
\* none runs twice.
InOrder ==
  \A i, j \in DOMAIN executed : i < j => executed[i].n < executed[j].n

\* Only lands are ever skipped, until the worker is told to quit; and a land is
\* skipped only if it was superseded (the next command is a land too, or takes
\* the Inspector away) or is part of the backlog behind a preempting command.
OnlyStaleLandsSkipped ==
  quit_requested \/ \A n \in Skipped :
    /\ IsInspectorLand(sent[n])
    /\ \/ IsInspectorLand(sent[n + 1]) \/ PreemptsInspectorLand(sent[n + 1])
       \/ \E m \in 1 .. n - 1 : /\ PreemptsInspectorLand(sent[m])
                                /\ \A k \in m + 1 .. n : IsInspectorLand(sent[k])

\* A command accepted before a stop is not lost between the queue, the command
\* in hand and the one held back: it has run, was skipped as above, or is in
\* exactly one of those places.
NothingLost ==
  quit_requested \/ \A n \in DOMAIN sent :
    \/ n \in Executed \/ IsInspectorLand(sent[n])
    \/ command = sent[n] \/ deferred = sent[n]
    \/ \E i \in DOMAIN queue : queue[i] = sent[n]

\* runtime_stop returns, however full the queue was and whatever the worker
\* was doing ("A failing QUIT push then thread_join beachballs").
StopReturns == u_pc # "live" ~> u_pc = "joined"
=============================================================================
