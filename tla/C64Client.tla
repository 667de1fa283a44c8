------------------------------ MODULE C64Client ------------------------------
(***************************************************************************)
(* c64m's main thread between the control port and the worker              *)
(* (src/src/c64/main.c): the mirror of the worker's state it keeps in      *)
(* debug_state, the event latch, wait-paused, wait-running and wait-event, *)
(* the optimistic "running" of an accepted run, and the runtime session it *)
(* binds to a TCP client by pumping events inside control_session_ensure.  *)
(* The worker is reduced to the commands that matter here: run, pause, a   *)
(* step over that drops what it finds in the queue, requests for the       *)
(* machine state, a breakpoint update it may reject with an error, session *)
(* open and close, and a stop of its own at a breakpoint.  It publishes    *)
(* the events of a command one by one.  Both queues are bounded: a full    *)
(* one refuses the command, and drops the event.                           *)
(***************************************************************************)
EXTENDS Naturals, SequencesExt, FiniteSets

CONSTANTS
    Ops,           \* requests the client may send
    CommandQueue,  \* RUNTIME_COMMAND_QUEUE_CAPACITY
    EventQueue,    \* RUNTIME_EVENT_QUEUE_CAPACITY
    SessionSlots,  \* RUNTIME_SESSION_CAPACITY less the default session
    MaxRequests,   \* bound: requests sent
    MaxStops,      \* bound: breakpoint stops
    MaxConnects,   \* bound: TCP connections
    MaxOpens       \* bound: session opens

ASSUME OpsKnown == Ops \subseteq {"run", "pause", "step", "waitPaused", "waitRunning",
                                  "waitEvent", "history", "update"}
ASSUME Bounds == {CommandQueue, EventQueue, SessionSlots, MaxRequests, MaxStops, MaxConnects,
                  MaxOpens} \subseteq Nat

VARIABLES
    peer,     \* [on, epoch, sent]: client connected, connection_epoch, requests sent
    requests, \* the control server's request queue
    pc,       \* where the main loop is
    mirror,   \* debug_state.runtime_state
    latch,    \* the sticky events: those among LatchedTypes that are set
    entry,    \* the one exclusive deferred entry: [op, token, epoch]
    bind,     \* session_bind: [id, epoch]
    pump,     \* control_session_ensure in progress: [token, epoch, ret], no token before the open
    opens,    \* session opens so far, the token of the last one
    asks,     \* history requests so far, the token of the last one
    cmds,     \* the command queue
    events,   \* the event queue
    w,        \* the worker: [exec, stepping, stops, burst, dropped]; dropped is history:
              \* the last state event it published met a full queue
    slots,    \* active session ids
    lost,     \* history: slots whose close or grant was dropped, or the grant came late
    swallowed \* history: the pump took a state event the mirror never saw

vars == <<peer, requests, pc, mirror, latch, entry, bind, pump, opens, asks, cmds, events,
          w, slots, lost, swallowed>>
worker == <<cmds, events, w, slots>>

NoPump == [token |-> 0, epoch |-> 0, ret |-> "none"]
Unbound == [id |-> 0, epoch |-> 0]
NoEntry == [op |-> "none", token |-> 0, epoch |-> 0]

------------------------------------------------------------------------------
(* Events *)

Event(t) == [t |-> t, id |-> 0, token |-> 0]
Grant(id, token) == [t |-> "SESSION", id |-> id, token |-> token]
MachineState(exec) == Event(IF exec = "RUNNING" THEN "STATE_RUNNING" ELSE "STATE_STOPPED")
IsMachineState(e) == e.t \in {"STATE_RUNNING", "STATE_STOPPED"}
IsState(e) == IsMachineState(e) \/ e.t \in {"RUNNING", "PAUSED", "STEP_COMPLETE"}

\* Mutant: the running flag of MACHINE_STATE is ignored.
HearNoMachineState(m, e) ==
    CASE e.t = "RUNNING" -> "RUNNING"
      [] e.t \in {"PAUSED", "STEP_COMPLETE"} -> "PAUSED"
      [] e.t = "ERROR" -> "ERROR"
      [] OTHER -> m

\* update_debug_state_from_event: an error stays until execution is heard of,
\* MACHINE_STATE does not clear it.
Hear(m, e) ==
    CASE e.t = "RUNNING" -> "RUNNING"
      [] e.t \in {"PAUSED", "STEP_COMPLETE"} -> "PAUSED"
      [] e.t = "ERROR" -> "ERROR"
      [] IsMachineState(e) /\ m # "ERROR" -> IF e.t = "STATE_RUNNING" THEN "RUNNING" ELSE "PAUSED"
      [] OTHER -> m

\* control_event_latch_note: a resume makes a latched stop stale, a stop a
\* latched resume.
Note(l, e) ==
    CASE e.t = "RUNNING" -> (l \ {"PAUSED"}) \cup {"RUNNING"}
      [] e.t = "PAUSED" -> (l \ {"RUNNING"}) \cup {"PAUSED"}
      [] OTHER -> l

\* check_deferred_state_wait: wait-paused needs the MACHINE_STATE event,
\* wait-running any event; check_deferred_event_wait; a history result
\* completes the entry with its token, an error a breakpoint update.
Serves(e, m, l) ==
    CASE entry.op = "waitPaused"  -> IsMachineState(e) /\ m = "PAUSED"
      [] entry.op = "waitRunning" -> m = "RUNNING"
      [] entry.op = "waitEvent"   -> "PAUSED" \in l
      [] entry.op = "history"     -> e.t = "HISTORY" /\ e.token = entry.token
      [] entry.op = "update"      -> e.t = "ERROR"
      [] OTHER -> FALSE

\* A breakpoint table completes an update if it shows what the update wants.
MayServe(e) == entry.op = "update" /\ e.t = "BREAKPOINTS"

\* One event through the latch and the deferred entry, the mirror being m.
Handle(e, m) ==
    LET l == Note(latch, e) IN
    /\ latch' = IF entry.op = "waitEvent" THEN l \ {"PAUSED"} ELSE l
    /\ \/ (Serves(e, m, l) \/ MayServe(e)) /\ entry' = NoEntry
       \/ ~Serves(e, m, l) /\ UNCHANGED entry

------------------------------------------------------------------------------
(* The main loop: poll events, check the session, time out, dispatch *)

\* The session of a grant that nobody waits for or that is dropped.
Stray(e) == {e.id} \cap slots

Poll ==
    /\ pc = "poll" /\ events # <<>>
    /\ LET e == Head(events) IN
        /\ mirror' = Hear(mirror, e)
        /\ Handle(e, Hear(mirror, e))
        /\ swallowed' = (swallowed /\ ~IsMachineState(e))
        /\ lost' = lost \cup Stray(e)
    /\ events' = Tail(events)
    /\ UNCHANGED <<peer, requests, pc, bind, pump, opens, asks, cmds, w, slots>>

PollEnds ==
    /\ pc = "poll" /\ events = <<>>
    /\ pc' = "session"
    /\ UNCHANGED <<peer, requests, mirror, latch, entry, bind, pump, opens, asks, worker,
                   lost, swallowed>>

BoundHere == bind.id # 0 /\ bind.epoch = peer.epoch

\* message_queue_push of a command: a full queue refuses it.
Full == Len(cmds) = CommandQueue
Push(c) == cmds' = IF Full THEN cmds ELSE Append(cmds, c)

\* Mutant: the binding is forgotten, the session left open.
ReleaseSilently == bind' = Unbound /\ UNCHANGED <<cmds, lost>>

\* control_session_release: fire and forget, the binding is cleared even when
\* the close is refused.
Release ==
    /\ bind' = Unbound
    /\ IF bind.id = 0 THEN UNCHANGED <<cmds, lost>>
       ELSE /\ Push([op |-> "close", id |-> bind.id, token |-> 0])
            /\ lost' = IF Full THEN lost \cup {bind.id} ELSE lost

\* control_session_ensure up to its open: an old binding is released.
Ensure(ret) ==
    /\ Release
    /\ pump' = [token |-> 0, epoch |-> peer.epoch, ret |-> ret]
    /\ pc' = "open"

\* A new session is asked for, and the main thread pumps events until the
\* answer.  A refused open ends it; so does the bound on opens.
OpenSession ==
    /\ pc = "open"
    /\ IF Full \/ opens = MaxOpens
       THEN pc' = pump.ret /\ pump' = NoPump /\ UNCHANGED <<opens, cmds>>
       ELSE /\ opens' = opens + 1
            /\ Push([op |-> "open", id |-> 0, token |-> opens + 1])
            /\ pump' = [pump EXCEPT !.token = opens + 1]
            /\ pc' = "pump"
    /\ UNCHANGED <<peer, requests, mirror, latch, entry, bind, asks, events, w, slots, lost,
                   swallowed>>

\* check_deferred_control_session, first half.
CheckSession ==
    /\ pc = "session"
    /\ IF peer.on /\ ~BoundHere THEN Ensure("entries")
       ELSE /\ pc' = "entries"
            /\ IF peer.on THEN UNCHANGED <<cmds, bind, lost>> ELSE Release
            /\ UNCHANGED pump
    /\ UNCHANGED <<peer, requests, mirror, latch, entry, opens, asks, events, w, slots, swallowed>>

\* Second half: an entry of another connection is dropped, but a wait carries
\* no epoch and is left alone.
CheckEntries ==
    /\ pc = "entries"
    /\ entry' = IF entry.epoch # 0 /\ (~peer.on \/ peer.epoch # entry.epoch) THEN NoEntry ELSE entry
    /\ pc' = "timeout"
    /\ UNCHANGED <<peer, requests, mirror, latch, bind, pump, opens, asks, worker, lost,
                   swallowed>>

IsAnswer(e) == e.t = "SESSION" /\ e.token = pump.token

\* The answer binds the epoch read before the wait.
PumpAnswered ==
    /\ pc = "pump" /\ events # <<>> /\ IsAnswer(Head(events))
    /\ bind' = IF Head(events).id # 0 THEN [id |-> Head(events).id, epoch |-> pump.epoch] ELSE bind
    /\ events' = Tail(events)
    /\ pc' = pump.ret /\ pump' = NoPump
    /\ UNCHANGED <<peer, requests, mirror, latch, entry, opens, asks, cmds, w, slots, lost,
                   swallowed>>

\* Any other event reaches the latch and the entry, never the mirror.
PumpOther ==
    /\ pc = "pump" /\ events # <<>> /\ ~IsAnswer(Head(events))
    /\ Handle(Head(events), mirror)
    /\ events' = Tail(events)
    /\ swallowed' = (swallowed \/ IsState(Head(events)))
    /\ lost' = lost \cup Stray(Head(events))
    /\ UNCHANGED <<peer, requests, pc, mirror, bind, pump, opens, asks, cmds, w, slots>>

\* Two seconds without the answer.
PumpTimeout ==
    /\ pc = "pump" /\ events = <<>>
    /\ pc' = pump.ret /\ pump' = NoPump
    /\ UNCHANGED <<peer, requests, mirror, latch, entry, bind, opens, asks, worker, lost, swallowed>>

\* check_deferred_control_timeout: an entry past its deadline is answered with
\* an error; then the requests.
Expires ==
    /\ pc = "timeout" /\ entry # NoEntry
    /\ entry' = NoEntry
    /\ UNCHANGED <<peer, requests, pc, mirror, latch, bind, pump, opens, asks, worker, lost,
                   swallowed>>
TimeoutsDone ==
    /\ pc = "timeout"
    /\ pc' = "dispatch"
    /\ UNCHANGED <<peer, requests, mirror, latch, entry, bind, pump, opens, asks, worker,
                   lost, swallowed>>

------------------------------------------------------------------------------
(* Dispatch *)

ExecutionControl == {"run", "pause", "step"}
Command(op) == [op |-> op, id |-> 0, token |-> 0]

\* An execution command drops the latched execution events, even if the queue
\* refuses it; accepted, it is followed by a request for the state, and a run
\* is believed at once.
Accept(op) ==
    /\ op \in ExecutionControl
    /\ latch' = {}
    /\ Push(Command(op))
    /\ mirror' = IF op = "run" /\ ~Full THEN "RUNNING" ELSE mirror
    /\ pc' = IF Full THEN pc ELSE "state"
    /\ UNCHANGED <<entry, bind, pump, opens, asks, lost>>

\* request_debug_state, which may be refused in turn.
RequestState ==
    /\ pc = "state"
    /\ Push(Command("state"))
    /\ pc' = "dispatch"
    /\ UNCHANGED <<peer, requests, mirror, latch, entry, bind, pump, opens, asks, events, w, slots,
                   lost, swallowed>>

\* deferred_begin: one exclusive entry at a time, or "busy".
Busy == entry # NoEntry
Defer(op) == entry' = [NoEntry EXCEPT !.op = op]

\* wait-paused and wait-running: answered from the mirror or deferred.
WaitState(op, state) ==
    /\ op = IF state = "PAUSED" THEN "waitPaused" ELSE "waitRunning"
    /\ IF mirror = state \/ Busy THEN UNCHANGED entry ELSE Defer(op)
    /\ UNCHANGED <<pc, mirror, latch, bind, pump, opens, asks, cmds, lost>>

\* wait-event paused: a latched event answers at once, unless busy.
WaitEvent(op) ==
    /\ op = "waitEvent"
    /\ CASE Busy -> UNCHANGED <<latch, entry>>
         [] "PAUSED" \in latch -> latch' = latch \ {"PAUSED"} /\ UNCHANGED entry
         [] OTHER -> Defer(op) /\ UNCHANGED latch
    /\ UNCHANGED <<pc, mirror, bind, pump, opens, asks, cmds, lost>>

\* break-update: deferred if the queue takes the command.
BreakUpdate(op) ==
    /\ op = "update"
    /\ IF Busy \/ Full THEN UNCHANGED <<cmds, entry>> ELSE Push(Command(op)) /\ Defer(op)
    /\ UNCHANGED <<pc, mirror, latch, bind, pump, opens, asks, lost>>

\* A history request is sent in session id and, unless the queue refuses it,
\* deferred for this epoch.
Ask(id) ==
    /\ asks' = asks + 1
    /\ Push([op |-> "history", id |-> id, token |-> asks + 1])
    /\ entry' = IF Full THEN entry ELSE [op |-> "history", token |-> asks + 1, epoch |-> peer.epoch]

\* It binds a session first; without one it goes to the default session, 0.
History(op) ==
    /\ op = "history"
    /\ CASE Busy -> UNCHANGED <<pc, bind, pump, asks, cmds, entry, lost>>
         [] ~Busy /\ peer.on /\ ~BoundHere -> Ensure("history") /\ UNCHANGED <<asks, entry>>
         [] OTHER -> /\ Ask(IF peer.on THEN bind.id ELSE 0)
                     /\ UNCHANGED <<pc, bind, pump, lost>>
    /\ UNCHANGED <<mirror, latch, opens>>
HistoryBound ==
    /\ pc = "history"
    /\ Ask(bind.id)
    /\ pc' = "dispatch"
    /\ UNCHANGED <<peer, requests, mirror, latch, bind, pump, opens, events, w, slots, lost,
                   swallowed>>

Dispatch ==
    /\ pc = "dispatch" /\ requests # <<>>
    /\ requests' = Tail(requests)
    /\ LET op == Head(requests) IN
        \/ Accept(op) \/ WaitEvent(op) \/ BreakUpdate(op) \/ History(op)
        \/ \E state \in {"PAUSED", "RUNNING"} : WaitState(op, state)
    /\ UNCHANGED <<peer, events, w, slots, swallowed>>

DispatchEnds ==
    /\ pc = "dispatch" /\ requests = <<>>
    /\ pc' = "poll"
    /\ UNCHANGED <<peer, requests, mirror, latch, entry, bind, pump, opens, asks, worker,
                   lost, swallowed>>

Main == \/ Poll \/ PollEnds \/ CheckSession \/ CheckEntries \/ OpenSession \/ PumpAnswered
        \/ PumpOther \/ PumpTimeout \/ Expires \/ TimeoutsDone \/ Dispatch \/ RequestState
        \/ HistoryBound \/ DispatchEnds

------------------------------------------------------------------------------
(* The worker *)

mainVars == <<requests, pc, mirror, latch, entry, bind, pump, opens, asks, swallowed>>

\* runtime_publish_event: an event that does not fit is dropped.
Publishes == w.burst # <<>>
Emit ==
    /\ Publishes
    /\ LET e == Head(w.burst)
           full == Len(events) = EventQueue IN
        /\ events' = IF full THEN events ELSE Append(events, e)
        /\ w' = [w EXCEPT !.burst = Tail(@), !.dropped = IF IsState(e) THEN full ELSE @]
        /\ lost' = IF full THEN lost \cup Stray(e) ELSE lost
    /\ UNCHANGED <<peer, cmds, slots, mainVars>>

Stopped(t) == <<Event(t), MachineState("PAUSED")>>
Resume == [w EXCEPT !.exec = "RUNNING", !.stepping = FALSE, !.burst = <<Event("RUNNING")>>]
Halt == [w EXCEPT !.exec = "PAUSED", !.stepping = FALSE, !.burst = Stopped("PAUSED")]

\* Mutant: the table's capacity is not tested.
OpenUnchecked(c) ==
    slots' = slots \cup {c.token} /\ w' = [w EXCEPT !.burst = <<Grant(c.token, c.token)>>]

\* runtime_session_allocate numbers sessions upwards; the token stands for it.
Open(c) ==
    IF Cardinality(slots) < SessionSlots
    THEN slots' = slots \cup {c.token} /\ w' = [w EXCEPT !.burst = <<Grant(c.token, c.token)>>]
    ELSE UNCHANGED slots /\ w' = [w EXCEPT !.burst = <<Grant(0, c.token)>>]

TakeCommand ==
    /\ ~Publishes /\ ~w.stepping /\ cmds # <<>>
    /\ cmds' = Tail(cmds)
    /\ LET c == Head(cmds) IN
       CASE c.op = "run"   -> w' = Resume /\ UNCHANGED slots
         [] c.op = "pause" -> w' = Halt /\ UNCHANGED slots
         [] c.op = "step"  -> w' = [w EXCEPT !.exec = "PAUSED", !.stepping = TRUE] /\ UNCHANGED slots
         [] c.op = "state" -> /\ w' = [w EXCEPT !.burst = <<MachineState(w.exec)>>]
                              /\ UNCHANGED slots
         [] c.op = "update" -> /\ w' \in {[w EXCEPT !.burst = <<Event("BREAKPOINTS")>>],
                                          [w EXCEPT !.burst = <<Event("ERROR"), Event("BREAKPOINTS")>>]}
                               /\ UNCHANGED slots
         [] c.op = "open"  -> Open(c)
         [] c.op = "history" -> /\ w' = [w EXCEPT !.burst = <<[Event("HISTORY") EXCEPT !.token = c.token]>>]
                                /\ UNCHANGED slots
         [] c.op = "close" -> /\ slots' = slots \ {c.id}
                              /\ w' = [w EXCEPT !.burst = <<Event("CLOSED")>>]
    /\ UNCHANGED <<peer, events, lost, mainVars>>

\* runtime_flow_abort_requested: run and pause end the step, the rest is lost.
StepTakes ==
    /\ ~Publishes /\ w.stepping /\ cmds # <<>>
    /\ cmds' = Tail(cmds)
    /\ LET c == Head(cmds) IN
        /\ w' = CASE c.op = "run" -> Resume [] c.op = "pause" -> Halt [] OTHER -> w
        /\ lost' = IF c.op = "close" THEN lost \cup {c.id} ELSE lost
    /\ UNCHANGED <<peer, events, slots, mainVars>>

\* The step is done, meets a breakpoint, or passes its instruction limit and
\* leaves the machine running.
StepEnds ==
    /\ ~Publishes /\ w.stepping /\ cmds = <<>>
    /\ w' \in {[w EXCEPT !.stepping = FALSE, !.burst = Stopped("STEP_COMPLETE")],
               Halt,
               [w EXCEPT !.exec = "RUNNING", !.stepping = FALSE, !.burst = <<Event("RUNNING")>>]}
    /\ UNCHANGED <<peer, cmds, events, slots, lost, mainVars>>

BreakpointHit ==
    /\ ~Publishes /\ w.exec = "RUNNING" /\ cmds = <<>> /\ w.stops < MaxStops
    /\ w' = [w EXCEPT !.exec = "PAUSED", !.stops = @ + 1, !.burst = Stopped("PAUSED")]
    /\ UNCHANGED <<peer, cmds, events, slots, lost, mainVars>>

Worker == Emit \/ TakeCommand \/ StepTakes \/ StepEnds \/ BreakpointHit

------------------------------------------------------------------------------
(* The TCP client, through the control server *)

mainAndWorker == <<pc, mirror, latch, entry, bind, pump, opens, asks, swallowed,
                   worker, lost>>

Connect ==
    /\ ~peer.on /\ peer.epoch < MaxConnects
    /\ peer' = [peer EXCEPT !.on = TRUE, !.epoch = @ + 1]
    /\ UNCHANGED <<requests, mainAndWorker>>
Hangup ==
    /\ peer.on
    /\ peer' = [peer EXCEPT !.on = FALSE]
    /\ UNCHANGED <<requests, mainAndWorker>>
Send ==
    /\ peer.on /\ peer.sent < MaxRequests
    /\ \E op \in Ops : requests' = Append(requests, op)
    /\ peer' = [peer EXCEPT !.sent = @ + 1]
    /\ UNCHANGED mainAndWorker

Init ==
    /\ peer = [on |-> FALSE, epoch |-> 0, sent |-> 0]
    /\ requests = <<>> /\ pc = "poll"
    /\ mirror = "PAUSED"
    /\ latch = {} /\ entry = NoEntry /\ bind = Unbound /\ pump = NoPump
    /\ opens = 0 /\ asks = 0 /\ cmds = <<>> /\ events = <<>>
    /\ w = [exec |-> "PAUSED", stepping |-> FALSE, stops |-> 0, burst |-> <<>>, dropped |-> FALSE]
    /\ slots = {} /\ lost = {} /\ swallowed = FALSE

Next == Main \/ Worker \/ Connect \/ Hangup \/ Send
Spec == Init /\ [][Next]_vars

------------------------------------------------------------------------------
(* Properties *)

\* Values of their kinds; the queues and the session table stay within their
\* capacity, and the main thread waits for the answer to its last open only.
TypeOK ==
    /\ pc \in {"poll", "session", "open", "pump", "entries", "timeout", "history", "state", "dispatch"}
    /\ mirror \in {"RUNNING", "PAUSED", "ERROR"}
    /\ latch \subseteq {"RUNNING", "PAUSED"}
    /\ Len(cmds) <= CommandQueue /\ Len(events) <= EventQueue
    /\ Cardinality(slots) <= SessionSlots /\ slots \subseteq 1 .. opens
    /\ (pc \in {"open", "pump"}) = (pump # NoPump)
    /\ pc = "pump" => pump.token = opens

\* When both queues are empty and nobody is at work the mirror shows what the
\* worker does, whatever was believed ahead of the events, and no wait is left
\* waiting for a state that is already there: no deferred wait misses its
\* event.  Three cases are excepted, and in each the code goes wrong: a session
\* pump took the last word, the last state event met a full event queue, or
\* the mirror holds on to an error through every MACHINE_STATE.
AtRest == cmds = <<>> /\ events = <<>> /\ ~Publishes /\ ~w.stepping
Settled ==
    /\ AtRest /\ ~swallowed /\ ~w.dropped /\ mirror # "ERROR" =>
        /\ mirror = w.exec
        /\ entry.op = "waitPaused" => w.exec # "PAUSED"
        /\ entry.op = "waitRunning" => w.exec # "RUNNING"
    /\ entry.op = "waitEvent" => "PAUSED" \notin latch

\* A session slot is in use for the bound client, about to be closed, on its
\* way to the main thread, or lost to a close or grant a full queue dropped, to
\* a close a step took, or to a grant nobody waited for; a bound slot is in use
\* and not being closed; and a queued history request will find its session open.
Closing == {cmds[i].id : i \in {j \in DOMAIN cmds : cmds[j].op = "close"}}
Granted == {e.id : e \in {f \in ToSet(events \o w.burst) : f.t = "SESSION"}}
SessionsAccounted ==
    /\ slots \subseteq {bind.id} \cup Closing \cup Granted \cup lost
    /\ bind.id # 0 => bind.id \in slots \ (Closing \cup lost)
    /\ \A i \in DOMAIN cmds : cmds[i].op = "history" /\ cmds[i].id # 0 =>
          /\ cmds[i].id \in slots
          /\ \A j \in 1 .. i - 1 : cmds[j].op = "close" => cmds[j].id # cmds[i].id

==============================================================================
