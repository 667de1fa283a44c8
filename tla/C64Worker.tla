------------------------------ MODULE C64Worker ------------------------------
(***************************************************************************)
(* The execution control of c64m's worker thread                           *)
(* (src/src/c64/runtime/runtime_thread.c): the main loop, free running,    *)
(* the bounded runs (run-cycles, run-instructions, step-frame,             *)
(* run-to-raster), step, step over and step out with their queue draining  *)
(* abort, run-to-cursor, reset, the breakpoint table with its counters,    *)
(* and quit.                                                               *)
(*                                                                         *)
(* The 6510 is reduced to what these loops look at: instruction            *)
(* boundaries, the program counter, the call and interrupt frames on the   *)
(* stack, the instruction_complete flag, the memory accesses that reach    *)
(* the watchpoints, and the cycles the VIC-II steals between               *)
(* instructions.  An address stands for an instruction, so the byte after  *)
(* a 3-byte JSR is the next address.  Breakpoints are unconditional and    *)
(* mapped "map"; an action mask without BREAK is "count".  Inspecting,     *)
(* paste scripts, pending loads and media are not in this module.          *)
(***************************************************************************)
EXTENDS Naturals, Integers, SequencesExt, FiniteSets

CONSTANTS
    Prog,          \* the program: address -> [op, to, touch]
    Vector,        \* where the reset vector points
    Handler,       \* where the IRQ/NMI/BRK vectors point
    MaxFrames,     \* frames the program itself piles up on the stack
    MaxInterrupts, \* interrupt frames on the stack: an IRQ, an NMI within it
    BpCapacity,    \* RUNTIME_BREAKPOINT_CAPACITY
    BatchCycles,   \* RUNTIME_RUN_BATCH_CYCLES
    FastLimit,     \* STEP_OUT_FAST_LIMIT and STEP_OVER_FAST_LIMIT
    GuardCycles,   \* max_cycles of step-frame and run-to-raster
    CommandQueue,  \* capacity of the command queue
    MaxCommands,   \* bound: commands posted, quit not counted
    Scenarios      \* [bps, brk, cmds]: table at start, pause_on_brk, alphabet

Addr == DOMAIN Prog

ASSUME ProgramShape ==
    /\ Vector \in Addr /\ Handler \in Addr
    /\ \A a \in Addr : Prog[a].op \in {"op", "jmp", "br", "jsr", "rts", "rti", "brk"}
    /\ \A a \in Addr : Prog[a].op \in {"op", "br", "jsr", "brk"} => a + 1 \in Addr
    /\ \A a \in Addr : Prog[a].op \in {"jmp", "br", "jsr"} => Prog[a].to \in Addr

\* The commands that runtime_process_command knows, as far as they are modelled.
CommandOps == {"quit", "run", "pause", "reset", "stepCycle", "stepInstruction", "stepOver",
               "stepOut", "runTo", "runCycles", "runInstructions", "stepFrame",
               "runToRaster", "setExecute", "create", "update", "duplicate", "clear",
               "clearAll", "enable", "rearm"}
\* A definition of a breakpoint: armed or not, where, on which accesses, what
\* then, its counter; "other" is a bit of a mask that the worker does not support.
Definitions == [on : BOOLEAN, addr : Nat, last : Nat, ranged : BOOLEAN,
                acc : SUBSET {"x", "m", "other"}, act : SUBSET {"break", "count", "other"},
                use : BOOLEAN, init : Nat, reset : Nat]
ASSUME CommandsKnown ==
    \A s \in Scenarios : \A c \in s.cmds :
        /\ c.op \in CommandOps
        /\ c.op \in {"create", "update"} => c.def \in Definitions
        /\ c.op \in {"setExecute", "enable"} => c.on \in BOOLEAN
        /\ c.op = "setExecute" => c.addr \in Nat

\* The INI file is read up to the capacity of the table.
ASSUME TableFits ==
    \A s \in Scenarios : s.bps \in Seq(Definitions) /\ Len(s.bps) <= BpCapacity

ASSUME Bounds ==
    /\ {MaxFrames, MaxInterrupts, BpCapacity, CommandQueue, MaxCommands} \subseteq Nat
    /\ {BatchCycles, FastLimit, GuardCycles} \subseteq Nat \ {0}

VARIABLES
    scenario,  \* which of Scenarios this behaviour runs
    cpu,       \* [pc, stack, mid, icf]: mid is "no" at an instruction boundary
    exec,      \* exec_state
    reason,    \* last_stop_reason
    bps,       \* breakpoints[0 .. breakpoint_count)
    nextId,    \* next_breakpoint_id
    suppress,  \* suppress_execute_bp
    pending,   \* breakpoint_hit_pending
    temp,      \* temp_bp_active, temp_bp_address, temp_bp_skip_current
    job,       \* the loop the worker is in, NoJob at the head of its main loop
    alive,     \* the main loop's flag
    ended,     \* runtime_thread_main has returned
    queue,     \* command_queue
    posted,    \* commands posted so far
    told,      \* what a client that has read every event believes
    shown      \* history: what excuses a loop from looking at this boundary: "stop"
               \* (one was reported, or a step asked for, here), "reset" or "no"

vars == <<scenario, cpu, exec, reason, bps, nextId, suppress, pending, temp, job,
          alive, ended, queue, posted, told, shown>>
table == <<bps, nextId>>
client == <<scenario, queue, posted>>

------------------------------------------------------------------------------
(* The machine *)

None == -1
NoTemp == [on |-> FALSE, addr |-> 0, skip |-> FALSE]
NoJob == [k |-> "none", left |-> 0, simple |-> FALSE, stop |-> 0, jsr |-> 0,
          depth |-> 0, base |-> <<>>, clean |-> FALSE, first |-> FALSE]

Op(c) == Prog[c.pc].op
AtBoundary == cpu.mid = "no"
IsInterrupt(f) == f.kind = "irq"
Interrupts(c) == Len(SelectSeq(c.stack, IsInterrupt))
Push(c, kind, ret, to) ==
    [c EXCEPT !.pc = to, !.stack = <<[kind |-> kind, ret |-> ret]>> \o @]

\* A return pulls the top frame; one that meets no frame of its kind pulls
\* bytes that were never an address.
Pull(c, kinds) ==
    IF c.stack # <<>> /\ Head(c.stack).kind \in kinds
    THEN {[c EXCEPT !.pc = Head(c.stack).ret, !.stack = Tail(@)]}
    ELSE {[c EXCEPT !.pc = a, !.stack = IF @ = <<>> THEN @ ELSE Tail(@)] : a \in Addr}

\* The instruction, or the interrupt sequence, in flight completes.
Complete(c) ==
    LET d == [c EXCEPT !.mid = "no", !.icf = TRUE] IN
    IF c.mid = "irq" THEN {Push(d, "irq", c.pc, Handler)}
    ELSE CASE Op(c) = "op"  -> {[d EXCEPT !.pc = @ + 1]}
           [] Op(c) = "jmp" -> {[d EXCEPT !.pc = Prog[c.pc].to]}
           [] Op(c) = "br"  -> {[d EXCEPT !.pc = Prog[c.pc].to]}
                \cup IF Len(c.stack) < MaxFrames THEN {[d EXCEPT !.pc = @ + 1]} ELSE {}
           [] Op(c) = "jsr" -> {Push(d, "call", c.pc + 1, Prog[c.pc].to)}
           [] Op(c) = "brk" -> {Push(d, "brk", c.pc + 1, Handler)}
           [] Op(c) = "rts" -> Pull(d, {"call"})
           [] Op(c) = "rti" -> Pull(d, {"irq", "brk"})

\* What may begin at a boundary: the instruction, or a pending interrupt.
Begin(c) ==
    {[c EXCEPT !.mid = "insn"]}
    \cup IF Interrupts(c) < MaxInterrupts THEN {[c EXCEPT !.mid = "irq"]} ELSE {}

\* What a step did, and the watched bytes touched by the instruction that was
\* in flight and by the one that followed it.
Touch(c) == IF c.mid = "insn" THEN Prog[c.pc].touch ELSE None
Outcome(did, before, after, c) ==
    [did |-> did, before |-> before, after |-> after, cpu |-> c]

\* One Phi2 cycle: between instructions BA may hold the CPU where it is.
StepCycle(c) ==
    IF c.mid = "no" THEN {Outcome("none", None, None, d) : d \in {c} \cup Begin(c)}
    ELSE {Outcome(c.mid, Touch(c), None, d) : d \in Complete(c)}

\* One whole instruction or interrupt entry from a boundary.
Whole(c) ==
    UNION {{Outcome(b.mid, None, Touch(b), d) : d \in Complete(b)} : b \in Begin(c)}

\* c64_step_instruction: what is in flight, then always one instruction or
\* interrupt entry more.  It leaves instruction_complete set.
StepInstruction(c) ==
    IF c.mid = "no" THEN Whole(c)
    ELSE UNION {{[out EXCEPT !.did = IF c.mid = "irq" THEN "irq" ELSE @, !.before = Touch(c)] :
                    out \in Whole(d)} : d \in Complete(c)}

------------------------------------------------------------------------------
(* The breakpoint table *)

Breakpoint(id, def) == [id |-> id, def |-> def, on |-> def.on, cnt |-> def.init]

\* runtime_breakpoint_definition_is_valid
Valid(def) == def.acc # {} /\ "other" \notin def.acc \cup def.act

AddressMatches(def, a) ==
    IF ~def.ranged THEN a = def.addr
    ELSE IF def.addr <= def.last THEN a \in def.addr .. def.last
    ELSE a >= def.addr \/ a <= def.last

Matches(b, acc, a) == b.on /\ acc \in b.def.acc /\ AddressMatches(b.def, a)

\* runtime_breakpoint_record_match: does this match fire, and what it leaves.
Fires(b) == ~b.def.use \/ b.cnt <= 1
Recorded(b) ==
    IF ~b.def.use THEN b
    ELSE IF ~Fires(b) THEN [b EXCEPT !.cnt = @ - 1]
    ELSE [b EXCEPT !.cnt = b.def.reset, !.on = b.def.reset # 0]

\* runtime_breakpoint_matches_access: entries are visited in order up to the
\* first that fires; only that one's actions run.
Firer(t, acc, a) == SelectInSeq(t, LAMBDA b : Matches(b, acc, a) /\ Fires(b))
Scan(t, acc, a) ==
    [i \in DOMAIN t |->
        IF Matches(t[i], acc, a) /\ (Firer(t, acc, a) = 0 \/ i <= Firer(t, acc, a))
        THEN Recorded(t[i]) ELSE t[i]]
Stops(t, acc, a) == LET i == Firer(t, acc, a) IN i # 0 /\ "break" \in t[i].def.act

IndexOfId(id) == SelectInSeq(bps, LAMBDA b : b.id = id)
ExecuteAt(a) ==
    SelectInSeq(bps, LAMBDA b : /\ b.def.addr = a /\ ~b.def.ranged
                                /\ "x" \in b.def.acc /\ "break" \in b.def.act)

------------------------------------------------------------------------------
(* Events, as main.c's update_debug_state_from_event hears them *)

Hear(state, event) ==
    CASE event = "RUNNING" -> "RUNNING"
      [] event \in {"PAUSED", "RESET_COMPLETE", "STEP_COMPLETE", "RUN_COMPLETE"} -> "PAUSED"
      [] event = "ERROR" -> "ERROR"
      [] event \in {"STATE_RUNNING", "STATE_STOPPED"} ->
            IF state = "ERROR" THEN state
            ELSE IF event = "STATE_RUNNING" THEN "RUNNING" ELSE "PAUSED"

\* runtime_publish_machine_state carries running = (exec_state is RUNNING).
MachineState(e) == IF e = "RUNNING" THEN "STATE_RUNNING" ELSE "STATE_STOPPED"
Publish(events) == told' = FoldLeft(Hear, told, events)
Silent == UNCHANGED told

------------------------------------------------------------------------------
(* Stops *)

\* Everything runtime_pause_for_breakpoint and runtime_pause_for_brk assign.
PauseFor(why) ==
    /\ pending' = FALSE
    /\ suppress' = TRUE
    /\ temp' = NoTemp
    /\ exec' = "PAUSED"
    /\ reason' = why
    /\ Publish(<<"PAUSED", MachineState("PAUSED")>>)
    /\ shown' = "stop"
    /\ job' = NoJob

PublishStepComplete(e) ==
    /\ reason' = "STEP"
    /\ Publish(<<"STEP_COMPLETE", MachineState(e)>>)
    /\ shown' = "stop"
    /\ job' = NoJob

RunComplete ==
    /\ exec' = "PAUSED"
    /\ reason' = "RUN_COMPLETE"
    /\ Publish(<<"RUN_COMPLETE", MachineState("PAUSED")>>)
    /\ shown' = "stop"
    /\ job' = NoJob

BrkPending == scenario.brk /\ ~suppress /\ AtBoundary /\ Op(cpu) = "brk"

\* The table as the execute check leaves it, and whether the check stops.
Look == ~suppress /\ AtBoundary
AfterLook == IF Look THEN Scan(bps, "x", cpu.pc) ELSE bps
LookStops == Look /\ Stops(bps, "x", cpu.pc)

\* The memory access callback, on the table t with the flag hit: once a
\* watchpoint is pending it looks at nothing more.
Access(s, a) ==
    IF s.hit \/ a = None THEN s
    ELSE [table |-> Scan(s.table, "m", a), hit |-> Stops(s.table, "m", a)]
Watched(t, out) == Access(Access([table |-> t, hit |-> pending], out.before), out.after)
AfterWatch(out) == Watched(AfterLook, out).table
WatchHit(out) == Watched(AfterLook, out).hit

StayPut == bps' = AfterLook /\ UNCHANGED cpu
\* History: nobody has been shown the boundary an instruction leads to.
Arrive(out) == shown' = IF out.did = "none" THEN shown ELSE "no"

------------------------------------------------------------------------------
(* Loops that advance by Phi2 cycles: the free-run batch of the main loop,  *)
(* run-cycles, step-frame and run-to-raster                                 *)

CycleJobs == {"batch", "cycles", "frame", "raster"}
Running(k) == job.k = k
\* The slim loop looks for a BRK after its last cycle too.
LastLook == job.simple /\ BrkPending
InCycleLoop == job.k \in CycleJobs /\ (job.left > 0 \/ LastLook)

BreakpointStop ==
    /\ LookStops
    /\ PauseFor("BREAKPOINT")
    /\ StayPut
    /\ UNCHANGED nextId

BrkStop ==
    /\ ~LookStops
    /\ BrkPending
    /\ PauseFor("BRK")
    /\ StayPut
    /\ UNCHANGED nextId

\* The free-run loop's temporary breakpoint; skip is dropped once pc moves off.
TempHere == temp.on /\ AtBoundary /\ cpu.pc = temp.addr /\ ~temp.skip
TempAfter ==
    IF temp.on /\ AtBoundary /\ cpu.pc # temp.addr THEN [temp EXCEPT !.skip = FALSE] ELSE temp
TempStop ==
    /\ job.k = "batch" /\ ~LookStops /\ ~BrkPending /\ TempHere
    /\ temp' = NoTemp
    /\ suppress' = FALSE
    /\ exec' = "PAUSED"
    /\ PublishStepComplete("PAUSED")
    /\ StayPut
    /\ UNCHANGED <<pending, nextId>>

\* consume_instruction_complete: the slim free-run loop never consumes the
\* flag, the batch always does, the other loops only while suppressing.
Consumes == CASE job.k = "batch" -> ~job.simple [] OTHER -> suppress

\* Mutant: suppress_execute_bp is kept until the next stop.
SuppressKept(out) == suppress

\* suppress_execute_bp is dropped when the instruction it protects is done.
SuppressAfter(out) == suppress /\ ~out.cpu.icf

\* One cycle.  The pending watchpoint is tested before the loop's own end;
\* step-frame and run-to-raster may reach their frame or beam position.
CycleOn ==
    /\ ~LookStops /\ ~BrkPending /\ ~(job.k = "batch" /\ TempHere)
    /\ \E out \in StepCycle(cpu) :
        /\ bps' = AfterWatch(out)
        /\ cpu' = [out.cpu EXCEPT !.icf = @ /\ ~Consumes]
        /\ UNCHANGED nextId
        /\ \/ /\ WatchHit(out) /\ ~job.simple
              /\ PauseFor("BREAKPOINT")
           \/ /\ WatchHit(out) => job.simple
              /\ pending' = WatchHit(out)
              /\ suppress' = SuppressAfter(out)
              /\ \/ /\ job' = [job EXCEPT !.left = @ - 1]
                    /\ temp' = IF job.k = "batch" THEN TempAfter ELSE temp
                    /\ Arrive(out)
                    /\ Silent
                    /\ UNCHANGED <<exec, reason>>
                 \/ /\ job.k \in {"frame", "raster"}
                    /\ RunComplete
                    /\ UNCHANGED temp

\* A batch that is spent returns to the main loop, run-cycles has run its
\* count, the other two give up with an error.
CycleLoopEnds ==
    /\ job.k \in CycleJobs /\ job.left = 0 /\ ~LastLook
    /\ CASE job.k = "batch" -> job' = NoJob /\ Silent /\ UNCHANGED <<exec, reason, shown>>
         [] job.k = "cycles" -> RunComplete
         [] OTHER -> /\ job' = NoJob
                     /\ Publish(<<"ERROR">>)
                     /\ shown' = "stop"
                     /\ UNCHANGED <<exec, reason>>
    /\ UNCHANGED <<cpu, suppress, pending, temp, table>>

CycleLoop == InCycleLoop /\ (BreakpointStop \/ BrkStop \/ TempStop \/ CycleOn)

------------------------------------------------------------------------------
(* run-instructions *)

InstructionOn ==
    /\ ~LookStops /\ ~BrkPending
    /\ \E out \in StepInstruction(cpu) :
        /\ bps' = AfterWatch(out)
        /\ cpu' = out.cpu
        /\ UNCHANGED nextId
        /\ IF WatchHit(out) THEN PauseFor("BREAKPOINT")
           ELSE /\ suppress' = FALSE
                /\ pending' = FALSE
                /\ job' = [job EXCEPT !.left = @ - 1, !.first = FALSE]
                /\ Arrive(out)
                /\ Silent
                /\ UNCHANGED <<exec, reason, temp>>

InstructionLoop ==
    /\ job.k = "insns"
    /\ \/ job.left > 0 /\ (BreakpointStop \/ BrkStop \/ InstructionOn)
       \/ /\ job.left = 0
          /\ PublishStepComplete(exec)
          /\ UNCHANGED <<cpu, exec, suppress, pending, temp, table>>

------------------------------------------------------------------------------
(* step over and step out *)

InFlow == job.k \in {"over", "out"}

\* Mutant: quit ends the step but not the worker.
FlowQuitAsPause ==
    /\ reason' = "PAUSE_COMMAND" /\ job' = NoJob
    /\ Publish(<<"PAUSED">>) /\ UNCHANGED <<alive, exec, temp, shown>>
FlowQuit ==
    /\ alive' = FALSE /\ job' = NoJob
    /\ Silent /\ UNCHANGED <<exec, reason, temp, shown>>

\* runtime_flow_abort_requested takes one command after another off the queue;
\* quit, pause and run end the loop, every other command is lost.
FlowAbort ==
    /\ InFlow /\ queue # <<>>
    /\ queue' = Tail(queue)
    /\ LET c == Head(queue).op IN
       CASE c = "quit" -> FlowQuit
         [] c = "pause" -> /\ exec' = "PAUSED" /\ reason' = "PAUSE_COMMAND"
                           /\ Publish(<<"PAUSED", MachineState("PAUSED")>>)
                           /\ job' = NoJob /\ shown' = "stop"
                           /\ UNCHANGED <<alive, temp>>
         [] c = "run" -> /\ temp' = NoTemp /\ exec' = "RUNNING"
                         /\ Publish(<<"RUNNING">>)
                         /\ job' = NoJob
                         /\ UNCHANGED <<alive, reason, shown>>
         [] OTHER -> Silent /\ UNCHANGED <<alive, exec, reason, temp, job, shown>>
    /\ UNCHANGED <<scenario, cpu, suppress, pending, table, posted, ended>>

\* The opcode byte under pc: past a boundary pc is on an operand, so any byte.
Opcodes == IF AtBoundary THEN {Op(cpu)} ELSE {"op", "jsr", "rts", "rti"}

\* How the two loops count calls and interrupts.
Depth(out, opcode) ==
    IF out.did = "irq" THEN job.depth + 1
    ELSE IF opcode = "rti" /\ job.depth > 0 THEN job.depth - 1 ELSE job.depth
Counts(out, opcode) == out.did # "irq" /\ job.depth = 0
\* Mutant: nested calls are not counted.
JsrShallow(out, opcode) ==
    IF Counts(out, opcode) /\ opcode = "rts" THEN job.jsr - 1 ELSE job.jsr
Jsr(out, opcode) ==
    CASE Counts(out, opcode) /\ opcode = "jsr" -> job.jsr + 1
      [] Counts(out, opcode) /\ opcode = "rts" -> job.jsr - 1
      [] OTHER -> job.jsr

\* Step out ends on the RTS that brings its counter to zero, before it looks
\* at a pending watchpoint; step over ends on its return address, after.
OutDone(out, opcode) ==
    job.k = "out" /\ Counts(out, opcode) /\ opcode = "rts" /\ Jsr(out, opcode) <= 0
OverDone(out, opcode) ==
    /\ job.k = "over" /\ Depth(out, opcode) = 0 /\ Jsr(out, opcode) <= 0
    /\ out.cpu.pc = job.stop

FlowOn ==
    /\ ~LookStops /\ ~BrkPending
    /\ \E out \in StepInstruction(cpu), opcode \in Opcodes :
        /\ bps' = AfterWatch(out)
        /\ cpu' = out.cpu
        /\ UNCHANGED nextId
        /\ IF WatchHit(out) /\ ~OutDone(out, opcode) THEN PauseFor("BREAKPOINT")
           ELSE /\ suppress' = FALSE
                /\ pending' = WatchHit(out)
                /\ UNCHANGED temp
                /\ IF OutDone(out, opcode) \/ OverDone(out, opcode)
                   THEN PublishStepComplete(exec) /\ UNCHANGED exec
                   ELSE /\ UNCHANGED reason
                        /\ Arrive(out)
                        /\ IF job.left > 1
                           THEN /\ job' = [job EXCEPT !.left = @ - 1, !.first = FALSE,
                                                      !.jsr = Jsr(out, opcode),
                                                      !.depth = Depth(out, opcode)]
                                /\ Silent /\ UNCHANGED exec
                           ELSE /\ job' = NoJob
                                /\ exec' = "RUNNING"
                                /\ Publish(<<"RUNNING">>)

FlowLoop == InFlow /\ queue = <<>> /\ (BreakpointStop \/ BrkStop \/ FlowOn)

------------------------------------------------------------------------------
(* Commands: runtime_process_command *)

\* first is history: an instruction loop has not made its first pass.
Begins(k, n) == job' = [NoJob EXCEPT !.k = k, !.left = n, !.first = k = "insns"]

Quit == /\ exec' = "STOPPED" /\ alive' = FALSE
        /\ Silent
        /\ UNCHANGED <<cpu, reason, suppress, pending, temp, job, shown, table>>

Run == /\ exec' = "RUNNING" /\ reason' = "NONE"
       /\ Publish(<<"RUNNING">>)
       /\ UNCHANGED <<cpu, suppress, pending, temp, job, shown, table, alive>>

Pause == /\ exec' = "PAUSED" /\ reason' = "PAUSE_COMMAND"
         /\ Publish(<<"PAUSED", MachineState("PAUSED")>>)
         /\ shown' = "stop"
         /\ UNCHANGED <<cpu, suppress, pending, temp, job, table, alive>>

\* Mutant: a reset that resumes does not say so.
ResetEventsShort(resumes) == <<"RESET_COMPLETE">>
ResetEvents(resumes) ==
    IF resumes THEN <<"RESET_COMPLETE", "RUNNING">> ELSE <<"RESET_COMPLETE">>

\* runtime_reset_machine leaves suppress_execute_bp alone: if it resumes, what
\* was to be run past before the reset now excuses the vector.
Reset(c) ==
    LET resumes == IF c.resume = "keep" THEN exec = "RUNNING" ELSE c.resume = "run" IN
    /\ cpu' = [pc |-> Vector, stack |-> <<>>, mid |-> "no", icf |-> FALSE]
    /\ pending' = FALSE
    /\ temp' = NoTemp
    /\ exec' = IF resumes THEN "RUNNING" ELSE "PAUSED"
    /\ reason' = IF resumes THEN "NONE" ELSE "RESET"
    /\ Publish(ResetEvents(resumes))
    /\ shown' = IF ~resumes THEN "stop" ELSE IF suppress THEN "reset" ELSE "no"
    /\ UNCHANGED <<suppress, job, table, alive>>

\* step-cycle, step-instruction, and step over of anything but a JSR: run it,
\* forget what a watchpoint noted, report.
StepBy(outs) ==
    /\ exec' = "PAUSED"
    /\ suppress' = FALSE
    /\ pending' = FALSE
    /\ \E out \in outs :
        /\ cpu' = out.cpu
        /\ bps' = Watched(bps, out).table
    /\ PublishStepComplete("PAUSED")
    /\ UNCHANGED <<temp, nextId, alive>>

\* A loop that runs inside the command.
StartLoop(k, n, e, sup) ==
    /\ Begins(k, n)
    /\ exec' = e
    /\ suppress' = sup
    /\ Silent
    /\ UNCHANGED <<cpu, reason, pending, temp, shown, table, alive>>

\* base and clean are history: the frames at the start, and whether the step
\* began at a boundary (for step out, inside a routine that was called).
StartFlow(k, stop, n, clean) ==
    /\ job' = [NoJob EXCEPT !.k = k, !.left = FastLimit, !.stop = stop, !.jsr = n,
                            !.base = cpu.stack, !.clean = clean, !.first = TRUE]
    /\ exec' = "PAUSED"
    /\ suppress' = TRUE
    /\ shown' = "stop"
    /\ Silent
    /\ UNCHANGED <<cpu, reason, pending, temp, table, alive>>

StepOver ==
    \E opcode \in Opcodes :
        \/ opcode # "jsr" /\ StepBy(StepInstruction(cpu))
        \/ /\ opcode = "jsr"
           /\ \E stop \in IF AtBoundary THEN {cpu.pc + 1} ELSE Addr :
                 StartFlow("over", stop, 0, AtBoundary)
StepOut ==
    StartFlow("out", 0, 1, AtBoundary /\ cpu.stack # <<>> /\ Head(cpu.stack).kind = "call")

RunToCursor(c) ==
    /\ temp' = [on |-> TRUE, addr |-> c.addr, skip |-> cpu.pc = c.addr]
    /\ exec' = "RUNNING"
    /\ Publish(<<"RUNNING">>)
    /\ UNCHANGED <<cpu, reason, suppress, pending, job, shown, table, alive>>

\* The commands on the table; an error event where the code publishes one.
Entry(t, n, heard) ==
    /\ bps' = t /\ nextId' = n
    /\ heard
    /\ UNCHANGED <<cpu, exec, reason, suppress, pending, temp, job, shown, alive>>
\* Mutant: the table's capacity is not tested.
AddUnchecked(def) ==
    Entry(Append(bps, Breakpoint(nextId, def)), nextId + 1, Silent)
Refuse == Entry(bps, nextId, Publish(<<"ERROR">>))
Add(def) ==
    IF ~Valid(def) \/ Len(bps) >= BpCapacity THEN Refuse
    ELSE Entry(Append(bps, Breakpoint(nextId, def)), nextId + 1, Silent)
PlainExecute(a, on) ==
    [on |-> on, addr |-> a, last |-> a, ranged |-> FALSE, acc |-> {"x"}, act |-> {"break"},
     use |-> FALSE, init |-> 0, reset |-> 0]
SetExecute(c) ==
    LET i == ExecuteAt(c.addr) IN
    IF i = 0 THEN Add(PlainExecute(c.addr, c.on))
    ELSE Entry([bps EXCEPT ![i].on = c.on], nextId, Silent)
OfId(id, missing, found(_)) ==
    LET i == IndexOfId(id) IN
    IF i = 0 THEN Entry(bps, nextId, missing) ELSE found(i)
Update(c) ==
    OfId(c.id, Publish(<<"ERROR">>),
         LAMBDA i : IF ~Valid(c.def) THEN Refuse
                    ELSE Entry([bps EXCEPT ![i] = Breakpoint(c.id, c.def)], nextId, Silent))
Duplicate(c) ==
    OfId(c.id, Publish(<<"ERROR">>), LAMBDA i : Add([bps[i].def EXCEPT !.on = bps[i].on]))
Clear(c) == OfId(c.id, Silent, LAMBDA i : Entry(RemoveAt(bps, i), nextId, Silent))
ClearAll == Entry(<<>>, nextId, Silent)
Enable(c) ==
    OfId(c.id, Silent, LAMBDA i : Entry([bps EXCEPT ![i].on = c.on], nextId, Silent))
Rearm ==
    Entry([i \in DOMAIN bps |->
              IF bps[i].def.use /\ bps[i].def.reset = 0 /\ ~bps[i].on
              THEN [bps[i] EXCEPT !.on = TRUE, !.cnt = bps[i].def.init] ELSE bps[i]],
          nextId, Silent)

Process(c) ==
    CASE c.op = "quit"  -> Quit
      [] c.op = "run"   -> Run
      [] c.op = "pause" -> Pause
      [] c.op = "reset" -> Reset(c)
      [] c.op = "stepCycle" -> StepBy(StepCycle(cpu))
      [] c.op = "stepInstruction" -> StepBy(StepInstruction(cpu))
      [] c.op = "stepOver" -> StepOver
      [] c.op = "stepOut"  -> StepOut
      [] c.op = "runTo"    -> RunToCursor(c)
      [] c.op = "runCycles" -> StartLoop("cycles", c.n, exec, suppress)
      [] c.op = "runInstructions" -> StartLoop("insns", c.n, "PAUSED", suppress)
      [] c.op = "stepFrame" -> StartLoop("frame", GuardCycles, "PAUSED", FALSE)
      [] c.op = "runToRaster" -> StartLoop("raster", GuardCycles, "PAUSED", FALSE)
      [] c.op = "setExecute" -> SetExecute(c)
      [] c.op = "create" -> Add(c.def)
      [] c.op = "update" -> Update(c)
      [] c.op = "duplicate" -> Duplicate(c)
      [] c.op = "clear" -> Clear(c)
      [] c.op = "clearAll" -> ClearAll
      [] c.op = "enable" -> Enable(c)
      [] c.op = "rearm" -> Rearm

------------------------------------------------------------------------------
(* The main loop *)

AtTop == job = NoJob /\ ~ended

\* Running drains the queue before each batch; otherwise the worker waits for
\* one command.  Either way a queued command goes first.
TakeCommand ==
    /\ AtTop /\ alive /\ queue # <<>>
    /\ queue' = Tail(queue)
    /\ Process(Head(queue))
    /\ UNCHANGED <<scenario, posted, ended>>

\* runtime_free_run_is_simple picks the loop for the whole batch.
StartBatch ==
    /\ AtTop /\ alive /\ queue = <<>> /\ exec = "RUNNING"
    /\ job' = [NoJob EXCEPT !.k = "batch", !.left = BatchCycles,
                            !.simple = bps = <<>> /\ ~temp.on /\ ~suppress]
    /\ UNCHANGED <<cpu, exec, reason, suppress, pending, temp, shown, table,
                   alive, ended, told, client>>

Exit ==
    /\ AtTop /\ ~alive
    /\ ended' = TRUE
    /\ UNCHANGED <<cpu, exec, reason, suppress, pending, temp, job, shown, table,
                   alive, told, client>>

Loop ==
    /\ CycleLoop \/ CycleLoopEnds \/ InstructionLoop \/ FlowLoop
    /\ UNCHANGED <<alive, ended, client>>

Worker == TakeCommand \/ StartBatch \/ Exit \/ Loop \/ FlowAbort

\* A client's command, and the quit of runtime_stop: pushed once, its failure
\* on a full queue ignored, nothing posted after it.
Post(c) ==
    /\ posted < MaxCommands /\ Len(queue) < CommandQueue
    /\ queue' = Append(queue, c)
    /\ posted' = posted + 1
    /\ UNCHANGED <<scenario, cpu, exec, reason, suppress, pending, temp, job, shown,
                   table, alive, ended, told>>
Stop ==
    /\ posted <= MaxCommands
    /\ queue' = IF Len(queue) < CommandQueue THEN Append(queue, [op |-> "quit"]) ELSE queue
    /\ posted' = MaxCommands + 1
    /\ UNCHANGED <<scenario, cpu, exec, reason, suppress, pending, temp, job, shown,
                   table, alive, ended, told>>

\* After start-up: the machine is reset and the table read from the INI file.
Init ==
    /\ scenario \in Scenarios
    /\ cpu = [pc |-> Vector, stack |-> <<>>, mid |-> "no", icf |-> FALSE]
    /\ exec = "PAUSED" /\ reason = "RESET"
    /\ bps = [i \in DOMAIN scenario.bps |-> Breakpoint(i, scenario.bps[i])]
    /\ nextId = Len(scenario.bps) + 1
    /\ suppress = FALSE /\ pending = FALSE /\ temp = NoTemp
    /\ job = NoJob /\ alive = TRUE /\ ended = FALSE
    /\ queue = <<>> /\ posted = 0
    /\ told = "PAUSED" /\ shown = "stop"

Next == Worker \/ (\E c \in scenario.cmds : Post(c)) \/ Stop

Spec == Init /\ [][Next]_vars /\ WF_vars(Worker)

------------------------------------------------------------------------------
(* Properties *)

\* The variables hold values of their kinds: frames that lead back into the
\* program, a table within its capacity whose ids ascend and whose counters never
\* fall below zero, a queue within its capacity.
TypeOK ==
    /\ cpu.pc \in Addr /\ cpu.mid \in {"no", "insn", "irq"} /\ cpu.icf \in BOOLEAN
    /\ cpu.stack \in Seq([kind : {"call", "irq", "brk"}, ret : Addr])
    /\ exec \in {"RUNNING", "PAUSED", "STOPPED"}
    /\ reason \in {"NONE", "RESET", "PAUSE_COMMAND", "STEP", "BREAKPOINT", "BRK", "RUN_COMPLETE"}
    /\ bps \in Seq([id : Nat, def : Definitions, on : BOOLEAN, cnt : Nat])
    /\ Len(bps) <= BpCapacity /\ Len(queue) <= CommandQueue
    /\ \A i, j \in DOMAIN bps : i < j => bps[i].id < bps[j].id
    /\ \A i \in DOMAIN bps : bps[i].id < nextId
    /\ {suppress, pending, alive, ended} \subseteq BOOLEAN
    /\ shown \in {"stop", "reset", "no"}
    /\ job.k \in CycleJobs \cup {"none", "insns", "over", "out"}
    /\ told \in {"RUNNING", "PAUSED", "ERROR"}

\* Step over comes to rest on the instruction after the JSR, step out on the
\* one after the call of the routine it was in, with the frames they should
\* have on the stack: recursion, interrupts that call routines of their own and
\* an interrupt before the first instruction do not mislead the counters.
StepCompletes == InFlow /\ job' = NoJob /\ exec' = "PAUSED" /\ reason' = "STEP" /\ alive'
StepReturns ==
    [][StepCompletes /\ job.clean =>
        IF job.k = "over" THEN cpu'.stack = job.base /\ cpu'.pc = job.stop
        ELSE cpu'.stack = Tail(job.base) /\ cpu'.pc = Head(job.base).ret]_vars

\* The program keeps its frames in order: an RTS is met with a call on top of the
\* stack, an RTI with an interrupt or a BRK, and no interrupt handler executes a
\* BRK (its RTI would lower interrupt_depth for an interrupt still in progress).
Top == IF cpu.stack = <<>> THEN "none" ELSE Head(cpu.stack).kind
WellNested ==
    AtBoundary =>
        /\ Op(cpu) = "rts" => Top = "call"
        /\ Op(cpu) = "rti" => Top \in {"irq", "brk"}
        /\ Op(cpu) = "brk" => \A i \in DOMAIN cpu.stack : cpu.stack[i].kind # "irq"

\* No loop runs the instruction under an armed execute breakpoint unless a
\* stop at that very instruction was reported, or a step from it asked for:
\* suppress_execute_bp does not outlive the instruction it was set for.  The code
\* breaks this in two places, and nowhere else.  A reset that resumes keeps the
\* flag, which then covers the vector.  And run-instructions, step over and step
\* out begun inside an instruction run the one behind it in the same
\* c64_step_instruction, without a look; this can only be their first pass.
NoBreakpointPassed ==
    [][job # NoJob /\ cpu' # cpu =>
        IF AtBoundary THEN shown # "no" \/ ~Stops(bps, "x", cpu.pc)
        ELSE job.k \in CycleJobs \/ job.first]_vars

\* Between loops the events published so far tell a client what the worker
\* does: no path into or out of running, an abort or a spent limit included,
\* goes unreported.  Only an error, which the client keeps until the next start
\* or stop, hides it.
EventsTellState ==
    (job = NoJob \/ job.k = "batch") /\ alive => told \in {exec, "ERROR"}

\* A quit in the queue ends the worker, whatever loop it is in and however the
\* program loops.
QuitEnds == [op |-> "quit"] \in ToSet(queue) ~> ended

==============================================================================
