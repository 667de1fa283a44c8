# TLA+ models of `machines` (a2m and c64m)

The repository holds two emulators, c64m (Commodore 64) and a2m (Apple ][), on a
shared shell. Each program is several threads: the SDL main thread (UI, and main
end of the control port), a runtime worker that owns the emulated machine, an
SDL audio callback, and a socket thread for the TCP control port. They share no
machine state; they exchange commands, events, requests and responses through
bounded queues, audio through a lock-free ring, and bulk results through a pool.
These models are about that plumbing and about HST1, the CPU flight recorder:
the parts where a fault needs a particular interleaving, a full queue, a wrap or
a long sequence of calls, and which unit tests hardly reach. Paths below are
relative to `src/src/`.

## Inventory

| Component | State | Operations | Interacts with | What makes it hard | Correct means |
|---|---|---|---|---|---|
| Message queue `shell/util/message_queue.c` | ring, count, head, tail, woken, wait set | push, try_pop, wait_pop (timeout), clear, wake_all | every pair of threads | lost and spurious wake-ups, time-outs | bounded FIFO, nobody sleeps beside an item |
| Audio ring `shell/util/audio_buffer.c` | data, two free-running positions | write, read, reset | worker, audio callback | no lock, uint32 wrap, reset | no slot used by both, samples in order |
| c64m socket thread `c64/control/control_server.c` | connection epoch, outstanding ids, request and response queue | accept, read, flush, hang-up drain, stop | main thread, TCP peer | hang-ups, stop against accept, high-water mark | every id is answered once, port is freed, stop returns |
| c64m deferred table `c64/main.c`, `c64/control/control_deferred.c` | 16 entries with token, epoch, deadline | begin, complete, time out, cancel | socket thread, worker | late answers, full queues, other connections | exactly one answer, to the one who asked |
| RPC payload pool `c64/runtime/runtime_client.c`, `runtime_thread.c` | slots by token and kind | store, announce, claim, cancel | main thread, worker | cancel between the worker's steps | a payload belongs to one waiting entry, and ends with it |
| a2m worker loop `apple2/runtime/runtime_thread.c`, `runtime.c` | command queue, command held back, quit flag | pop, coalesce, process, stop | main thread | reading ahead, full queue at stop | order kept, only stale lands dropped, join returns |
| HST1 arena `shell/runtime/runtime_history.c` | ring of blocks with records, epoch, timeline, retain floor | begin, access, complete, seal, marker, stop, resume, clear, force, retain, lookup, find | CPU observer, Inspector, commands | ids, cycles and timelines are derived, eviction, cuts | what is retained is a suffix and reads back as recorded |
| c64m worker execution `c64/runtime/runtime_thread.c` | exec state, breakpoint table, suppress and pending flags, temporary breakpoint | run, pause, reset, bounded runs, step, step over and out, run-to, breakpoint commands, quit | command and event queue, CPU | flags that outlive an instruction, stolen cycles, interrupts inside a step, the queue drained by an abort | no armed breakpoint is passed, steps end where they should, every stop is told, quit ends |
| c64m main thread's view `c64/main.c` | mirror of the machine's state, event latch, waits | update, latch, wait-paused, wait-running, wait-event | worker, control port | believing ahead of the events, events taken inside a request | when things are quiet the view is right |
| Runtime sessions, HST1 cursors | 4 slots, cursor per session | open, grant, bind, close | control port, worker | disconnect against open, late grants, dropped closes | every slot has an owner or is known to be lost; cursors not modelled |
| a2m control port `apple2/control/` | one request in flight, one deferred entry, latch, mirror, session | read, dispatch, complete, time out, disconnect, drain, stop | worker, main loop | no ids compared, untokened completions, time-outs | a reply answers the request that is waited for |
| Inspector `*/runtime/runtime_inspector*.c` | checkpoint ring, inputs, window | record, land, replay, truncate | arena, frame ring | rings that must stay aligned | planned |
| Frame and VIC rings `*/runtime/runtime_frame_ring.c` | frames by cycle | push, lookup, drop | Inspector, UI | time goes backwards on reset | planned |
| SwiftLink `c64/runtime/runtime_swiftlink.c` | socket and ACIA queues | connect, carrier, bytes | socket thread | connect races, back-pressure | planned |
| CIA, VIA | timers, interrupt flags | tick, register access | CPU | off-by-one cycles | candidate for operator modules |
| CPUs, VIC-II, SID, video, media formats, HostFS, snapshots, am65, frontends, options | | | | sequential, numeric or I/O | not modelled; see below |

`PROJECT.json` lists them all with their sources and, under `hazards`, the lines
where each hazard bites.

## Modules

| Module | Models | Kind |
|---|---|---|
| `BoundedFifo` | what a queue promises | abstract |
| `MessageQueue` | `message_queue.c` | detailed; implements `BoundedFifo` |
| `SampleStream` | what the audio ring promises | abstract |
| `AudioBuffer` | `audio_buffer.c` | detailed; implements `SampleStream` |
| `ControlPlane` | socket thread, main loop, worker's answering side, pool | composition of three threads |
| `A2mWorker` | a2m's command intake and `runtime_stop` | |
| `HistoryArena` | `runtime_history.c` as the c64m worker drives it | |
| `A2mControl` | a2m's control server, dispatcher and the worker's side of it | composition of three threads |
| `C64Worker` | execution control of the c64m worker | worker and the client's view of it |
| `C64Client` | c64m's main thread: mirror, latch, waits, session binding | composition of main thread, worker and client |
| `*_proofs` | the module of the same name | theorems; see Proofs |
| `MC*` | | instances for TLC |

**MessageQueue.** The mutex makes a critical section one action. `cond_wait`
splits a blocking pop in two: `WaitPop` enters the wait set, `Resume` is the loop
test after the mutex is held again, `Expire`/`ResumeExpired` are the two halves
of a time-out, `SpuriousWake` is the wake-up POSIX and SDL allow. `out` is what
the caller's last pop returned. `ControlPlane` and `A2mWorker` use sequences with
the same capacity rule, which is what `RingImplementsFifo` justifies.

**AudioBuffer.** Positions are counters modulo `Modulus` (2^32 in the build; the
assumption `2 * Capacity <= Modulus` comes from `audio_buffer_create`). Loading
the positions, copying one sample and storing a position are separate actions.
`ConcurrentReset` chooses between the rule of `audio_buffer.h` and what the c64m
worker does. The C11 acquire/release pairs are modelled as sequentially
consistent steps: each position has one writer, and the data it publishes is
ordered before it.

**ControlPlane.** `s_pc` follows `control_server_thread_main` and
`control_server_handle_connection`; `m_pc` follows the main loop's four calls
(`poll_runtime_events`, `check_deferred_control_session`,
`check_deferred_control_timeout`, `dispatch_control_requests`), one event, entry
or request per action; `w_pc` splits the worker's store of a payload from its
announcement, because the pool's mutex is released in between. Some hundred
commands are abstracted to five kinds: answered now, quit, exclusive without a
token (`plain`), concurrent with token, epoch and payload (`mem`), exclusive with
token, epoch and payload (`hist`). Deadlines are choices: an entry may be overdue
whenever main looks at it. `asked` and `written` are history variables.
Left out: the protocol-1 lock-step loop and the UI's own RPCs. Wait commands, the
event latch, sessions and the event pump inside `control_session_ensure` are in
`C64Client`.

**A2mWorker.** `w_pc` follows `runtime_thread_main`; every `try_pop` of
`runtime_coalesce_inspector_lands` is an action, so that the UI can send between
any two. `runtime_stop` is four actions.

**HistoryArena.** The arena is one record `h`; each function of
`runtime_history.c` is an operator from arena to arena, and each caller in
`c64/runtime/runtime_thread.c` or `runtime_inspector.c` is an action that composes
them. A record keeps what the code stores (cycle delta, access count, flags); id,
timeline and cycle are computed by `FindRecord` and `Decode` from the block, as
the code does. `log` remembers what each record was told to be. `Find` is
`runtime_history_find` with direction, start, timeline filter and limit.
`MediaWhileStopped` allows the Inspector to report disk writes while HST1 is
stopped (the two are switched separately).

**A2mControl.** `sock` follows `control_server_worker` and
`control_server_handle_connection`: one request, one reply, no ids compared;
`main` follows the main loop's event drain, `control_dispatch_poll` and
`control_dispatch_check_session`, which reads the server's `has_client` and epoch
in one step and acts on them in the next; `out` holds the events the worker has
still to publish for one command, so that main may read between any two. About a
hundred commands are fifteen kinds (listed in the module). `ensure_session`'s pump
is a state of its own (`pump`): it feeds events to `OnRuntimeEvent` until the
grant comes or two seconds are over. `mix` picks what the clients of one behaviour
may do. The socket thread discards responses for 250 ms after a disconnect, and
this drain ends whenever the model likes: nothing is assumed about what the main
loop does in that time. `passes` is history: it counts the passes of the main loop
since the disconnect, and becomes `Rushed` for good when a drain ends with a request
or an entry of its client unserved before two of them. `CheckBind` reads the epoch
together with what `ensure_session` reads next; a connection that comes in between
is one the next check sees.

**C64Worker.** `job` is the loop the worker is in (a free-running batch, a bounded
run, a step flow) and each iteration is an action; commands are only looked at where
the code looks. The 6510 is reduced to what the loops see: a boundary or not, the
program counter, the frames on the stack, `instruction_complete`, which accesses
reach the watchpoints, and cycles stolen by the VIC-II between instructions.
`c64_step_instruction` called inside an instruction finishes it and then runs one
whole instruction more. Breakpoint definitions may be disabled, and invalid ones are
refused with an error. `Prog` is a program over a handful of addresses; branches,
interrupts and stolen cycles are choices. `told` is what a client that has read
every event believes. `shown`, `job.first`, `job.clean` and `job.base` are history:
what excuses a loop from looking at this boundary (`"stop"`: a stop at it was
reported or a step from it asked for; `"reset"`: a reset led to it with the suppress
flag kept; `"no"`), whether an instruction loop has made its first pass, whether a
step began at a clean boundary, and with which stack.

**C64Client.** `pc` follows `run_main_loop`: events, session check, deadlines,
requests. `mirror` is `debug_state.runtime_state`, which an accepted run sets
ahead of the worker and an ERROR event sets to a value that only an execution event
clears; `latch` the sticky events of wait-event. The worker runs,
pauses, stops at a breakpoint of its own, opens and closes sessions, and during a
step over drops what it pops. Both queues are bounded: a full command queue refuses
a push (a run, a request for the state, an open or a close), a full event queue drops
what does not fit. `lost`, `swallowed` and `w.dropped` are history variables: slots nobody
will close, a state event the pump took without updating the mirror, and a last
state event that met a full queue.

## Runs

| Run | Bounds | Shows |
|---|---|---|
| `message_queue` | 3 slots, 2 items, 2 consumers | `Window` (types, and `RingInv`), no lost wake-up (`SignalsCoverItems`), `ImplementsFifo`, `BlockedConsumerServed` |
| `audio_buffer` | 4 slots, positions mod 8, calls of 1-3 samples | `TypeOK` (with `FilledBounded` in it), `DataRaceFree`, `ImplementsStream` |
| `audio_reset` (violation) | 2 slots, mod 4 | a reset beside the callback breaks `FilledBounded` |
| `control_plane` | 2 ids, 2 requests (now, quit, plain, mem), 2 connections, 1 unsolicited event, runtime queues of 1, control queues of 2 | `AnsweredAtMostOnce`, `ClaimFindsPayload`, `AnswersKept` |
| `control_live` | 2 requests (mem, hist), 1 connection, runtime and control queues of 1 | `RequestRetired` and `HangupFreesPort` with their exceptions, `StopJoins` |
| `control_leak` (violation) | 1-2 requests | see Findings |
| `a2m_worker` | queue of 3, 4 commands | `InOrder`, `OnlyStaleLandsSkipped`, `NothingLost`, `StopReturns` |
| `history_arena` | 3 blocks of 1-2 records, 4 records an epoch, 2 epochs, 2 timelines, cycles 0-2 with deltas of at most 1 | `RetainedIsSuffix`, `LookupFaithful`, `SpaceReserved`, `FirstIsOldest`, `FindCorrect` (`PartialCounted` is a part of `LookupFaithful`) |
| `history_stopped` (violation) | the same | see Findings |
| `a2m_control` | 2 free session slots; five mixes: 2 requests over 2 connections with a late open; 2 over 2 with waits and a breakpoint; 3 that run, pause and step; 3 through the Inspector; 2 over 2 connections with untokened kinds, reset and quit | `OwnReply`, `TokenedDataFresh`, `SessionsAccounted`, `MirrorCoherent`, `WaitHasAnswer` |
| `c64_worker` | 10 addresses, 2 frames and 1 interrupt on the stack, 3 breakpoints, batches of 2 cycles, 2 commands and quit, six scenarios | `EventsTellState`, `StepReturns`, `NoBreakpointPassed`, `QuitEnds` |
| `c64_client` | 1 free session slot, command and event queues of 2, 2 requests of eight kinds, 2 connections, 3 opens, 1 breakpoint stop | `Settled`, `SessionsAccounted` |

Why the bounds are enough: the queue's state depends on head, count and who waits,
and three slots with two consumers show every wrap, a full queue and a signal whose
item somebody else takes. Positions of the audio ring meet their modulus after two
fills. The control port's conflicts are pairwise (a late answer and a time-out, a
cancel and a store, one connection and the next), so two requests and two
connections suffice; runtime queues of one are full all the time, which is the case
that loses events. Control queues of two are full with one event line and one
answer, so the posts of completions, time-outs and immediate answers are all refused
in some state, which `AnswersKept` is about. The queues of one in `control_live`
refuse the errors of time-outs and the immediate answers (busy, command queue
full): without the condition
`MeetsFullQueue` TLC finds `RequestRetired` violated on that instance, and with
`Kinds = {"now"}` and one event line it finds `HangupFreesPort` violated without its
exception. The drain of `a2m_control` ends early too: `OwnReply` without its
condition is violated there. Four records in three blocks wrap the ring, and a block
takes a marker where an instruction no longer fits. In lock step a port has one
request under way, so a late answer needs one request before it, from this client or
the one before: two requests over two connections. The worker's flags live for an
instruction: batches of two cycles end inside instructions and at their boundaries,
two commands put any command before and after any other within a scenario, and the
program calls itself, is interrupted by a handler that makes a call, and meets a
BRK, a watched byte and each kind of breakpoint. One session slot is contended by
the old client, the new one and a late grant; a run and the request for the state
that follows it fill a command queue of two, and the events of one stop an event
queue.

`history_arena` and `c64_worker` switch deadlock checking off: a run that has used
up its record ids may stop, and the worker really ends.

Every property of a passing run has a mutant in `PROJECT.json`: an operator beside
the original with a plausible slip (a dropped guard, an early store, a missing
reset), under which TLC finds the property violated.

### Fairness

`MessageQueue`: a consumer that has been notified or has expired gets the mutex
(weak fairness on `Return`); no fairness on time-outs, pushes or wakes.
`ControlPlane`: the OS schedules each thread (weak fairness on its steps). Time
passes: an entry main looks at again and again is overdue in the end, and the
drain period of a closed connection ends (strong fairness on `TimeOut` per slot
and on `DrainDeadline`; the code compares with `SDL_GetTicks64`, so both are
bounded in real time). Nothing is assumed of the peer, of the worker publishing
what it was asked, or of the queue having room. `A2mWorker`: both threads are
scheduled, and a timed wait returns within its 10 ms. `A2mControl`: the three
threads are scheduled, deadlines pass, and a stopping socket thread leaves its
read loop, which tests the flag every 50 ms; its run checks invariants only.
`C64Worker`: weak fairness on the worker's steps, nothing about its program or its
clients: `QuitEnds` holds however the program loops, because every loop is bounded
or looks into the queue. `C64Client`: safety only, no fairness.

## Findings

* `audio_reset`: c64m resets the ring while the callback may be reading
  (`c64/runtime/runtime_thread.c:373`), which `audio_buffer.h` forbids. A position
  stored late leaves `write_pos - read_pos` above the capacity.
* `control_leak`: entries without an epoch, and requests still queued, survive a
  disconnect and are answered to the next client.
* `history_stopped`: with HST1 stopped and the Inspector recording, each guest disk
  write forces a new block and so evicts the oldest retained records. The empty
  block also makes FIND fail across it and status report no oldest record.

### Observations

Met while modelling. No run is devoted to them: they are in the models as the code
is, and the properties are stated so as to allow them.

Control port of c64m:
* A timed-out request whose error does not fit in the response queue is forgotten
  (`c64/main.c:3264`), and so is an immediate answer that does not fit; the id stays
  outstanding for the connection. Event lines, which are pushed whatever the fill,
  can cause it. `AnswersAreKept` proves that nothing else does, and `RequestRetired`
  excepts it. Once every pipelined place is lost in this way (`Lost`) the socket is no
  longer read: a hang-up is noticed only when a write fails, the exception of
  `HangupFreesPort`.
* A request cancelled before the worker stores its payload leaves the payload in
  the pool (`runtime_client.c:294`); for history that refuses later queries.
* Telemetry with token 0 completes deferred entries that have no token
  (`control_protocol.h:206`).
* `control_session_ensure` takes state events without `update_debug_state_from_event`,
  so the mirror may lag until the next one (`swallowed`). A state event the full
  event queue drops (`runtime_thread.c:386`) has the same effect (`w.dropped`).
* An ERROR event puts the mirror at "error", and MACHINE_STATE does not take it back
  (`c64/main.c:1384`): until execution is next heard of, wait-running and wait-paused
  stay deferred though the machine is in the state they wait for.
* An entry of a client that has left keeps no epoch when it is a wait: it makes the
  next client's waits busy until its deadline.
* After pause and run in quick succession wait-paused may complete on the old stop.
* A session granted after the wait was given up, one whose grant a full event
  queue dropped, and one whose close a full command queue refused or a step in
  progress dropped, is never given back (`lost`). A history request that gets no
  session falls back to the default one.

c64m worker:
* A counter breakpoint is evaluated again in each cycle the VIC-II steals at its
  boundary, so that it can fire before the Nth arrival.
* The first matching breakpoint decides: one that only counts hides a later one that
  breaks. Rearm also enables one-shots that were disabled by hand.
* Step-frame and run-to-raster clear the suppress flag, and at an execute breakpoint
  stop again without advancing.
* Reset keeps the flag: a machine that resumes skips a breakpoint at the reset vector,
  at which nobody stopped.
* Step over, step out and run-instructions begun inside an instruction (after a
  step-cycle or run-cycles) run the instruction behind it too, without a look at the
  breakpoint on it (`c64.c:3139`). `NoBreakpointPassed` excepts this and the reset, and
  `PassesNoBreakpoint` proves that there is no third way.
* Step out does not count RTI, so that from an interrupt handler it runs on to a
  return further out. A step out that ends on a watched RTS leaves
  `breakpoint_hit_pending` set.
* A BRK inside an interrupt handler misleads step over and step out: its entry is
  not counted, but its RTI lowers `interrupt_depth` while the interrupt is still in
  progress (`runtime_thread.c:4583`, `:4673`). `WellNested`, the hypothesis of
  `StepsReturn`, excludes it.
* A temporary run-to breakpoint survives pause and run; run-to the current address of
  a one-instruction loop never stops.
* An ERROR event leaves the client at "error" until the next start or stop.
* `runtime_stop` pushes QUIT and joins: with a full queue the push is lost.

Control port of a2m:
* When the main thread is away for more than the 250 ms of the drain, as it may be
  inside `ensure_session`'s two seconds (`control_dispatch.c:296`), a request the old
  client left queued is deferred under the new client's epoch (`:346`) and answered to
  it. This is the condition `passes # Rushed` of `OwnReply`.
* While inspecting, a refused run leaves the mirror at "running".
* A MACHINE_STATE event of a stopped machine arms wait-paused again, so that two waits
  may return for one stop. A pause of a paused machine publishes nothing.

## Proofs

Each `X_proofs` extends `X` and proves its results for every value of the
constants that satisfies the named assumptions of `X`; the bounds of the runs
(queues, requests, connections, records) are constants there and stay arbitrary.
The argument is the same each time: an inductive invariant `IInv`, checked by TLC
on the run's instance before it was proved, one lemma per action, and the
properties as consequences.

**MessageQueue_proofs** (`CapacityAssumption`, `ConsumersAssumption`,
`NothingAssumption`): `OneWindow` (`Window`),
`NoLostWakeup` (`SignalsCoverItems`), `RingImplementsFifo` (`ImplementsFifo`).
`TypeOK` alone is not inductive for the window: `RingInv` ties tail to head and
count, which push, copy-out and clear assign separately, and modular arithmetic
lemmas (`AddSlots` and its neighbours) carry it across the wrap.
`SignalsCoverItems` is inductive on top of `TypeOK` because a signal is only ever
spent by a consumer that takes an item, or finds none: the proof counts the
notified consumers and looks at what each action does to that number and to
`count`. For the refinement the contents of the ring as a sequence (`ContentOf`)
are related to `Append` and `Tail`; each action then maps to a put, a take, a
discard, or a stutter.

**AudioBuffer_proofs**: `TypeCorrect` (`TypeOK`, and in it that the wrapping
difference of the positions stays within the capacity), `RaceFree`
(`DataRaceFree`), `RefinesStream` (`ImplementsStream`). All three assume
`ConcurrentReset = FALSE`, the rule `audio_buffer.h` states; without it the
`audio_reset` run refutes them. `FilledBounded` needs what the two threads hold in
local variables: that their copies of the positions are current, that what they are
about to publish still fits (or is still there) although the other side has moved
since, and that the slots they have done hold the samples (`Producing`,
`Consuming`, `ResetSoFar`). `SizeAssumption` (`2 * Capacity <= Modulus`, the
modulus a multiple of the capacity) is what makes distinct offsets distinct slots.

**ControlPlane_proofs**: `TypeCorrect` (`TypeOK`), `NoSecondAnswer`
(`AnsweredAtMostOnce`), `PayloadFound` (`ClaimFindsPayload`), `AnswersAreKept` (the
action property `AnswersKept`), `OutstandingAnswered` (`OutstandingHasAnswer`, under
`[]AnswerFindsRoom`). `TInv` adds to the types the tables and how many requests are
in flight against the bounds. `RInv`: a request number is in one place only, the
request queue, one deferred slot, the response queue or what was written, and in
each at most once. `CInv`: a token is in flight once (in a command, in the worker's
hand, in an event: `Flights`), none is anywhere before it was handed out (`Spent`),
two entries never share one (`Owners`), and a payload the worker has stored but not
announced is in the pool as long as its entry waits (`HeldStored`). `Epochs`: main
sees a connection for as long as it is served, and an entry tagged with an epoch was
begun under the connection that asked or a later one; so the entry of a request of
the connection being served carries exactly its epoch and no orphan check takes it.
With that, one lemma per action shows that a request of a served client is still
somewhere after the step, or that the step is a time-out or a dispatch and the
response queue was full (`NextPlaced`). A client may use an id again once it is
answered, so for `OutstandingHasAnswer` the answer must be to a request still open:
`Named` says that requests, entries and responses carry the id they were asked with,
so that writing an answer retires its own id (`WrittenRetires`). `FreeFound` shows
that `control_deferred_reserve` finds a slot whenever `deferred_begin` let it look.
The hypothesis `AnswerFindsRoom` of `OutstandingAnswered` says that the queue has
room at those two places; the code does not ensure it, and with a full queue the
conclusion is false (see Observations). With three places for two requests and one
event line no post is ever refused, and both hold.

**A2mWorker_proofs**: `TypeCorrect` (`TypeOK`), `RunsInOrder` (`InOrder`),
`SkipsOnlyStaleLands` (`OnlyStaleLandsSkipped`), `LosesNothing` (`NothingLost`).
`InOrder` is not inductive: the invariant numbers the commands, orders what has
run, what is in hand, what is held back and what is queued (`Numbered`,
`Pipeline`), says at which program points something is held (`Control`), and
accounts for every number that has left the queue (`Accounted`).

**C64Worker_proofs** (for every program, breakpoint table and command script that
satisfies `ProgramShape`, `CommandsKnown`, `TableFits` and `Bounds`): `TypeCorrect`
(`TypeOK`), `TellsItsState` (`EventsTellState`), `PassesNoBreakpoint` (the action
property `NoBreakpointPassed`), `StepsReturn` (the action property `StepReturns`,
under `[]WellNested`). `WellNested` is not a property of the emulator and no run
checks it: it is only this hypothesis. `TableFits` is
`runtime_breakpoint_ini.c:406`: the INI file is read up to the table's capacity. For
`TypeCorrect` the breakpoint table is followed through create, update, remove,
disarm and rearm: ids ascend and lie below the next id (`Ordered`), and the counters
stay natural numbers. For `PassesNoBreakpoint` the heart is `Protected`: whenever
the suppress flag is set at an instruction boundary, that boundary was shown to the
client or reached by a reset. A pass of an instruction loop from inside an
instruction can only be its first, because `c64_step_instruction` always ends at a
boundary. `Shape` keeps the records of CPU and loop apart enough to reason about
them, and `Believes` says that a live worker runs or is paused. `StepsReturn` says
that step over comes to rest behind its JSR with the stack it started from, and step
out behind the call of the routine it started in with that frame gone, however the
program recurses and whenever interrupts arrive. Its inductive invariant relates the
counters of the two flows to the stack: the frames the step began with are still at
the bottom, `interrupt_depth` is the number of interrupt frames above them,
`jsr_counter` counts the calls above them outside interrupts, no BRK frame lies
above an interrupt frame, and the lowest frame a step over has added is its JSR's
call, or an interrupt that returns to the JSR. The hypothesis `WellNested` is about
the emulated program, not the emulator: an RTS meets a call, an RTI an interrupt or
a BRK, and no interrupt handler executes a BRK. A program that pulls its return
address breaks it, and then no debugger can tell where the step ends.

**C64Client_proofs**: `TypeCorrect` (`TypeOK`), `AccountsSessions`
(`SessionsAccounted`), `SettlesRight` (`Settled`). Both safety invariants speak
about queues, so the inductive one follows every session and every state event
through them. `Unheard` is what was published or is about to be: the step that
publishes does not change it. Sessions (`SOK`): tokens are asked for and answered
once; a session that is still to be granted is nowhere else, one granted and not
yet heard of is in use and neither bound, lost nor being closed; a queued history
request precedes the close of its session. Views (`VOK`): either the worker owes a
state event (a request for the state is queued, or a step is in progress) or the
last unheard state event, or the mirror when there is none, tells what the worker
does; a stop in the queue is followed by the machine's state, which is the event
wait-paused needs; and a deferred wait that the mirror already satisfies has an
event coming that will complete it. The three exceptions of `Settled` enter here: a
mirror at "error" needs to say nothing, `swallowed` excuses the pump's doing, and after
a dropped state event nothing is claimed until the worker publishes the next one
(`Excused`). What the worker is about to publish ends with the truth (`BInv`), which
restores the view afterwards. `Within` bounds the two queues.

**A2mControl_proofs**: `TypeCorrect` (`TypeOK`), `DataIsFresh` (`TokenedDataFresh`),
`WaiterHasAnswer` (`WaitHasAnswer`), `SessionsAreAccounted` (`SessionsAccounted`),
`MirrorSettles` (`MirrorCoherent`), `RepliesAreOwn` (`OwnReply`, with its condition
on `passes` and no hypothesis about time): every invariant of the module. The tokens
and session ids that the model takes from a finite range never run out, by counting
what is in use (`Fresh`, `FreshSessionIs`), so the range bounds nothing. `KInv`:
what carries the entry's token, as a command, in the worker's hand or as an event,
is of the entry's request, and while `ensure_session` runs for a history request
nothing carries it yet. `WInv`: ids are given once, the entry of the waiting client
has the epoch of its connection, and from the point where `check_session` has read a
value that value is this connection's; so `FormerEntry` is false for it. `LInv`: one
request at a time is queued, deferred or answered (`Waiting`); a connection is left
clean (`Clean`), which after a hangup takes the main loop two passes: the first may
still have begun with the old connection's `has_client`, the second drops the entry
(`Draining`). `RInv` claims this until a drain was rushed; no step takes `Rushed`
back. `SInv`: `count.late` must pay not only for the slots nobody will give back but
also for the opens still queued that nobody waits for any more (`Owing`), because
the worker grants those later; each move of a session through queue, worker, event
and pump keeps this debt within the give-ups, which needs an open to be queued and
granted once (`OpensOnce`, `Separate`, `OneGrant`). `MInv`: among the events that
are published or about to be (`Unheard`), the last one that tells anything about
running (or inspecting) tells what the worker does, and when none does, the mirror
is right already (`Becomes`). Two exceptions are in the code: the mirror is set when
a run is accepted, so it is ahead of the worker while a run is queued; and a run
refused while inspecting leaves it wrong until the Inspector is left.

**HistoryArena_proofs** (for every geometry `SizeAssumption` allows, one block
included, and both values of `MediaWhileStopped`): `TypeCorrect` (`TypeOK`),
`RetainsSuffix` (`RetainedIsSuffix`), `LooksUpFaithfully` (`LookupFaithful`),
`ReservesSpace` (`SpaceReserved`). The ids of a block follow from its first id and
its number of records (`WellFormed`), an older block in the ring holds smaller ids
(`Ordered`, by `Age`, the distance back from the current block), from some id on
everything is held (`Covered`), the active record is the last of the current block
with its reserve (`Reserved`), and each record tells what the log says
(`Faithful`). Every function of `runtime_history.c` has a lemma that it leads from
one good arena to another; actions compose them.
`ReportsOldest` (`FirstIsOldest`, under `MediaWhileStopped = FALSE`; without it a
block forced while recording is stopped stays empty, see Findings) adds
`Packed`: every block in use holds records and none of them is below the floor. A
block entered for a record is filled in the same call (`PutFills`), and the only
caller of `runtime_history_retain_from` cuts at the first record of a block it has
just forced (`CutPacked`); a cut in the middle of a block would make status report
an id above records that can still be looked up.
`FindsRight` (`FindCorrect`, under the same condition and for every geometry) needs
two more parts of `Packed`: `used` is the sum of the sizes of a block's records
(`Sized`; FIND compares the two and fails when they differ), and the blocks with
records are the youngest ones (`Dense`), so that a walk meets no gap. A walk from a
retained record then follows a `Path` to the block with the newest or the oldest
record (`PathTo`), a block continues where the next older one ends (`Adjacent`),
every block on the way passes FIND's tests and only the last one stops the walk
(`VisitsSound`, `EndsAtLast`), and the ids scanned are the retained ids from the
start on (`ScansHeld`, `HeldScanned`, `HitsAre`).

### Only model-checked

* All liveness (`BlockedConsumerServed`, `RequestRetired`, `HangupFreesPort`,
  `StopJoins`, `StopReturns`, `QuitEnds`): the prover does not reason about
  fairness or ENABLED.
* The hypothesis `AnswerFindsRoom` of `OutstandingAnswered` (false for a response
  queue that event lines can fill; true where the queue has a place for every request
  and event line, by TLC on the `control_plane` instance with control queues of three).
* `FirstIsOldest` and `FindCorrect` of `HistoryArena` are proved for
  `MediaWhileStopped = FALSE` only; with `TRUE` they are false (see Findings).

## Not modelled

CPU, VIC-II, SID and video emulation (numeric state far beyond TLC, covered by the
repository's own suites); media file formats, HostFS, snapshots and printers (I/O
and byte layout); am65, symbols, option and query parsers (sequential string
processing); frontends (UI). These, with the vendored UI library, are most of the
repository's lines: the models cover the code that coordinates threads and the
recorder, a small share of the whole by size.

Of the parts that are modelled, left out are: turbo and pacing, paste, pending loads
and running inside the Inspector (`C64Worker`); history cursors (`C64Client`,
`A2mControl`); full queues on a2m's port, which hold 32 and 256 items. The rows
marked "planned" above follow below.

## Plan

1. Done: `MessageQueue`, `AudioBuffer`, `ControlPlane`, `A2mWorker`, `HistoryArena`,
   `C64Worker`, `C64Client`, `A2mControl`, each with proofs.
2. `FrameRing` and the Inspector's checkpoint ring, composed with `HistoryArena`
   (truncation keeps the three aligned; a2m's and c64m's media events).
3. History cursors on top of sessions; SwiftLink queues; CIA and VIA timers as
   operators against a reference.
