---------------------------- MODULE ControlPlane -----------------------------
(***************************************************************************)
(* The c64m control port: three threads and four queues.                   *)
(*   socket thread  c64/control/control_server.c, serves one TCP client;   *)
(*   main thread    c64/main.c, the loop poll_runtime_events ->            *)
(*                  check_deferred_control_session ->                      *)
(*                  check_deferred_control_timeout ->                      *)
(*                  dispatch_control_requests, and its deferred table      *)
(*                  (c64/control/control_deferred.c);                      *)
(*   worker thread  c64/runtime/runtime_thread.c, as far as it answers the *)
(*                  control port, with the RPC payload pool it shares with *)
(*                  c64/runtime/runtime_client.c.                          *)
(* A command of the port is abstracted to how main treats it:              *)
(*   now    answered at once (get-state, run, load...);                    *)
(*   quit   answered at once with close_client;                            *)
(*   plain  exclusive deferred, no token, no connection epoch (get-vic,    *)
(*          breakpoints, disk-status, waits...);                           *)
(*   mem    get-memory, a multi deferred with a token, an epoch and a bulk *)
(*          payload (get-cpu is a mem whose answer has no payload);        *)
(*   hist   history-find, -next, -read: exclusive deferred, with a token,  *)
(*          an epoch and a payload, of which the worker keeps at most one. *)
(* Deadlines are abstracted: an active entry may or may not be overdue     *)
(* each time check_deferred_control_timeout looks at it.                   *)
(***************************************************************************)
EXTENDS Naturals, Sequences, FiniteSets

CONSTANTS Ids,             \* wire ids a client may choose (non-zero)
          Kinds,           \* the command kinds clients send
          ControlQueue,    \* CONTROL_QUEUE_CAPACITY (32)
          RuntimeQueue,    \* depth of the command and event queues (256)
          DeferredCapacity,\* CONTROL_DEFERRED_CAPACITY (16), also the
                           \* socket's CONTROL_PIPELINE_HIGH_WATER
          PoolCapacity,    \* RUNTIME_RPC_PAYLOAD_POOL_CAPACITY
          MaxConnections,  \* bound: TCP clients that connect
          MaxRequests,     \* bound: well-formed requests they send
          MaxTelemetry     \* bound: events the worker publishes unasked

ASSUME KindsAssumption == Kinds \subseteq {"now", "quit", "plain", "mem", "hist"}
ASSUME IdsAssumption == 0 \notin Ids
ASSUME BoundsAssumption ==
  /\ ControlQueue \in Nat \ {0} /\ RuntimeQueue \in Nat \ {0}
  /\ DeferredCapacity \in Nat \ {0} /\ PoolCapacity \in Nat \ {0}
  /\ MaxConnections \in Nat /\ MaxRequests \in Nat /\ MaxTelemetry \in Nat

VARIABLES
  \* control_server and the handler's locals
  s_pc, connection_epoch, connected, outstanding, read_closed, stopping,
  hungup,        \* the peer has closed its end (it may not be noticed yet)
  requests, responses,
  \* main loop
  m_pc, m_slot, deferred, next_request_token,
  \* worker
  commands, events, pool, w_pc, w_payload, telemetry,
  \* history, read by no action: who asked request n, what was written to whom
  asked, written

socketVars == <<s_pc, connection_epoch, connected, outstanding, read_closed, hungup>>
mainVars == <<m_pc, m_slot, deferred, next_request_token>>
workerVars == <<w_pc, w_payload, telemetry>>
vars == <<socketVars, stopping, requests, responses, mainVars, commands, events,
          pool, workerVars, asked, written>>

Slots == 1 .. DeferredCapacity
RequestNumbers == 1 .. MaxRequests
Tokens == 0 .. MaxRequests       \* main allocates at most one per request

\* The kinds whose answer is a payload, and those that main defers.
Bulk == {"mem", "hist"}
Deferrable == {"plain"} \cup Bulk

\* A slot of the pool in use, keyed by token and kind.
Payload == [token : 1 .. MaxRequests, kind : Bulk]
NoPayload == [token |-> 0, kind |-> "none"]

\* An inactive entry of the deferred table.
Inactive == [active |-> FALSE]
Request  == [n : RequestNumbers, id : Ids, kind : Kinds]
Deferral == [active : {TRUE}, n : RequestNumbers, id : Ids, kind : Kinds,
             token : Tokens, epoch : 0 .. MaxConnections]
EventLine == [kind |-> "event", n |-> 0, id |-> 0]
Response == {EventLine} \cup [kind : {"reply", "bye"}, n : RequestNumbers, id : Ids]
Command  == [type : Deferrable, token : Tokens]
RtEvent  == [type : Deferrable \cup {"state"}, token : Tokens, ok : BOOLEAN]

TypeOK ==
  /\ s_pc \in {"accept", "publish", "flush", "read", "drain", "close", "done"}
  /\ connection_epoch \in 0 .. MaxConnections
  /\ connected \in BOOLEAN /\ read_closed \in BOOLEAN
  /\ stopping \in BOOLEAN /\ hungup \in BOOLEAN
  /\ outstanding \subseteq Ids /\ Cardinality(outstanding) <= DeferredCapacity
  /\ requests \in Seq(Request) /\ Len(requests) <= ControlQueue
  /\ responses \in Seq(Response) /\ Len(responses) <= ControlQueue
  /\ m_pc \in {"events", "session", "timeout", "dispatch", "join", "stopped"}
  /\ m_slot \in 1 .. DeferredCapacity + 1
  /\ deferred \in [Slots -> {Inactive} \cup Deferral]
  /\ next_request_token \in Tokens
  /\ commands \in Seq(Command) /\ Len(commands) <= RuntimeQueue
  /\ events \in Seq(RtEvent) /\ Len(events) <= RuntimeQueue
  /\ pool \subseteq Payload /\ Cardinality(pool) <= PoolCapacity
  /\ w_pc \in {"idle", "publish", "retry"}
  /\ w_payload \in Payload \cup {NoPayload}
  /\ telemetry \in 0 .. MaxTelemetry
  /\ asked \in Seq([conn : 1 .. MaxConnections, id : Ids]) /\ Len(asked) <= MaxRequests
  /\ written \subseteq RequestNumbers \X (1 .. MaxConnections)

Init ==
  /\ s_pc = "accept" /\ connection_epoch = 0 /\ connected = FALSE
  /\ outstanding = {} /\ read_closed = FALSE /\ stopping = FALSE /\ hungup = FALSE
  /\ requests = <<>> /\ responses = <<>>
  /\ m_pc = "events" /\ m_slot = 1
  /\ deferred = [s \in Slots |-> Inactive] /\ next_request_token = 0
  /\ commands = <<>> /\ events = <<>> /\ pool = {}
  /\ w_pc = "idle" /\ w_payload = NoPayload /\ telemetry = 0
  /\ asked = <<>> /\ written = {}

\* Mutant of Pushed: the capacity test is off by one.
PushedOverfull(queue, capacity, item) ==
  IF Len(queue) <= capacity THEN Append(queue, item) ELSE queue

\* message_queue_push: a full queue refuses, and the sender may only notice.
Pushed(queue, capacity, item) ==
  IF Len(queue) < capacity THEN Append(queue, item) ELSE queue

-----------------------------------------------------------------------------
(* Socket thread.                                                          *)

\* control_framing_accept returns a connection, or NULL once stop has closed
\* the listener.
Accept ==
  /\ s_pc = "accept"
  /\ \/ ~stopping /\ connection_epoch < MaxConnections /\ s_pc' = "publish"
     \/ stopping /\ s_pc' = "done"
  /\ UNCHANGED <<connection_epoch, connected, outstanding, read_closed, hungup,
                 stopping, requests, responses, mainVars, commands, events, pool,
                 workerVars, asked, written>>

\* Under the lock: a new epoch, the connection visible to main; then
\* control_server_handle_connection starts with fresh locals.
Publish ==
  /\ s_pc = "publish"
  /\ connection_epoch' = connection_epoch + 1
  /\ connected' = TRUE
  /\ outstanding' = {} /\ read_closed' = FALSE
  /\ s_pc' = IF stopping THEN "drain" ELSE "flush"
  /\ UNCHANGED <<hungup, stopping, requests, responses, mainVars, commands,
                 events, pool, workerVars, asked, written>>

\* A write can fail once the peer is gone or stop has closed the socket.
WriteMayFail == hungup \/ stopping

\* Pop one response and write it: the flush loop at the top of the handler,
\* and the 5 ms wait_pop_timeout at its bottom, which does the same to one.
Flush ==
  /\ s_pc = "flush" /\ responses # <<>>
  /\ LET r == Head(responses) IN
       /\ responses' = Tail(responses)
       /\ outstanding' = outstanding \ {r.id}
       /\ \/ /\ written' = IF r.kind = "event" THEN written
                           ELSE written \cup {<<r.n, connection_epoch>>}
             /\ s_pc' = IF r.kind = "bye" THEN "drain" ELSE "flush"
          \/ WriteMayFail /\ s_pc' = "drain" /\ UNCHANGED written
  /\ UNCHANGED <<connection_epoch, connected, read_closed, hungup, stopping,
                 requests, mainVars, commands, events, pool, workerVars, asked>>

FlushDone ==
  /\ s_pc = "flush" /\ responses = <<>>
  /\ s_pc' = "read"
  /\ UNCHANGED <<connection_epoch, connected, outstanding, read_closed, hungup,
                 stopping, requests, responses, mainVars, commands, events, pool,
                 workerVars, asked, written>>

\* Mutant of LoopAgain: the handler forgets to look at stopping.
LoopForever == s_pc' = "flush"

\* The handler's loop test.
LoopAgain == s_pc' = IF stopping THEN "drain" ELSE "flush"

MayRead == ~read_closed /\ Cardinality(outstanding) < DeferredCapacity

\* A well-formed request with a fresh id is queued for main.
ReadRequest ==
  /\ s_pc = "read" /\ MayRead
  /\ Len(asked) < MaxRequests
  /\ Len(requests) < ControlQueue
  /\ \E id \in Ids \ outstanding, kind \in Kinds :
       /\ requests' = Append(requests, [n |-> Len(asked) + 1, id |-> id, kind |-> kind])
       /\ outstanding' = outstanding \cup {id}
       /\ asked' = Append(asked, [conn |-> connection_epoch, id |-> id])
  /\ LoopAgain
  /\ UNCHANGED <<connection_epoch, connected, read_closed, hungup, stopping,
                 responses, mainVars, commands, events, pool, workerVars, written>>

\* A line that queues nothing: unparsable, a duplicate of an outstanding id
\* (bad-id), a bad payload, or one request too many (busy).  The error is
\* written at once; a failed write or a framing error ends the connection.
\* (The finitely many such lines a peer may have sent before it hung up change
\* nothing and are left out.)
ReadRejected ==
  /\ s_pc = "read" /\ MayRead /\ ~hungup
  /\ LoopAgain \/ s_pc' = "drain"
  /\ UNCHANGED <<connection_epoch, connected, outstanding, read_closed, hungup,
                 stopping, requests, responses, mainVars, commands, events, pool,
                 workerVars, asked, written>>

\* Mutant of ReadHangup: the hangup is not remembered.
ReadHangupForgotten ==
  /\ s_pc = "read" /\ MayRead /\ hungup
  /\ LoopAgain
  /\ UNCHANGED <<connection_epoch, connected, outstanding, read_closed, hungup,
                 stopping, requests, responses, mainVars, commands, events, pool,
                 workerVars, asked, written>>

\* line_rc < 0: start the drain period, unless nothing is outstanding.
ReadHangup ==
  /\ s_pc = "read" /\ MayRead /\ hungup
  /\ read_closed' = TRUE
  /\ \/ outstanding = {} /\ s_pc' = "drain"
     \/ outstanding # {} /\ LoopAgain
  /\ UNCHANGED <<connection_epoch, connected, outstanding, hungup, stopping,
                 requests, responses, mainVars, commands, events, pool, workerVars,
                 asked, written>>

\* Nothing to read, or not reading: round again, or the end of the drain.
ReadNothing ==
  /\ s_pc = "read" /\ ~(MayRead /\ hungup)
  /\ \/ read_closed /\ outstanding = {} /\ s_pc' = "drain"
     \/ ~(read_closed /\ outstanding = {}) /\ LoopAgain
  /\ UNCHANGED <<connection_epoch, connected, outstanding, read_closed, hungup,
                 stopping, requests, responses, mainVars, commands, events, pool,
                 workerVars, asked, written>>

\* CONTROL_DISCONNECT_DRAIN_MS after the hangup was read.
DrainDeadline ==
  /\ s_pc = "read" /\ read_closed
  /\ s_pc' = "drain"
  /\ UNCHANGED <<connection_epoch, connected, outstanding, read_closed, hungup,
                 stopping, requests, responses, mainVars, commands, events, pool,
                 workerVars, asked, written>>

\* Leftover responses are dropped so that the next client starts clean.
Drain ==
  /\ s_pc = "drain"
  /\ responses' = <<>>
  /\ s_pc' = "close"
  /\ UNCHANGED <<connection_epoch, connected, outstanding, read_closed, hungup,
                 stopping, requests, mainVars, commands, events, pool, workerVars,
                 asked, written>>

\* Under the lock; the handler's locals are gone.
Close ==
  /\ s_pc = "close"
  /\ connected' = FALSE
  /\ hungup' = FALSE /\ outstanding' = {} /\ read_closed' = FALSE
  /\ s_pc' = IF stopping THEN "done" ELSE "accept"
  /\ UNCHANGED <<connection_epoch, stopping, requests, responses, mainVars,
                 commands, events, pool, workerVars, asked, written>>

\* The TCP peer closes its end.
Hangup ==
  /\ s_pc \in {"flush", "read"} /\ ~hungup
  /\ hungup' = TRUE
  /\ UNCHANGED <<s_pc, connection_epoch, connected, outstanding, read_closed,
                 stopping, requests, responses, mainVars, commands, events, pool,
                 workerVars, asked, written>>

-----------------------------------------------------------------------------
(* Main thread.  Each action ends with the push to the responses queue, so *)
(* it is atomic where the other threads can see it.                        *)

Active(s) == deferred[s].active
NoneActive == \A s \in Slots : ~Active(s)

Reply(n, id) == [kind |-> "reply", n |-> n, id |-> id]
Post(response) == responses' = Pushed(responses, ControlQueue, response)

\* The entry an event completes: a tokened entry takes only its own token, an
\* untokened one any event of its type (control_deferred_token_matches).
Completes(s, e) ==
  /\ Active(s)
  /\ deferred[s].kind = e.type
  /\ deferred[s].token = 0 \/ deferred[s].token = e.token

\* Mutants of CompleteDeferred: the entry is freed even when its answer was
\* refused; the entry stays active after its answer.
CompleteFreesAlways(s, e) ==
  /\ pool' = IF e.ok THEN pool \ {[token |-> e.token, kind |-> e.type]} ELSE pool
  /\ Post(Reply(deferred[s].n, deferred[s].id))
  /\ deferred' = [deferred EXCEPT ![s] = Inactive]

CompleteKeepsEntry(s, e) ==
  /\ pool' = IF e.ok THEN pool \ {[token |-> e.token, kind |-> e.type]} ELSE pool
  /\ Post(Reply(deferred[s].n, deferred[s].id))
  /\ UNCHANGED deferred

\* complete_deferred_control_response: claim the payload, post the answer (or
\* the error for a missing payload), and free the entry only if the post
\* succeeded.
CompleteDeferred(s, e) ==
  /\ pool' = IF e.ok THEN pool \ {[token |-> e.token, kind |-> e.type]} ELSE pool
  /\ Post(Reply(deferred[s].n, deferred[s].id))
  /\ deferred' = IF Len(responses) < ControlQueue
                 THEN [deferred EXCEPT ![s] = Inactive] ELSE deferred

\* poll_runtime_events, one event.
PollEvent ==
  /\ m_pc = "events" /\ events # <<>>
  /\ LET e == Head(events) IN
       /\ events' = Tail(events)
       /\ \/ \E s \in Slots : Completes(s, e) /\ CompleteDeferred(s, e)
          \/ /\ \A s \in Slots : ~Completes(s, e)
             /\ IF e.type = "state" THEN Post(EventLine) ELSE UNCHANGED responses
             /\ UNCHANGED <<deferred, pool>>
  /\ UNCHANGED <<socketVars, stopping, requests, m_pc, m_slot, next_request_token,
                 commands, workerVars, asked, written>>

EventsDone ==
  /\ m_pc = "events" /\ events = <<>>
  /\ m_pc' = "session" /\ m_slot' = 1
  /\ UNCHANGED <<socketVars, stopping, requests, responses, deferred,
                 next_request_token, commands, events, pool, workerVars, asked, written>>

NextSlot(after) ==
  IF m_slot < DeferredCapacity
  THEN m_slot' = m_slot + 1 /\ UNCHANGED m_pc
  ELSE m_slot' = 1 /\ m_pc' = after

\* runtime_client_cancel_rpc frees a payload already stored.
Cancelled(token) == {p \in pool : p.token # token}

\* check_deferred_control_session_one: an entry tagged with an epoch dies with
\* its connection.
CheckSession ==
  /\ m_pc = "session"
  /\ LET d == deferred[m_slot]
         orphan == d.active /\ d.epoch # 0 /\ (~connected \/ connection_epoch # d.epoch)
     IN IF orphan
        THEN /\ pool' = Cancelled(d.token)
             /\ deferred' = [deferred EXCEPT ![m_slot] = Inactive]
        ELSE UNCHANGED <<pool, deferred>>
  /\ NextSlot("timeout")
  /\ UNCHANGED <<socketVars, stopping, requests, responses, next_request_token,
                 commands, events, workerVars, asked, written>>

\* check_deferred_control_timeout: not overdue.
KeepWaiting ==
  /\ m_pc = "timeout"
  /\ NextSlot("dispatch")
  /\ UNCHANGED <<socketVars, stopping, requests, responses, deferred,
                 next_request_token, commands, events, pool, workerVars, asked, written>>

\* Mutants of TimeOut: the entry is dropped without an answer; the cancel
\* frees every payload, not the one with the entry's token.
TimeOutSilently ==
  /\ m_pc = "timeout" /\ Active(m_slot)
  /\ pool' = Cancelled(deferred[m_slot].token)
  /\ deferred' = [deferred EXCEPT ![m_slot] = Inactive]
  /\ UNCHANGED responses
  /\ NextSlot("dispatch")
  /\ UNCHANGED <<socketVars, stopping, requests, next_request_token, commands,
                 events, workerVars, asked, written>>

TimeOutFreesOthers ==
  /\ m_pc = "timeout" /\ Active(m_slot)
  /\ pool' = {}
  /\ Post(Reply(deferred[m_slot].n, deferred[m_slot].id))
  /\ deferred' = [deferred EXCEPT ![m_slot] = Inactive]
  /\ NextSlot("dispatch")
  /\ UNCHANGED <<socketVars, stopping, requests, next_request_token, commands,
                 events, workerVars, asked, written>>

\* Overdue: cancel_deferred_control_response, which frees the entry even when
\* the error cannot be posted.
TimeOut ==
  /\ m_pc = "timeout" /\ Active(m_slot)
  /\ pool' = Cancelled(deferred[m_slot].token)
  /\ Post(Reply(deferred[m_slot].n, deferred[m_slot].id))
  /\ deferred' = [deferred EXCEPT ![m_slot] = Inactive]
  /\ NextSlot("dispatch")
  /\ UNCHANGED <<socketVars, stopping, requests, next_request_token, commands,
                 events, workerVars, asked, written>>

\* deferred_begin and control_deferred_reserve.
MayBegin(kind) ==
  IF kind = "mem" THEN \E s \in Slots : ~Active(s) ELSE NoneActive
FirstFree == CHOOSE s \in Slots : ~Active(s) /\ \A t \in Slots : t < s => Active(t)

\* A command is sent and the entry set up; only get-memory, get-cpu and history
\* entries carry a token and the connection's epoch.
BeginDeferred(r) ==
  LET token == IF r.kind \in Bulk THEN next_request_token + 1 ELSE 0
      entry == [active |-> TRUE, n |-> r.n, id |-> r.id, kind |-> r.kind,
                token |-> token,
                epoch |-> IF r.kind \in Bulk THEN connection_epoch ELSE 0]
  IN /\ MayBegin(r.kind) /\ Len(commands) < RuntimeQueue
     /\ next_request_token' = IF r.kind \in Bulk THEN token ELSE next_request_token
     /\ commands' = Append(commands, [type |-> r.kind, token |-> token])
     /\ deferred' = [deferred EXCEPT ![FirstFree] = entry]
     /\ UNCHANGED responses

\* Answered at once: immediate commands, busy, command rejected.  A token is
\* spent even when the command queue refuses.
AnswerNow(r) ==
  /\ Post([Reply(r.n, r.id) EXCEPT !.kind = IF r.kind = "quit" THEN "bye" ELSE "reply"])
  /\ next_request_token' = IF r.kind \in Bulk /\ MayBegin(r.kind)
                           THEN next_request_token + 1 ELSE next_request_token
  /\ UNCHANGED <<commands, deferred>>

\* dispatch_control_requests, one request.
Dispatch ==
  /\ m_pc = "dispatch" /\ requests # <<>>
  /\ LET r == Head(requests) IN
       /\ requests' = Tail(requests)
       /\ \/ r.kind \in Deferrable /\ BeginDeferred(r)
          \/ /\ r.kind \notin Deferrable \/ ~MayBegin(r.kind)
                  \/ Len(commands) = RuntimeQueue
             /\ AnswerNow(r)
  /\ UNCHANGED <<socketVars, stopping, m_pc, m_slot, events, pool, workerVars,
                 asked, written>>

DispatchDone ==
  /\ m_pc = "dispatch" /\ requests = <<>>
  /\ m_pc' = "events"
  /\ UNCHANGED <<socketVars, stopping, requests, responses, m_slot, deferred,
                 next_request_token, commands, events, pool, workerVars, asked, written>>

\* control_server_stop, called when the main loop ends: set stopping, close
\* the connection and the listener, then join the socket thread.
Stop ==
  /\ m_pc = "events" /\ ~stopping
  /\ stopping' = TRUE /\ m_pc' = "join"
  /\ UNCHANGED <<socketVars, requests, responses, m_slot, deferred,
                 next_request_token, commands, events, pool, workerVars, asked, written>>

Join ==
  /\ m_pc = "join" /\ s_pc = "done"
  /\ m_pc' = "stopped"
  /\ UNCHANGED <<socketVars, stopping, requests, responses, m_slot, deferred,
                 next_request_token, commands, events, pool, workerVars, asked, written>>

-----------------------------------------------------------------------------
(* Worker thread.                                                          *)

Publishes(e) == events' = Pushed(events, RuntimeQueue, e)
PayloadEvent(payload, ok) == [type |-> payload.kind, token |-> payload.token, ok |-> ok]

\* Room in the pool; and history keeps one payload (runtime_history_payload_active).
MayStore(kind) ==
  /\ Cardinality(pool) < PoolCapacity
  /\ kind = "hist" => \A p \in pool : p.kind # "hist"

\* A memory or history command: bad arguments, a machine that runs or a full
\* pool are reported at once; otherwise the payload is stored, and announced in
\* a step of its own because the pool's mutex is released in between.
WorkerTake ==
  /\ w_pc = "idle" /\ commands # <<>>
  /\ commands' = Tail(commands)
  /\ LET c == Head(commands)
         payload == [token |-> c.token, kind |-> c.type]
     IN \/ /\ c.type = "plain"
           /\ Publishes([type |-> "plain", token |-> 0, ok |-> TRUE])
           /\ UNCHANGED <<pool, w_pc, w_payload>>
        \/ /\ c.type \in Bulk
           /\ Publishes(PayloadEvent(payload, FALSE))
           /\ UNCHANGED <<pool, w_pc, w_payload>>
        \/ /\ c.type \in Bulk /\ MayStore(c.type)
           /\ pool' = pool \cup {payload}
           /\ w_pc' = "publish" /\ w_payload' = payload
           /\ UNCHANGED events
  /\ UNCHANGED <<socketVars, stopping, requests, responses, mainVars, telemetry,
                 asked, written>>

\* runtime_flow_abort_requested: a step-out or step-over in progress reads the
\* queue and drops everything but quit, pause and run.
WorkerDrops ==
  /\ w_pc = "idle" /\ commands # <<>>
  /\ commands' = Tail(commands)
  /\ UNCHANGED <<socketVars, stopping, requests, responses, mainVars, events, pool,
                 workerVars, asked, written>>

WorkerPublish ==
  /\ w_pc = "publish"
  /\ IF Len(events) < RuntimeQueue
     THEN /\ events' = Append(events, PayloadEvent(w_payload, TRUE))
          /\ w_pc' = "idle" /\ UNCHANGED pool
     ELSE pool' = pool \ {w_payload} /\ w_pc' = "retry" /\ UNCHANGED events
  /\ UNCHANGED <<socketVars, stopping, requests, responses, mainVars, commands,
                 w_payload, telemetry, asked, written>>

\* Best-effort notice that the result was dropped.
WorkerRetry ==
  /\ w_pc = "retry"
  /\ Publishes(PayloadEvent(w_payload, FALSE))
  /\ w_pc' = "idle"
  /\ UNCHANGED <<socketVars, stopping, requests, responses, mainVars, commands,
                 pool, w_payload, telemetry, asked, written>>

\* Unsolicited: state-changed notices, and machine telemetry for the UI whose
\* events have the types the untokened commands wait for.
Telemetry ==
  /\ w_pc = "idle" /\ telemetry < MaxTelemetry
  /\ telemetry' = telemetry + 1
  /\ \E type \in {"plain", "state"} :
       Publishes([type |-> type, token |-> 0, ok |-> TRUE])
  /\ UNCHANGED <<socketVars, stopping, requests, responses, mainVars, commands,
                 pool, w_pc, w_payload, asked, written>>

-----------------------------------------------------------------------------
SocketNext == Accept \/ Publish \/ Flush \/ FlushDone \/ ReadRequest \/ ReadRejected
              \/ ReadHangup \/ ReadNothing \/ DrainDeadline \/ Drain \/ Close
MainNext == PollEvent \/ EventsDone \/ CheckSession \/ KeepWaiting \/ TimeOut
            \/ Dispatch \/ DispatchDone \/ Join
WorkerNext == WorkerTake \/ WorkerDrops \/ WorkerPublish \/ WorkerRetry

\* Everything is over once main has joined the socket thread.
Finished == m_pc = "stopped" /\ UNCHANGED vars

Next == SocketNext \/ MainNext \/ WorkerNext \/ Hangup \/ Stop \/ Telemetry \/ Finished

\* The OS schedules every thread.  Time passes: an entry main keeps looking at
\* is overdue in the end, and so is the drain of a closed connection.
Fairness ==
  /\ WF_vars(SocketNext) /\ WF_vars(MainNext) /\ WF_vars(WorkerNext)
  /\ \A s \in Slots : SF_vars(m_slot = s /\ TimeOut)
  /\ SF_vars(DrainDeadline)

SafetySpec == Init /\ [][Next]_vars
Spec == SafetySpec /\ Fairness

-----------------------------------------------------------------------------
(* Properties.                                                             *)

Serving == s_pc \in {"flush", "read"}

\* Where request n or its one answer is.
Places(n) ==
  {<<"requests", i>> : i \in {j \in DOMAIN requests : requests[j].n = n}}
  \cup {<<"deferred", s>> : s \in {t \in Slots : Active(t) /\ deferred[t].n = n}}
  \cup {<<"responses", i>> : i \in {j \in DOMAIN responses : responses[j].n = n}}
  \cup {<<"written", w[2]>> : w \in {v \in written : v[1] = n}}

\* A request is in one place at a time: it is never dispatched twice, answered
\* twice, or answered while an entry still waits to answer it, whatever
\* completions, timeouts, cancellations and failed posts happen to it.
AnsweredAtMostOnce == \A n \in RequestNumbers : Cardinality(Places(n)) <= 1

\* A served client waits for an id whose request is nowhere any more: it was
\* forgotten, no answer will come, and the id uses up one of the pipelined places.
Lost(id) ==
  /\ Serving /\ id \in outstanding
  /\ ~\E n \in DOMAIN asked :
        /\ asked[n] = [conn |-> connection_epoch, id |-> id]
        /\ Places(n) # {} /\ <<n, connection_epoch>> \notin written

\* While a client is served, an id it still waits for belongs to a request of
\* its own that will be answered: the request is queued, deferred, or its
\* answer is on the way.
OutstandingHasAnswer == \A id \in outstanding : ~Lost(id)

\* The one way to forget a request of the client being served: whatever main,
\* the worker and the socket thread do to the table, the queues and the epochs,
\* a request that is queued, deferred, answered or written stays so, but for
\* an immediate answer or a timeout's error that the full responses queue
\* refuses.  A completion that is refused keeps its entry.
AnswersKept ==
  [][Serving /\ Serving' =>
       \A n \in DOMAIN asked :
         (asked[n].conn = connection_epoch /\ Places(n) # {} /\ Places(n)' = {})
           => Len(responses) = ControlQueue /\ m_pc \in {"timeout", "dispatch"}]_vars

\* What main relies on without a test: the responses queue has room when it
\* posts an answer that it will not post again if it is refused (a timed out
\* entry's error, an immediate answer).
AnswerFindsRoom ==
  ((m_pc = "timeout" /\ Active(m_slot)) \/ (m_pc = "dispatch" /\ requests # <<>>))
    => Len(responses) < ControlQueue

\* A completion that announces a payload finds it: as long as the entry that
\* owns the token waits, nobody else has freed or claimed the payload.
ClaimFindsPayload ==
  \A i \in DOMAIN events, s \in Slots :
    (Active(s) /\ events[i].type \in Bulk /\ events[i].ok /\ deferred[s].token = events[i].token)
      => [token |-> events[i].token, kind |-> events[i].type] \in pool

\* Main stands at the only post of id's answer, an overdue entry's error or an
\* immediate answer, and the responses queue is full.
MeetsFullQueue(id) ==
  /\ Len(responses) = ControlQueue
  /\ \/ m_pc = "timeout" /\ Active(m_slot) /\ deferred[m_slot].id = id
     \/ m_pc = "dispatch" /\ requests # <<>> /\ Head(requests).id = id

\* Every outstanding id is retired in the end, by its answer, the error of its
\* timeout or the end of its connection, whatever commands and events are
\* dropped and whatever completions are refused on the way; unless main comes to
\* the post of its answer that it does not repeat and the responses queue is full.
RequestRetired ==
  \A id \in Ids :
    []~MeetsFullQueue(id) => (id \in outstanding ~> id \notin outstanding)

\* A client that hangs up is disposed of, and the port is free again, also when
\* it leaves requests behind or the socket thread does not read because it has
\* as many outstanding as it takes; unless all of those are lost: the thread then
\* never reads the end of the stream, and only an event it fails to write, if one
\* comes, would tell it.
HangupFreesPort ==
  hungup ~> \/ ~hungup
            \/ Cardinality(outstanding) = DeferredCapacity
               /\ \A id \in outstanding : Lost(id)

\* control_server_stop returns: the socket thread is never stuck.
StopJoins == stopping ~> m_pc = "stopped"

\* A client is only ever answered about its own requests.
NextClientClean ==
  \A w \in written : asked[w[1]].conn = w[2]
=============================================================================
