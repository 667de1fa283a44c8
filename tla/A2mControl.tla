----------------------------- MODULE A2mControl -----------------------------
(***************************************************************************)
(* The a2m control port: the socket thread of control_server.c, which      *)
(* serves one client in lock step, the dispatcher of control_dispatch.c    *)
(* on the main thread with its single deferred entry, its mirror of the    *)
(* machine's state, its event latches and its runtime session, and as much *)
(* of the a2m worker as answers it.                                        *)
(*                                                                         *)
(* Requests are abstracted to kinds that the dispatcher treats alike:      *)
(*   state            answered at once from the dispatcher's own state     *)
(*   run pause step reset enter leave   accepted at once, command posted   *)
(*                    (enter: one the recorder can serve, which stays at   *)
(*                    the live cycle; step: not step-cycle)                *)
(*   cpu              deferred, completed by the event with its token      *)
(*   list mach        deferred, completed by any event of the type         *)
(*   hist             deferred with a token, needs the runtime session     *)
(*   waitP waitR waitE  wait-paused, wait-running, wait-event paused       *)
(*   quit             answered on the socket thread, which then leaves     *)
(* The three queues of this port hold 32 or 256 items and do not fill      *)
(* within the bounds below; a full queue is the subject of ControlPlane.   *)
(***************************************************************************)
EXTENDS Integers, Sequences, FiniteSets

CONSTANTS
    Mixes,       \* what the clients and the machine may do in one behaviour:
                 \*   kinds  the request kinds the clients use
                 \*   req    requests sent in all
                 \*   conn   connections made in all
                 \*   hit    breakpoints the running machine meets
                 \*   late   session opens given up after two seconds
    MaxSessions  \* free slots of the runtime's session table

AllKinds == {"state", "run", "pause", "step", "reset", "enter", "leave", "cpu",
             "list", "mach", "hist", "waitP", "waitR", "waitE", "quit"}

ASSUME A2mControlAssumption ==
    /\ \A m \in Mixes : /\ m.kinds \subseteq AllKinds
                        /\ {m.req, m.conn, m.hit, m.late} \subseteq Nat
    /\ MaxSessions \in Nat

VARIABLES
    mix,       \* the member of Mixes this behaviour stays within
    sock,      \* where the socket thread is
    peer,      \* the client's end: "none", "open" or "gone"
    srv,       \* under the server's lock: [epoch, has, stopping]
    cur,       \* id of the request whose reply the socket thread waits for
    reqQ,      \* server->requests: [id, kind]
    respQ,     \* server->responses: [id, k, src], id 0 is an EVENT line
    main,      \* where the main thread is
    seen,      \* has_client and epoch as control_dispatch_check_session read them
    pump,      \* the session open in progress: [tok, ep, ret, hid]
    d,         \* the deferred entry
    disp,      \* machine_running, seen_paused, latch_paused and inspecting
    sess,      \* the bound session: [id, ep], id 0 when there is none
    wk,        \* the worker's machine: [run, insp]
    cmdQ,      \* commands to the worker: [op, tok, src]
    out,       \* events the worker has still to publish for one command
    evQ,       \* events to the main thread: [t, tok, src, on]
    slots,     \* session ids in use in the runtime, the default one left out
    count,     \* what the bounds count: [req, conn, hit, late]
    passes,    \* history: main loop passes ended since the last disconnect, up to
               \* 2, or Rushed
    taken      \* the last reply written: [asked, id, k]

sockVars == <<mix, sock, peer, srv, cur, reqQ>>
mainVars == <<main, seen, pump, d, disp, sess, passes>>
workVars == <<wk, cmdQ, out, slots>>
vars == <<mix, sock, peer, srv, cur, reqQ, respQ, main, seen, pump, d, disp, sess,
          wk, cmdQ, out, evQ, slots, count, passes, taken>>

None == 0
NoEntry == [on |-> FALSE, id |-> 0, kind |-> "none", tok |-> 0, ep |-> 0,
            expired |-> FALSE]
NoReply == [asked |-> 0, id |-> 0, k |-> "none"]
NoPump == [tok |-> 0, ep |-> 0, ret |-> "none", hid |-> 0]
Rushed == 3    \* some drain ended too early for the main loop

Elems(s) == {s[i] : i \in DOMAIN s}
Least(S) == CHOOSE n \in S : \A m \in S : n <= m

Init ==
    /\ mix \in Mixes
    /\ sock = "accept" /\ peer = "none" /\ cur = None
    /\ srv = [epoch |-> 0, has |-> FALSE, stopping |-> FALSE]
    /\ reqQ = <<>> /\ respQ = <<>> /\ cmdQ = <<>> /\ evQ = <<>> /\ out = <<>>
    /\ main = "events" /\ seen = [has |-> FALSE, ep |-> 0] /\ pump = NoPump
    /\ d = NoEntry /\ sess = [id |-> 0, ep |-> 0]
    /\ disp = [running |-> FALSE, paused |-> TRUE, latch |-> TRUE,
               insp |-> FALSE]
    /\ wk = [run |-> FALSE, insp |-> FALSE] /\ slots = {}
    /\ count = [req |-> 0, conn |-> 0, hit |-> 0, late |-> 0]
    /\ passes = 2 /\ taken = NoReply

Reply(id, k, src) == [id |-> id, k |-> k, src |-> src]
Event(t, tok, src, on) ==
    [t |-> t, tok |-> tok, src |-> src, on |-> on, insp |-> FALSE]
Command(op, tok, src) == [op |-> op, tok |-> tok, src |-> src]

-----------------------------------------------------------------------------
(* The client.                                                             *)

Connect ==
    /\ peer = "none" /\ count.conn < mix.conn /\ ~srv.stopping
    /\ peer' = "open" /\ count' = [count EXCEPT !.conn = @ + 1]
    /\ UNCHANGED <<mix, sock, srv, cur, reqQ, respQ, mainVars, workVars, evQ, taken>>

(* The client closes, or sends a byte while a reply is awaited, which the   *)
(* server treats alike.                                                     *)
Hangup ==
    /\ peer = "open"
    /\ peer' = "gone"
    /\ UNCHANGED <<mix, sock, srv, cur, reqQ, respQ, mainVars, workVars, evQ, count,
                   taken>>

-----------------------------------------------------------------------------
(* The socket thread.                                                       *)

(* accept, publish the connection and bump the epoch under the lock, drop   *)
(* orphaned replies, set has_client.                                        *)
Accept ==
    /\ sock = "accept" /\ peer # "none"
    /\ sock' = "begin"
    /\ srv' = [srv EXCEPT !.epoch = @ + 1]
    /\ UNCHANGED <<mix, peer, cur, reqQ, respQ, mainVars, workVars, evQ, count, taken>>

Begin ==
    /\ sock = "begin"
    /\ sock' = "read" /\ respQ' = <<>> /\ srv' = [srv EXCEPT !.has = TRUE]
    /\ UNCHANGED <<mix, peer, cur, reqQ, mainVars, workVars, evQ, count, taken>>

(* One request line read and queued for the main thread.                    *)
ReadRequest(k) ==
    /\ sock = "read" /\ peer = "open" /\ ~srv.stopping
    /\ k \in mix.kinds \ {"quit"} /\ count.req < mix.req
    /\ count' = [count EXCEPT !.req = @ + 1]
    /\ cur' = count.req + 1
    /\ reqQ' = Append(reqQ, [id |-> count.req + 1, kind |-> k])
    /\ sock' = "wait" /\ taken' = NoReply
    /\ UNCHANGED <<mix, peer, srv, respQ, mainVars, workVars, evQ>>

Taken(asked) == [asked |-> asked, id |-> Head(respQ).id, k |-> Head(respQ).k]

(* Between requests whatever is in the response queue is written out.       *)
FlushUnsolicited ==
    /\ sock = "read" /\ peer = "open" /\ respQ # <<>>
    /\ respQ' = Tail(respQ)
    /\ taken' = IF Head(respQ).id = 0 THEN taken ELSE Taken(None)
    /\ UNCHANGED <<sockVars, mainVars, workVars, evQ, count>>

NoteDisconnect ==
    /\ sock' = "drain" /\ cur' = None /\ taken' = NoReply
    /\ passes' = IF passes = Rushed THEN passes ELSE 0
    /\ srv' = [srv EXCEPT !.has = FALSE, !.epoch = @ + 1]

(* A read, a write or the peer test of the wait loop finds the peer gone;   *)
(* a failed write loses the reply that was popped for it.                   *)
PeerGone ==
    /\ peer = "gone"
    /\ \/ sock = "read"
       \/ sock = "wait"
    /\ respQ' = IF respQ = <<>> THEN respQ ELSE Tail(respQ)
    /\ NoteDisconnect
    /\ UNCHANGED <<mix, peer, reqQ, main, seen, pump, d, disp, sess, workVars, evQ,
                   count>>

(* quit-client, or the loop finds the server stopping.                      *)
Leave ==
    /\ \/ sock \in {"read", "wait"} /\ srv.stopping
       \/ sock = "read" /\ peer = "open" /\ "quit" \in mix.kinds
    /\ sock' = "close" /\ cur' = None /\ respQ' = <<>> /\ taken' = NoReply
    /\ srv' = [srv EXCEPT !.has = FALSE]
    /\ UNCHANGED <<mix, peer, reqQ, mainVars, workVars, evQ, count>>

(* The reply wait: an EVENT line is passed on, any other response is taken  *)
(* for the reply; its id is not compared.                                   *)
TakeReply ==
    /\ sock = "wait" /\ peer = "open" /\ respQ # <<>>
    /\ respQ' = Tail(respQ)
    /\ IF Head(respQ).id = 0
         THEN UNCHANGED <<mix, sock, cur, taken>>
         ELSE /\ sock' = "read" /\ cur' = None
              /\ taken' = Taken(cur)
    /\ UNCHANGED <<mix, peer, srv, reqQ, mainVars, workVars, evQ, count>>

(* 250 ms of dropping late replies, and once more at the end.               *)
DrainDiscard ==
    /\ sock = "drain" /\ respQ # <<>>
    /\ respQ' = <<>>
    /\ UNCHANGED <<sockVars, mainVars, workVars, evQ, count, taken>>

(* The drain waits for nobody: the main loop may still hold a request of    *)
(* the former client, as it does when it is in ensure_session's pump.       *)
Unserved == reqQ # <<>> \/ d.on
DrainEnd ==
    /\ sock = "drain"
    /\ sock' = "close" /\ respQ' = <<>>
    /\ passes' = IF passes < 2 /\ Unserved /\ ~srv.stopping THEN Rushed ELSE passes
    /\ UNCHANGED <<mix, peer, srv, cur, reqQ, main, seen, pump, d, disp, sess, workVars,
                   evQ, count, taken>>

Close ==
    /\ sock = "close"
    /\ sock' = "accept" /\ peer' = "none"
    /\ UNCHANGED <<mix, srv, cur, reqQ, respQ, mainVars, workVars, evQ, count, taken>>

(* stop closed the listener, or the loop finds the server stopping.         *)
AcceptStopped ==
    /\ sock = "accept" /\ srv.stopping
    /\ sock' = "stopped"
    /\ UNCHANGED <<mix, peer, srv, cur, reqQ, respQ, mainVars, workVars, evQ, count,
                   taken>>

Socket == \/ Accept \/ Begin \/ FlushUnsolicited \/ PeerGone \/ TakeReply
          \/ DrainDiscard \/ DrainEnd \/ Close \/ AcceptStopped

-----------------------------------------------------------------------------
(* The worker: one command is taken, its events are then published one by   *)
(* one. Events that no code here looks at are left out.                     *)

StateChanged == Event("sc", 0, 0, FALSE)
Machine(src, on, insp) == [Event("mach", 0, src, on) EXCEPT !.insp = insp]
Plain(t) == Event(t, 0, 0, FALSE)

(* runtime_session_allocate takes any free slot under a new id.             *)
ClosingIds(q) == {q[i].src : i \in {j \in DOMAIN q : q[j].op = "close"}}
GrantedIds(q) == {q[i].src : i \in {j \in DOMAIN q : q[j].t = "sess"}}
FreshSession ==
    Least((1..(MaxSessions + Len(cmdQ) + Len(evQ) + 1)) \
            (slots \cup {sess.id} \cup ClosingIds(cmdQ) \cup GrantedIds(evQ)))

Resulting(c, session) ==
    CASE c.op = "run" ->
           IF wk.insp THEN <<StateChanged>> ELSE <<StateChanged, Plain("running")>>
      [] c.op = "pause" ->
           IF wk.run THEN <<Machine(0, FALSE, wk.insp), Plain("paused"), StateChanged>> ELSE <<>>
      [] c.op = "step" ->
           IF wk.run \/ wk.insp THEN <<StateChanged>>
           ELSE <<StateChanged, Plain("stepc"), Plain("paused")>>
      [] c.op = "reset" ->
           IF wk.insp THEN <<>>
           ELSE <<StateChanged, Machine(0, wk.run, FALSE),
                  Plain(IF wk.run THEN "running" ELSE "paused")>>
      [] c.op = "enter" ->
           (IF wk.run THEN <<Machine(0, FALSE, FALSE), Plain("paused")>> ELSE <<>>)
             \o <<Machine(0, FALSE, TRUE), StateChanged, Event("imode", 0, 0, TRUE)>>
      [] c.op = "leave" ->
           <<Machine(0, wk.run, FALSE), StateChanged, Event("imode", 0, 0, FALSE)>>
      [] c.op = "cpu" -> <<Event("cpu", c.tok, c.src, FALSE)>>
      [] c.op = "hist" -> <<Event("hist", c.tok, c.src, FALSE)>>
      [] c.op = "list" -> <<Event("brk", 0, c.src, FALSE)>>
      [] c.op = "mach" -> <<Machine(c.src, wk.run, wk.insp)>>
      [] c.op = "open" -> <<Event("sess", c.tok, session, session # 0)>>
      [] c.op = "close" -> <<>>

WorkerTake ==
    /\ out = <<>> /\ cmdQ # <<>>
    /\ LET c == Head(cmdQ)
           session == IF Cardinality(slots) < MaxSessions THEN FreshSession ELSE 0
       IN /\ out' = Resulting(c, session)
          /\ wk' = CASE c.op = "run" -> [wk EXCEPT !.run = ~wk.insp]
                     [] c.op = "pause" -> [wk EXCEPT !.run = FALSE]
                     [] c.op = "enter" -> [run |-> FALSE, insp |-> TRUE]
                     [] c.op = "leave" -> [wk EXCEPT !.insp = FALSE]
                     [] OTHER -> wk
          /\ slots' = CASE c.op = "open" /\ session # 0 -> slots \cup {session}
                        [] c.op = "close" -> slots \ {c.src}
                        [] OTHER -> slots
    /\ cmdQ' = Tail(cmdQ)
    /\ UNCHANGED <<sockVars, respQ, mainVars, evQ, count, taken>>

(* runtime_pause_for_breakpoint.                                            *)
BreakpointHit ==
    /\ wk.run /\ out = <<>> /\ count.hit < mix.hit
    /\ wk' = [wk EXCEPT !.run = FALSE]
    /\ out' = <<Machine(0, FALSE, wk.insp), Plain("paused"), Plain("brk")>>
    /\ count' = [count EXCEPT !.hit = @ + 1]
    /\ UNCHANGED <<sockVars, respQ, mainVars, cmdQ, slots, evQ, taken>>

Publish ==
    /\ out # <<>>
    /\ evQ' = Append(evQ, Head(out)) /\ out' = Tail(out)
    /\ UNCHANGED <<sockVars, respQ, mainVars, wk, cmdQ, slots, count, taken>>

Worker == WorkerTake \/ Publish
-----------------------------------------------------------------------------
(* The dispatcher: events.                                                  *)

Stopping == {"paused", "stepc"}

(* Mutant: RUNNING events do not update the mirror.                          *)
MirrorWithoutRunning(e) ==
    CASE e.t = "mach" -> [disp EXCEPT !.running = @ /\ e.on, !.paused = @ \/ ~e.on,
                                      !.insp = e.insp]
      [] e.t \in Stopping -> [disp EXCEPT !.running = FALSE, !.paused = TRUE,
                                          !.latch = TRUE]
      [] e.t = "imode" -> [disp EXCEPT !.insp = e.on]
      [] OTHER -> disp

(* The mirror and the latches that every event updates.                     *)
Mirror(e) ==
    CASE e.t = "running" -> [disp EXCEPT !.running = TRUE, !.paused = FALSE]
      [] e.t = "mach" -> [disp EXCEPT !.running = @ /\ e.on, !.paused = @ \/ ~e.on,
                                      !.insp = e.insp]
      [] e.t \in Stopping -> [disp EXCEPT !.running = FALSE, !.paused = TRUE,
                                          !.latch = TRUE]
      [] e.t = "imode" -> [disp EXCEPT !.insp = e.on]
      [] OTHER -> disp

(* Mutant: tokens are not compared.                                          *)
CompletesAnyToken(e) ==
    /\ d.on
    /\ \/ d.kind = "waitP" /\ e.t \in Stopping
       \/ d.kind = "waitR" /\ e.t = "running"
       \/ d.kind = "waitE" /\ e.t = "paused"
       \/ d.kind = "list" /\ e.t = "brk"
       \/ d.kind = "mach" /\ e.t = "mach"
       \/ d.kind \in {"cpu", "hist"} /\ e.t = d.kind

Completes(e) ==
    /\ d.on
    /\ \/ d.kind = "waitP" /\ e.t \in Stopping
       \/ d.kind = "waitR" /\ e.t = "running"
       \/ d.kind = "waitE" /\ e.t = "paused"
       \/ d.kind = "list" /\ e.t = "brk"
       \/ d.kind = "mach" /\ e.t = "mach"
       \/ d.kind \in {"cpu", "hist"} /\ e.t = d.kind /\ e.tok = d.tok

(* control_dispatch_on_runtime_event.                                       *)
OnRuntimeEvent(e) ==
    LET m == Mirror(e) IN
    IF Completes(e)
      THEN /\ respQ' = Append(respQ, Reply(d.id, d.kind, e.src))
           /\ disp' = IF d.kind \in {"waitP", "waitE"}
                        THEN [m EXCEPT !.latch = FALSE,
                                       !.paused = @ /\ d.kind # "waitP"]
                        ELSE m
           /\ d' = NoEntry
      ELSE /\ respQ' = IF e.t = "sc" THEN Append(respQ, Reply(0, "event", 0))
                       ELSE respQ
           /\ disp' = m
           /\ UNCHANGED d

DrainEvent ==
    /\ main = "events" /\ evQ # <<>>
    /\ evQ' = Tail(evQ)
    /\ OnRuntimeEvent(Head(evQ))
    /\ UNCHANGED <<sockVars, main, seen, pump, sess, passes, workVars, count,
                   taken>>

-----------------------------------------------------------------------------
(* The dispatcher: requests.                                                *)

TokensInUse == {c.tok : c \in Elems(cmdQ)} \cup {e.tok : e \in Elems(evQ)}
                 \cup {e.tok : e \in Elems(out)} \cup {d.tok, pump.tok}
FreshTokens == (1..(Len(cmdQ) + Len(evQ) + Len(out) + 4)) \ TokensInUse
FreshToken == Least(FreshTokens)

(* begin_deferred: the entry takes the epoch of this moment.                *)
Entry(r, tok) == [on |-> TRUE, id |-> r.id, kind |-> r.kind, tok |-> tok,
                  ep |-> srv.epoch, expired |-> FALSE]

Forbidden == {"reset"}
Accepted == {"state", "run", "pause", "step", "reset", "enter", "leave"}
Latching == {"run", "pause", "step", "reset"}

Answer(r, k) ==
    /\ respQ' = Append(respQ, Reply(r.id, k, r.id))
    /\ UNCHANGED <<d, pump>>

Busy(r) == d.on /\ Answer(r, "busy") /\ UNCHANGED <<disp, cmdQ>>

(* get-state and its like are answered at once; reset, run, pause, step,    *)
(* enter and leave are accepted at once and posted to the worker.           *)
HandleAccepted(r) ==
    /\ r.kind \in Accepted
    /\ IF disp.insp /\ r.kind \in Forbidden
         THEN Answer(r, "read-only") /\ UNCHANGED <<disp, cmdQ>>
         ELSE /\ Answer(r, "accepted")
              /\ cmdQ' = IF r.kind = "state" THEN cmdQ
                         ELSE Append(cmdQ, Command(r.kind, 0, r.id))
              /\ disp' =
                   LET cleared == IF r.kind \in Latching
                                    THEN [disp EXCEPT !.latch = FALSE] ELSE disp
                   IN IF r.kind = "run"
                        THEN [cleared EXCEPT !.running = TRUE, !.paused = FALSE]
                        ELSE cleared

(* get-cpu and its like: token, deferred entry, command.                    *)
HandleDeferred(r) ==
    /\ r.kind \in {"cpu", "list", "mach"}
    /\ \/ Busy(r)
       \/ LET tok == IF r.kind = "cpu" THEN FreshToken ELSE 0
          IN /\ ~d.on
             /\ d' = Entry(r, tok)
             /\ cmdQ' = Append(cmdQ, Command(r.kind, tok, r.id))
             /\ UNCHANGED <<respQ, disp, pump>>

(* wait-paused, wait-running and wait-event look at the mirror first.       *)
HandleWait(r) ==
    LET ready == CASE r.kind = "waitP" -> disp.paused /\ ~disp.running
                   [] r.kind = "waitR" -> disp.running
                   [] r.kind = "waitE" -> disp.latch
    IN
    /\ r.kind \in {"waitP", "waitR", "waitE"}
    /\ \/ /\ ready
          /\ Answer(r, r.kind)
          /\ disp' = IF r.kind = "waitR" THEN disp
                     ELSE [disp EXCEPT !.latch = FALSE,
                                       !.paused = @ /\ r.kind # "waitP"]
          /\ UNCHANGED cmdQ
       \/ ~ready /\ Busy(r)
       \/ /\ ~ready /\ ~d.on
          /\ d' = Entry(r, 0)
          /\ UNCHANGED <<respQ, disp, cmdQ, pump>>

(* control_dispatch_ensure_session, entered from point `at' of the main     *)
(* loop: without a session for this epoch one is asked for and events are   *)
(* pumped until it is granted.                                              *)
Bound == sess.id # 0 /\ sess.ep = srv.epoch
NeedsOpen == srv.has /\ ~Bound
ReleaseCommands == IF sess.id = 0 THEN <<>> ELSE <<Command("close", 0, sess.id)>>

(* control_dispatch_poll, once when the events are drained and again after  *)
(* check_session if nothing is deferred then.                               *)
PollPoint(at) == IF at = "events" THEN evQ = <<>> ELSE ~d.on
After(at) == IF at = "events" THEN "check" ELSE "events"

Poll(at) ==
    /\ main = at /\ PollPoint(at) /\ reqQ # <<>>
    /\ reqQ' = Tail(reqQ)
    /\ LET r == Head(reqQ) IN
       \/ /\ HandleAccepted(r) \/ HandleDeferred(r) \/ HandleWait(r)
          /\ main' = After(at)
          /\ UNCHANGED sess
       \/ /\ r.kind = "hist" /\ Busy(r)
          /\ main' = After(at)
          /\ UNCHANGED sess
       \/ /\ r.kind = "hist" /\ ~d.on
          /\ d' = Entry(r, FreshToken)
          /\ UNCHANGED <<respQ, disp>>
          /\ IF NeedsOpen
               THEN LET tok == Least(FreshTokens \ {FreshToken}) IN
                    /\ cmdQ' = cmdQ \o ReleaseCommands
                                 \o <<Command("open", tok, 0)>>
                    /\ sess' = [id |-> 0, ep |-> 0]
                    /\ pump' = [tok |-> tok, ep |-> srv.epoch, ret |-> at,
                                hid |-> r.id]
                    /\ main' = "pump"
               ELSE /\ cmdQ' = Append(cmdQ, Command("hist", FreshToken, r.id))
                    /\ main' = After(at)
                    /\ UNCHANGED <<sess, pump>>
    /\ passes' = IF at = "poll2" /\ passes < 2 THEN passes + 1 ELSE passes
    /\ UNCHANGED <<mix, sock, peer, srv, cur, seen, wk, out, slots, evQ, count, taken>>

PollNothing(at) ==
    /\ main = at
    /\ \/ PollPoint(at) /\ reqQ = <<>>
       \/ at = "poll2" /\ d.on
    /\ main' = After(at)
    /\ passes' = IF at = "poll2" /\ passes < 2 THEN passes + 1 ELSE passes
    /\ UNCHANGED <<sockVars, respQ, seen, pump, d, disp, sess, workVars, evQ,
                   count, taken>>

(* control_dispatch_check_session reads has_client, then the epoch, each    *)
(* under the lock; gives back the session of a former connection; binds     *)
(* one for the present; and looks at the deferred entry last.               *)
CheckHasClient ==
    /\ main = "check"
    /\ seen' = [seen EXCEPT !.has = srv.has] /\ main' = "bind"
    /\ UNCHANGED <<sockVars, respQ, pump, d, disp, sess, passes, workVars, evQ,
                   count, taken>>

(* Mutant: the session of a former connection is forgotten, not closed.      *)
CheckBindForget ==
    LET release == sess.id # 0 /\ (~seen.has \/ sess.ep # srv.epoch)
        open == seen.has /\ (release \/ sess.id = 0) /\ srv.has
    IN
    /\ main = "bind"
    /\ seen' = [seen EXCEPT !.ep = srv.epoch]
    /\ sess' = IF release THEN [id |-> 0, ep |-> 0] ELSE sess
    /\ IF open
         THEN /\ cmdQ' = Append(cmdQ, Command("open", FreshToken, 0))
              /\ pump' = [tok |-> FreshToken, ep |-> srv.epoch, ret |-> "bind",
                          hid |-> 0]
              /\ main' = "pump"
         ELSE UNCHANGED <<cmdQ, pump>> /\ main' = "deadline"
    /\ UNCHANGED <<sockVars, respQ, d, disp, passes, wk, out, slots, evQ, count,
                   taken>>

CheckBind ==
    LET release == sess.id # 0 /\ (~seen.has \/ sess.ep # srv.epoch)
        closing == IF release THEN <<Command("close", 0, sess.id)>> ELSE <<>>
        open == seen.has /\ (release \/ sess.id = 0) /\ srv.has
        tok == FreshToken
    IN
    /\ main = "bind"
    /\ seen' = [seen EXCEPT !.ep = srv.epoch]
    /\ sess' = IF release THEN [id |-> 0, ep |-> 0] ELSE sess
    /\ IF open
         THEN /\ cmdQ' = cmdQ \o closing \o <<Command("open", tok, 0)>>
              /\ pump' = [tok |-> tok, ep |-> srv.epoch, ret |-> "bind", hid |-> 0]
              /\ main' = "pump"
         ELSE cmdQ' = cmdQ \o closing /\ UNCHANGED pump /\ main' = "deadline"
    /\ UNCHANGED <<sockVars, respQ, d, disp, passes, wk, out, slots, evQ, count,
                   taken>>

(* Back from ensure_session: history-find sends its command, check_session  *)
(* goes on to the deferred entry.                                           *)
PumpReturn(entry) ==
    /\ pump' = NoPump
    /\ IF pump.ret = "bind"
         THEN main' = "deadline" /\ UNCHANGED cmdQ
         ELSE /\ main' = After(pump.ret)
              /\ cmdQ' = Append(cmdQ, Command("hist", entry.tok, pump.hid))

PumpEvent ==
    LET e == Head(evQ) IN
    /\ main = "pump" /\ evQ # <<>>
    /\ evQ' = Tail(evQ)
    /\ IF e.t = "sess" /\ e.tok = pump.tok
         THEN /\ sess' = IF e.on THEN [id |-> e.src, ep |-> pump.ep] ELSE sess
              /\ PumpReturn(d)
              /\ UNCHANGED <<respQ, disp, d>>
         ELSE /\ OnRuntimeEvent(e)
              /\ UNCHANGED <<sess, pump, main, cmdQ>>
    /\ UNCHANGED <<sockVars, seen, passes, wk, out, slots, count, taken>>

PumpTimeout ==
    /\ main = "pump" /\ count.late < mix.late
    /\ count' = [count EXCEPT !.late = @ + 1]
    /\ PumpReturn(d)
    /\ UNCHANGED <<sockVars, respQ, seen, d, disp, sess, passes, wk, out, slots,
                   evQ, taken>>

(* The last part of check_session: an entry of a former connection is       *)
(* dropped, one past its deadline answered with a timeout.                  *)
CheckDeadlineWith(former, late, cleared, posted) ==
    /\ main = "deadline"
    /\ main' = "poll2" /\ seen' = [has |-> FALSE, ep |-> 0]
    /\ IF former
         THEN d' = cleared /\ UNCHANGED respQ
         ELSE IF late THEN respQ' = posted /\ d' = cleared
                ELSE UNCHANGED <<d, respQ>>
    /\ UNCHANGED <<sockVars, pump, disp, sess, passes, workVars, evQ, count, taken>>

FormerEntry == d.on /\ (~seen.has \/ d.ep # seen.ep)
LateEntry == d.on /\ d.expired
TimeoutPosted == Append(respQ, Reply(d.id, "timeout", d.id))

(* Mutants: an entry of a former connection is kept; the entry's flag alone  *)
(* is cleared; the entry is dropped at its deadline without an answer.       *)
CheckDeadlineKeepsFormer == CheckDeadlineWith(FALSE, LateEntry, NoEntry, TimeoutPosted)
CheckDeadlineFlagOnly ==
    CheckDeadlineWith(FormerEntry, LateEntry, [d EXCEPT !.on = FALSE], TimeoutPosted)
CheckDeadlineSilent == CheckDeadlineWith(FormerEntry, LateEntry, NoEntry, respQ)

CheckDeadline == CheckDeadlineWith(FormerEntry, LateEntry, NoEntry, TimeoutPosted)

(* Time passes an entry's deadline.                                         *)
Expire ==
    /\ d.on /\ ~d.expired
    /\ d' = [d EXCEPT !.expired = TRUE]
    /\ UNCHANGED <<sockVars, respQ, main, seen, pump, disp, sess, passes,
                   workVars, evQ, count, taken>>

(* The main loop ends: control_dispatch_shutdown, then control_server_stop  *)
(* flags the server, closes the published connection and joins.             *)
Quit ==
    /\ main = "events"
    /\ main' = "stop" /\ d' = NoEntry /\ sess' = [id |-> 0, ep |-> 0]
    /\ cmdQ' = cmdQ \o ReleaseCommands
    /\ UNCHANGED <<sockVars, respQ, seen, pump, disp, passes, wk, out, slots, evQ,
                   count, taken>>

Stop ==
    /\ main = "stop"
    /\ main' = "join"
    /\ srv' = [srv EXCEPT !.stopping = TRUE]
    /\ peer' = IF sock # "accept" /\ peer = "open" THEN "gone" ELSE peer
    /\ UNCHANGED <<mix, sock, cur, reqQ, respQ, seen, pump, d, disp, sess, passes,
                   workVars, evQ, count, taken>>

Join ==
    /\ main = "join" /\ sock = "stopped"
    /\ main' = "end"
    /\ reqQ' = <<>> /\ respQ' = <<>>
    /\ UNCHANGED <<mix, sock, peer, srv, cur, seen, pump, d, disp, sess, passes,
                   workVars, evQ, count, taken>>

Main == \/ DrainEvent \/ CheckHasClient \/ CheckBind \/ PumpEvent
        \/ CheckDeadline \/ Stop \/ Join
        \/ \E at \in {"events", "poll2"} : Poll(at) \/ PollNothing(at)

Ended == main = "end" /\ UNCHANGED vars

Next == \/ Connect \/ Hangup \/ Leave \/ \E k \in mix.kinds : ReadRequest(k)
        \/ Socket \/ Worker \/ BreakpointHit
        \/ Main \/ PumpTimeout \/ Expire \/ Quit \/ Ended

(* Each thread keeps running and time passes; nothing is assumed of the     *)
(* client, of the emulated program or of the user. The loop of the socket   *)
(* thread tests the stop flag every 50 ms.                                  *)
Fairness == /\ WF_vars(Socket) /\ WF_vars(Worker) /\ WF_vars(Main)
            /\ WF_vars(Expire) /\ WF_vars(Leave /\ srv.stopping)

Spec == Init /\ [][Next]_vars /\ Fairness
-----------------------------------------------------------------------------
Replies == [id : 0..mix.req, src : 0..mix.req,
            k : AllKinds \cup {"event", "accepted", "busy", "read-only", "timeout"}]

(* The state is of its type; the response queue in particular holds replies  *)
(* that control_dispatch.c can build.                                        *)
TypeOK ==
    /\ sock \in {"accept", "begin", "read", "wait", "drain", "close", "stopped"}
    /\ peer \in {"none", "open", "gone"} /\ cur \in 0..mix.req
    /\ srv \in [epoch : Nat, has : BOOLEAN, stopping : BOOLEAN]
    /\ reqQ \in Seq([id : 1..mix.req, kind : AllKinds \ {"quit"}])
    /\ respQ \in Seq(Replies)
    /\ main \in {"events", "check", "bind", "pump", "deadline", "poll2",
                 "stop", "join", "end"}
    /\ d \in [on : BOOLEAN, id : 0..mix.req, kind : AllKinds \cup {"none"},
              tok : Nat, ep : Nat, expired : BOOLEAN]
    /\ d.on <=> d # NoEntry
    /\ disp \in [running : BOOLEAN, paused : BOOLEAN, latch : BOOLEAN, insp : BOOLEAN]
    /\ sess.id \in Nat
    /\ Cardinality(slots) <= MaxSessions
    /\ passes \in 0..3

(* A reply written to a client answers the request that client waits for,   *)
(* and no request is refused for an entry that a former client left behind:  *)
(* neither a timeout racing its event nor a disconnect with the request      *)
(* queued, deferred or completed upsets the lock step of control_server.c,   *)
(* which compares no ids. It does not hold once a drain has ended with a     *)
(* request of its client unserved, before the main loop made two passes: the *)
(* 250 ms of the drain do not cover the two seconds the main loop may spend  *)
(* in ensure_session, and such a request is then answered to the next client.*)
OwnReply == passes # Rushed => taken.asked = taken.id /\ taken.k # "busy"

(* The data of a tokened reply was produced for that very request, never     *)
(* for an earlier one that timed out or lost its client.                     *)
TokenedDataFresh ==
    \A i \in DOMAIN respQ : respQ[i].k \in {"cpu", "hist"} => respQ[i].src = respQ[i].id

(* A slot of the runtime's session table is the dispatcher's, on its way to  *)
(* it, or on its way back; otherwise it was lost, and every lost one is an   *)
(* open that control_dispatch_ensure_session gave up on.                     *)
SessionsAccounted ==
    LET coming == {e.src : e \in {x \in Elems(out) \cup Elems(evQ) :
                                    x.t = "sess" /\ x.tok = pump.tok}}
    IN Cardinality(slots \ ({sess.id} \cup ClosingIds(cmdQ) \cup coming))
         <= count.late

(* When nothing is under way the state that get-state reports is the         *)
(* machine's: a stop, a run and a step accepted in quick succession, with    *)
(* their events still queued, leave no lasting error. While inspecting it    *)
(* may be wrong, since a refused run is reported as running.                 *)
MirrorCoherent ==
    (cmdQ = <<>> /\ out = <<>> /\ evQ = <<>> /\ ~wk.insp)
      => disp.running = wk.run /\ ~disp.insp

(* A client that waits for a reply has its request queued, its entry in the   *)
(* table with a deadline running, or its reply queued, unless the program is  *)
(* ending: no race of a timeout, a disconnect of a former client and an event *)
(* takes the last of these away, which would wedge the port.                  *)
WaitHasAnswer ==
    sock = "wait" /\ main \notin {"stop", "join", "end"}
      => \/ \E i \in DOMAIN reqQ : reqQ[i].id = cur
         \/ d.on /\ d.id = cur
         \/ \E i \in DOMAIN respQ : respQ[i].id = cur
=============================================================================
