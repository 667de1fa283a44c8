------------------------- MODULE ControlPlane_proofs -------------------------
(***************************************************************************)
(* The c64m control port for every number of clients, requests and slots,  *)
(* and every depth of its queues: the bounds of its tables, that a request *)
(* is answered at most once, that a completion finds the payload it        *)
(* announces, and when a request of a served client can be forgotten.      *)
(***************************************************************************)
EXTENDS ControlPlane, FiniteSetTheorems, WellFoundedInduction, TLAPS

(* Types.                                                                  *)

\* The tables are finite; main looks at a slot that exists; a connection that
\* is being set up or served has an epoch within its bound.
Tables ==
  /\ IsFiniteSet(outstanding) /\ IsFiniteSet(pool) /\ m_slot \in Slots
  /\ s_pc = "publish" => connection_epoch < MaxConnections
  /\ s_pc \in {"flush", "read", "drain", "close"} => connection_epoch # 0

\* Tokens are only spent on requests that were dispatched, and a bulk command
\* carries one.
Budget ==
  /\ next_request_token + Len(requests) <= Len(asked)
  /\ \A i \in DOMAIN commands : commands[i].type \in Bulk => commands[i].token # 0
  /\ w_pc # "idle" => w_payload \in Payload

TInv == TypeOK /\ Tables /\ Budget

LEMMA InitTInv == Init => TInv
<1> SUFFICES ASSUME Init PROVE TInv
  OBVIOUS
<1>1. IsFiniteSet({}) /\ Cardinality({}) = 0
  BY FS_EmptySet
<1>2. /\ connected \in BOOLEAN /\ read_closed \in BOOLEAN
      /\ stopping \in BOOLEAN /\ hungup \in BOOLEAN
  BY DEF Init
<1>3. TypeOK
  BY <1>1, <1>2, BoundsAssumption DEF Init, TypeOK, Tokens, Slots
<1>4. Tables /\ Budget
  BY <1>1, BoundsAssumption DEF Init, Tables, Budget, Slots
<1> QED BY <1>3, <1>4 DEF TInv

\* A push leaves a queue within its capacity.
LEMMA PushedType ==
  ASSUME NEW S, NEW q \in Seq(S), NEW c \in Nat, Len(q) <= c, NEW x \in S
  PROVE  Pushed(q, c, x) \in Seq(S) /\ Len(Pushed(q, c, x)) <= c
BY DEF Pushed

LEMMA TailType ==
  ASSUME NEW S, NEW q \in Seq(S), q # <<>>
  PROVE  /\ Tail(q) \in Seq(S) /\ Len(Tail(q)) = Len(q) - 1 /\ Len(q) \in Nat \ {0}
         /\ Head(q) \in S /\ Head(q) = q[1] /\ DOMAIN q = 1 .. Len(q)
         /\ DOMAIN Tail(q) = 1 .. Len(q) - 1
         /\ \A i \in 1 .. Len(q) - 1 : Tail(q)[i] = q[i + 1]
OBVIOUS

\* The socket thread's steps that move neither requests nor answers.
LEMMA SocketIdleTInv ==
  ASSUME TInv, Accept \/ FlushDone \/ ReadRejected \/ ReadHangup \/ ReadNothing
               \/ DrainDeadline \/ Hangup
  PROVE  TInv'
<1> USE DEF TInv
<1>1. UNCHANGED <<connection_epoch, connected, outstanding, stopping, requests, responses,
                  mainVars, commands, events, pool, workerVars, asked, written>>
  BY DEF Accept, FlushDone, ReadRejected, ReadHangup, ReadNothing, DrainDeadline, Hangup
<1>2. /\ s_pc' \in {"accept", "publish", "flush", "read", "drain", "close", "done"}
      /\ s_pc' = "publish" => connection_epoch < MaxConnections \/ s_pc = "publish"
      /\ s_pc' \in {"flush", "read", "drain", "close"} => s_pc \in {"flush", "read", "drain", "close"}
  BY DEF Accept, FlushDone, ReadRejected, ReadHangup, ReadNothing, DrainDeadline, Hangup,
         LoopAgain, TypeOK
<1>3. read_closed' \in BOOLEAN /\ hungup' \in BOOLEAN
  BY DEF Accept, FlushDone, ReadRejected, ReadHangup, ReadNothing, DrainDeadline, Hangup, TypeOK
<1>4. TypeOK'
  BY <1>1, <1>2, <1>3 DEF TypeOK, mainVars, workerVars
<1>5. Tables' /\ Budget'
  BY <1>1, <1>2 DEF Tables, Budget, mainVars, workerVars
<1> QED BY <1>4, <1>5

LEMMA PublishTInv == ASSUME TInv, Publish PROVE TInv'
<1> USE DEF TInv
<1>1. IsFiniteSet({}) /\ Cardinality({}) = 0
  BY FS_EmptySet
<1>2. connected' \in BOOLEAN /\ read_closed' \in BOOLEAN
  BY DEF Publish
<1>3. connection_epoch' \in 0 .. MaxConnections /\ connection_epoch' # 0
  BY BoundsAssumption DEF Publish, TypeOK, Tables
<1>4. TypeOK'
  BY <1>1, <1>2, <1>3, BoundsAssumption DEF Publish, TypeOK, mainVars, workerVars
<1>5. Tables' /\ Budget'
  BY <1>1, <1>3 DEF Publish, Tables, Budget, mainVars, workerVars
<1> QED BY <1>4, <1>5

LEMMA FlushTInv == ASSUME TInv, Flush PROVE TInv'
<1> USE DEF TInv
<1> DEFINE r == Head(responses)
<1>1. /\ responses' \in Seq(Response) /\ Len(responses') <= ControlQueue /\ r \in Response
      /\ outstanding' = outstanding \ {r.id}
  BY TailType, BoundsAssumption DEF Flush, TypeOK
<1>2. /\ outstanding' \subseteq Ids /\ IsFiniteSet(outstanding')
      /\ Cardinality(outstanding') <= DeferredCapacity
  <2>1. IsFiniteSet(outstanding') /\ Cardinality(outstanding') <= Cardinality(outstanding)
        /\ Cardinality(outstanding') \in Nat /\ Cardinality(outstanding) \in Nat
    BY <1>1, FS_Subset, FS_CardinalityType DEF Tables
  <2> QED BY <1>1, <2>1, BoundsAssumption DEF TypeOK
<1>3. written' \subseteq RequestNumbers \X (1 .. MaxConnections)
  <2>1. connection_epoch \in 1 .. MaxConnections
    BY BoundsAssumption DEF TypeOK, Tables, Flush
  <2>2. CASE r.kind = "event"
    BY <2>2 DEF Flush, TypeOK
  <2>3. CASE r.kind # "event"
    <3>1. r.n \in RequestNumbers
      BY <1>1, <2>3 DEF Response, EventLine
    <3> QED BY <2>1, <3>1 DEF Flush, TypeOK
  <2> QED BY <2>2, <2>3
<1>4. s_pc' \in {"drain", "flush"} /\ s_pc = "flush"
  BY DEF Flush
<1>5. TypeOK'
  BY <1>1, <1>2, <1>3, <1>4 DEF Flush, TypeOK, mainVars, workerVars
<1>6. Tables' /\ Budget'
  BY <1>2, <1>4 DEF Flush, Tables, Budget, mainVars, workerVars
<1> QED BY <1>5, <1>6

LEMMA ReadRequestTInv == ASSUME TInv, ReadRequest PROVE TInv'
<1> USE DEF TInv
<1>1. PICK id \in Ids \ outstanding, kind \in Kinds :
        /\ requests' = Append(requests, [n |-> Len(asked) + 1, id |-> id, kind |-> kind])
        /\ outstanding' = outstanding \cup {id}
        /\ asked' = Append(asked, [conn |-> connection_epoch, id |-> id])
  BY DEF ReadRequest
<1>2. Len(asked) \in Nat /\ Len(asked) < MaxRequests /\ Len(requests) \in Nat
      /\ Len(requests) < ControlQueue
  BY DEF ReadRequest, TypeOK
<1>3. /\ requests' \in Seq(Request) /\ Len(requests') = Len(requests) + 1
      /\ Len(requests') <= ControlQueue
  <2>1. [n |-> Len(asked) + 1, id |-> id, kind |-> kind] \in Request
    BY <1>2, BoundsAssumption DEF Request, RequestNumbers
  <2> QED BY <1>1, <1>2, <2>1, BoundsAssumption DEF TypeOK
<1>4. connection_epoch \in 1 .. MaxConnections
  BY BoundsAssumption DEF TypeOK, Tables, ReadRequest
<1>5. /\ asked' \in Seq([conn : 1 .. MaxConnections, id : Ids]) /\ Len(asked') = Len(asked) + 1
      /\ Len(asked') <= MaxRequests
  BY <1>1, <1>2, <1>4, BoundsAssumption DEF TypeOK
<1>6. /\ outstanding' \subseteq Ids /\ IsFiniteSet(outstanding')
      /\ Cardinality(outstanding') <= DeferredCapacity
  <2>1. Cardinality(outstanding) < DeferredCapacity /\ Cardinality(outstanding) \in Nat
    BY FS_CardinalityType DEF ReadRequest, MayRead, Tables
  <2>2. IsFiniteSet(outstanding') /\ Cardinality(outstanding') = Cardinality(outstanding) + 1
    BY <1>1, FS_AddElement DEF Tables
  <2>3. outstanding' \subseteq Ids
    BY <1>1 DEF TypeOK
  <2>4. DeferredCapacity \in Nat
    BY BoundsAssumption
  <2> QED BY <2>1, <2>2, <2>3, <2>4
<1>7. s_pc' \in {"drain", "flush"} /\ s_pc = "read"
  BY DEF ReadRequest, LoopAgain
<1>8. TypeOK'
  BY <1>3, <1>5, <1>6, <1>7 DEF ReadRequest, TypeOK, mainVars, workerVars
<1>9. Tables' /\ Budget'
  <2>1. next_request_token' + Len(requests') <= Len(asked')
    <3>1. next_request_token' = next_request_token /\ next_request_token \in Nat
      BY BoundsAssumption DEF ReadRequest, mainVars, TypeOK, Tokens
    <3>2. next_request_token + Len(requests) <= Len(asked)
      BY DEF Budget
    <3>3. Len(requests) \in Nat /\ Len(asked) \in Nat
      BY DEF TypeOK
    <3> QED BY <1>2, <1>3, <1>5, <3>1, <3>2, <3>3
  <2> QED BY <2>1, <1>6, <1>7 DEF ReadRequest, Tables, Budget, mainVars, workerVars
<1> QED BY <1>8, <1>9

LEMMA DrainTInv == ASSUME TInv, Drain PROVE TInv'
<1> USE DEF TInv
<1>1. responses' \in Seq(Response) /\ Len(responses') <= ControlQueue
  BY BoundsAssumption DEF Drain
<1>2. TypeOK'
  BY <1>1 DEF Drain, TypeOK, mainVars, workerVars
<1>3. Tables' /\ Budget'
  BY DEF Drain, Tables, Budget, mainVars, workerVars
<1> QED BY <1>2, <1>3

LEMMA CloseTInv == ASSUME TInv, Close PROVE TInv'
<1> USE DEF TInv
<1>1. IsFiniteSet({}) /\ Cardinality({}) = 0
  BY FS_EmptySet
<1>2. connected' \in BOOLEAN /\ read_closed' \in BOOLEAN /\ hungup' \in BOOLEAN
  BY DEF Close
<1>3. TypeOK'
  BY <1>1, <1>2, BoundsAssumption DEF Close, TypeOK, mainVars, workerVars
<1>4. Tables' /\ Budget'
  BY <1>1 DEF Close, Tables, Budget, mainVars, workerVars
<1> QED BY <1>3, <1>4

LEMMA PostType ==
  ASSUME TypeOK, NEW r \in Response, Post(r)
  PROVE  responses' \in Seq(Response) /\ Len(responses') <= ControlQueue
BY PushedType, BoundsAssumption DEF TypeOK, Post

\* The answer to the request an entry waits for, or to a queued one.
LEMMA ReplyType ==
  /\ TypeOK => \A s \in Slots : Active(s) => Reply(deferred[s].n, deferred[s].id) \in Response
  /\ \A r \in Request, kind \in {"reply", "bye"} :
       [Reply(r.n, r.id) EXCEPT !.kind = kind] \in Response
<1>1. ASSUME TypeOK, NEW s \in Slots, Active(s)
      PROVE  Reply(deferred[s].n, deferred[s].id) \in Response
  <2>1. deferred[s] \in Deferral
    BY <1>1 DEF TypeOK, Active, Inactive
  <2> QED BY <2>1 DEF Deferral, Reply, Response
<1>2. ASSUME NEW r \in Request, NEW kind \in {"reply", "bye"}
      PROVE  [Reply(r.n, r.id) EXCEPT !.kind = kind] \in Response
  BY DEF Request, Reply, Response
<1> QED BY <1>1, <1>2

LEMMA SmallerPool ==
  ASSUME TInv, pool' \subseteq pool
  PROVE  pool' \subseteq Payload /\ IsFiniteSet(pool') /\ Cardinality(pool') <= PoolCapacity
<1>1. /\ IsFiniteSet(pool') /\ Cardinality(pool') <= Cardinality(pool)
      /\ Cardinality(pool') \in Nat /\ Cardinality(pool) \in Nat
  BY FS_Subset, FS_CardinalityType DEF TInv, Tables
<1> QED BY <1>1, BoundsAssumption DEF TInv, TypeOK

LEMMA FreedType ==
  ASSUME TypeOK, NEW s \in Slots
  PROVE  [deferred EXCEPT ![s] = Inactive] \in [Slots -> {Inactive} \cup Deferral]
BY DEF TypeOK

\* Main's steps that touch only its answers, its table, the pool and the event
\* it takes.
LEMMA MainTInv ==
  ASSUME TInv,
         UNCHANGED <<socketVars, requests, next_request_token, commands, workerVars, asked, written>>,
         stopping' \in BOOLEAN,
         m_pc' \in {"events", "session", "timeout", "dispatch", "join", "stopped"},
         m_slot' \in Slots,
         responses' \in Seq(Response), Len(responses') <= ControlQueue,
         deferred' \in [Slots -> {Inactive} \cup Deferral],
         pool' \subseteq pool,
         events' \in Seq(RtEvent), Len(events') <= RuntimeQueue
  PROVE  TInv'
<1> USE DEF TInv
<1>1. pool' \subseteq Payload /\ IsFiniteSet(pool') /\ Cardinality(pool') <= PoolCapacity
  BY SmallerPool
<1>2. m_slot' \in 1 .. DeferredCapacity + 1
  BY BoundsAssumption DEF Slots
<1>3. TypeOK'
  BY <1>1, <1>2 DEF TypeOK, socketVars, workerVars
<1>4. Tables' /\ Budget'
  BY <1>1 DEF Tables, Budget, socketVars, workerVars
<1> QED BY <1>3, <1>4

LEMMA NextSlotType ==
  ASSUME TInv, NEW after \in {"timeout", "dispatch"}, NextSlot(after)
  PROVE  /\ m_slot' \in Slots
         /\ m_pc' \in {"events", "session", "timeout", "dispatch", "join", "stopped"}
BY BoundsAssumption DEF TInv, Tables, TypeOK, NextSlot, Slots

LEMMA PollEventTInv == ASSUME TInv, PollEvent PROVE TInv'
<1> USE DEF TInv
<1> DEFINE e == Head(events)
<1>1. events' \in Seq(RtEvent) /\ Len(events') <= RuntimeQueue
  BY TailType, BoundsAssumption DEF PollEvent, TypeOK
<1>2. /\ UNCHANGED <<socketVars, requests, next_request_token, commands, workerVars, asked, written>>
      /\ UNCHANGED <<stopping, m_pc, m_slot>>
  BY DEF PollEvent
<1>3. /\ responses' \in Seq(Response) /\ Len(responses') <= ControlQueue
      /\ deferred' \in [Slots -> {Inactive} \cup Deferral]
      /\ pool' \subseteq pool
  <2>1. CASE \E s \in Slots : Completes(s, e) /\ CompleteDeferred(s, e)
    <3>1. PICK s \in Slots : Completes(s, e) /\ CompleteDeferred(s, e)
      BY <2>1
    <3>2. Post(Reply(deferred[s].n, deferred[s].id)) /\ Active(s)
      BY <3>1 DEF CompleteDeferred, Completes
    <3>3. responses' \in Seq(Response) /\ Len(responses') <= ControlQueue
      BY <3>2, ReplyType, PostType
    <3>4. deferred' \in [Slots -> {Inactive} \cup Deferral]
      BY <3>1, FreedType DEF CompleteDeferred, TypeOK
    <3>5. pool' \subseteq pool
      BY <3>1 DEF CompleteDeferred
    <3> QED BY <3>3, <3>4, <3>5
  <2>2. CASE /\ IF e.type = "state" THEN Post(EventLine) ELSE UNCHANGED responses
             /\ UNCHANGED <<deferred, pool>>
    <3>1. EventLine \in Response
      BY DEF Response
    <3> QED BY <2>2, <3>1, PostType DEF TypeOK
  <2> QED BY <2>1, <2>2 DEF PollEvent
<1> QED BY <1>1, <1>2, <1>3, MainTInv DEF TypeOK, Tables

\* Main's steps that move neither requests, entries nor answers.
LEMMA MainIdleTInv ==
  ASSUME TInv, EventsDone \/ KeepWaiting \/ DispatchDone \/ Stop \/ Join
  PROVE  TInv'
<1> USE DEF TInv
<1>1. /\ UNCHANGED <<socketVars, requests, next_request_token, commands, workerVars, asked, written>>
      /\ UNCHANGED <<responses, deferred, pool, events>>
  BY DEF EventsDone, KeepWaiting, DispatchDone, Stop, Join
<1>2. stopping' \in BOOLEAN
  BY DEF EventsDone, KeepWaiting, DispatchDone, Stop, Join, TypeOK
<1>3. m_slot' \in Slots /\ m_pc' \in {"events", "session", "timeout", "dispatch", "join", "stopped"}
  BY NextSlotType, BoundsAssumption
     DEF EventsDone, KeepWaiting, DispatchDone, Stop, Join, Tables, Slots
<1> QED BY <1>1, <1>2, <1>3, MainTInv DEF TypeOK

LEMMA CheckSessionTInv == ASSUME TInv, CheckSession PROVE TInv'
<1> USE DEF TInv
<1>1. /\ UNCHANGED <<socketVars, requests, next_request_token, commands, workerVars, asked, written>>
      /\ UNCHANGED <<responses, events, stopping>> /\ NextSlot("timeout")
  BY DEF CheckSession
<1>2. pool' \subseteq pool /\ deferred' \in [Slots -> {Inactive} \cup Deferral]
  BY FreedType DEF CheckSession, Cancelled, Tables, TypeOK
<1> QED BY <1>1, <1>2, NextSlotType, MainTInv DEF TypeOK

LEMMA TimeOutTInv == ASSUME TInv, TimeOut PROVE TInv'
<1> USE DEF TInv
<1>1. /\ UNCHANGED <<socketVars, requests, next_request_token, commands, workerVars, asked, written>>
      /\ UNCHANGED <<events, stopping>> /\ NextSlot("dispatch")
  BY DEF TimeOut
<1>2. pool' \subseteq pool /\ deferred' \in [Slots -> {Inactive} \cup Deferral]
  BY FreedType DEF TimeOut, Cancelled, Tables
<1>3. responses' \in Seq(Response) /\ Len(responses') <= ControlQueue
  BY ReplyType, PostType DEF TimeOut, Tables
<1> QED BY <1>1, <1>2, <1>3, NextSlotType, MainTInv DEF TypeOK

LEMMA DispatchTInv == ASSUME TInv, Dispatch PROVE TInv'
<1> USE DEF TInv
<1> DEFINE r == Head(requests)
<1>1. /\ r \in Request /\ requests' \in Seq(Request) /\ Len(requests') = Len(requests) - 1
      /\ Len(requests) \in Nat \ {0}
  BY TailType DEF Dispatch, TypeOK
<1>2. UNCHANGED <<socketVars, stopping, m_pc, m_slot, events, pool, workerVars, asked, written>>
  BY DEF Dispatch
<1>3. next_request_token \in Nat /\ next_request_token + 1 \in 1 .. MaxRequests
  <2>1. next_request_token \in Nat /\ Len(asked) \in Nat /\ Len(asked) <= MaxRequests
    BY BoundsAssumption DEF TypeOK, Tokens
  <2>2. next_request_token + Len(requests) <= Len(asked)
    BY DEF Budget
  <2> QED BY <1>1, <2>1, <2>2, BoundsAssumption
<1>4. /\ next_request_token' \in {next_request_token, next_request_token + 1}
      /\ responses' \in Seq(Response) /\ Len(responses') <= ControlQueue
      /\ deferred' \in [Slots -> {Inactive} \cup Deferral]
      /\ commands' \in Seq(Command) /\ Len(commands') <= RuntimeQueue
      /\ \A i \in DOMAIN commands' : commands'[i].type \in Bulk => commands'[i].token # 0
  <2>1. CASE r.kind \in Deferrable /\ BeginDeferred(r)
    <3> DEFINE token == IF r.kind \in Bulk THEN next_request_token + 1 ELSE 0
    <3> DEFINE entry == [active |-> TRUE, n |-> r.n, id |-> r.id, kind |-> r.kind,
                         token |-> token,
                         epoch |-> IF r.kind \in Bulk THEN connection_epoch ELSE 0]
    <3> DEFINE cmd == [type |-> r.kind, token |-> token]
    <3>1. token \in Tokens
      BY <1>3, BoundsAssumption DEF Tokens
    <3>2. entry \in Deferral
      BY <1>1, <3>1, BoundsAssumption DEF Deferral, Request, TypeOK
    <3>3. cmd \in Command /\ (cmd.type \in Bulk => cmd.token # 0)
      BY <2>1, <3>1, <1>3 DEF Command
    <3>4. /\ Len(commands) < RuntimeQueue /\ commands' = Append(commands, cmd)
          /\ deferred' = [deferred EXCEPT ![FirstFree] = entry]
          /\ next_request_token' = IF r.kind \in Bulk THEN token ELSE next_request_token
          /\ UNCHANGED responses
      BY <2>1 DEF BeginDeferred
    <3>5. next_request_token' \in {next_request_token, next_request_token + 1}
      BY <3>4
    <3> HIDE DEF entry, cmd
    <3>6. deferred' \in [Slots -> {Inactive} \cup Deferral]
      BY <3>2, <3>4 DEF TypeOK
    <3>7. /\ commands' \in Seq(Command) /\ Len(commands') <= RuntimeQueue
          /\ \A i \in DOMAIN commands' : commands'[i].type \in Bulk => commands'[i].token # 0
      <4>1. commands \in Seq(Command) /\ RuntimeQueue \in Nat
        BY BoundsAssumption DEF TypeOK
      <4>2. \A i \in DOMAIN commands : commands[i].type \in Bulk => commands[i].token # 0
        BY DEF Budget
      <4>3. /\ commands' \in Seq(Command) /\ Len(commands') = Len(commands) + 1
            /\ \A i \in DOMAIN commands' : commands'[i] = cmd \/
                 (i \in DOMAIN commands /\ commands'[i] = commands[i])
        BY <3>3, <3>4, <4>1
      <4>. QED BY <3>3, <3>4, <4>1, <4>2, <4>3
    <3> QED BY <3>4, <3>5, <3>6, <3>7 DEF TypeOK
  <2>2. CASE AnswerNow(r)
    <3>1. responses' \in Seq(Response) /\ Len(responses') <= ControlQueue
      BY <1>1, <2>2, ReplyType, PostType DEF AnswerNow
    <3> QED BY <2>2, <3>1 DEF AnswerNow, TypeOK, Budget
  <2> QED BY <2>1, <2>2 DEF Dispatch
<1>5. Len(requests') <= ControlQueue
  BY <1>1, BoundsAssumption DEF TypeOK
<1>6. next_request_token' \in Tokens /\ next_request_token' + Len(requests') <= Len(asked)
  <2>1. next_request_token + Len(requests) <= Len(asked) /\ Len(asked) \in Nat
    BY DEF Budget, TypeOK
  <2>2. next_request_token' \in Nat /\ next_request_token' <= next_request_token + 1
    BY <1>3, <1>4
  <2>3. next_request_token' \in 0 .. MaxRequests /\ MaxRequests \in Nat
    BY <1>3, <2>2, BoundsAssumption
  <2>4. Len(requests') \in Nat /\ Len(requests') + 1 = Len(requests)
    BY <1>1
  <2>5. next_request_token' + Len(requests') <= Len(asked)
    BY <1>3, <2>1, <2>2, <2>4
  <2> QED BY <2>3, <2>5 DEF Tokens
<1>7. TypeOK'
  <2>1. UNCHANGED <<s_pc, connection_epoch, connected, outstanding, read_closed, hungup, stopping,
                    m_pc, m_slot, events, pool, w_pc, w_payload, telemetry, asked, written>>
    BY <1>2 DEF socketVars, workerVars
  <2>2. requests' \in Seq(Request) /\ next_request_token' \in Tokens
    BY <1>1, <1>6
  <2> QED BY <1>4, <1>5, <2>1, <2>2 DEF TypeOK
<1>8. Tables' /\ Budget'
  BY <1>2, <1>4, <1>6 DEF Tables, Budget, socketVars, workerVars
<1> QED BY <1>7, <1>8

\* What the worker announces for the command it takes, or for a payload.
LEMMA PublishesType ==
  ASSUME TypeOK, NEW e \in RtEvent, Publishes(e)
  PROVE  events' \in Seq(RtEvent) /\ Len(events') <= RuntimeQueue
BY PushedType, BoundsAssumption DEF TypeOK, Publishes

LEMMA PayloadEventType ==
  ASSUME NEW p \in Payload, NEW ok \in BOOLEAN PROVE PayloadEvent(p, ok) \in RtEvent
<1>1. /\ p.token \in Tokens /\ p.kind \in Bulk
  BY BoundsAssumption DEF Payload, Tokens
<1> QED BY <1>1 DEF PayloadEvent, RtEvent, Deferrable

LEMMA PlainEventType ==
  ASSUME NEW type \in {"plain", "state"}
  PROVE  [type |-> type, token |-> 0, ok |-> TRUE] \in RtEvent
<1>1. 0 \in Tokens
  BY BoundsAssumption DEF Tokens
<1> QED BY <1>1 DEF RtEvent, Deferrable

LEMMA WorkerTakeTInv == ASSUME TInv, WorkerTake PROVE TInv'
<1> USE DEF TInv
<1> DEFINE c == Head(commands)
<1> DEFINE payload == [token |-> c.token, kind |-> c.type]
<1>1. /\ c \in Command /\ commands' \in Seq(Command) /\ Len(commands') <= RuntimeQueue
      /\ \A i \in DOMAIN commands' : commands'[i].type \in Bulk => commands'[i].token # 0
      /\ c.type \in Bulk => c.token # 0
  <2>1. commands # <<>> /\ commands' = Tail(commands) /\ commands \in Seq(Command)
    BY DEF WorkerTake, TypeOK
  <2>2. Len(commands) <= RuntimeQueue /\ RuntimeQueue \in Nat
    BY BoundsAssumption DEF TypeOK
  <2>3. \A i \in DOMAIN commands : commands[i].type \in Bulk => commands[i].token # 0
    BY DEF Budget
  <2> QED BY <2>1, <2>2, <2>3, TailType
<1>2. c.type \in Bulk => payload \in Payload
  BY <1>1, BoundsAssumption DEF Command, Payload, Tokens
<1>3. UNCHANGED <<socketVars, stopping, requests, responses, mainVars, telemetry, asked, written>>
  BY DEF WorkerTake
<1>4. /\ events' \in Seq(RtEvent) /\ Len(events') <= RuntimeQueue
      /\ pool' \subseteq Payload /\ IsFiniteSet(pool') /\ Cardinality(pool') <= PoolCapacity
      /\ \/ UNCHANGED <<w_pc, w_payload>>
         \/ w_pc' = "publish" /\ w_payload' \in Payload
  <2>1. CASE c.type = "plain" /\ Publishes([type |-> "plain", token |-> 0, ok |-> TRUE])
             /\ UNCHANGED <<pool, w_pc, w_payload>>
    BY <2>1, PublishesType, PlainEventType DEF Tables, TypeOK
  <2>2. CASE c.type \in Bulk /\ Publishes(PayloadEvent(payload, FALSE))
             /\ UNCHANGED <<pool, w_pc, w_payload>>
    <3>1. PayloadEvent(payload, FALSE) \in RtEvent
      BY <1>2, <2>2, PayloadEventType
    <3> QED BY <2>2, <3>1, PublishesType DEF Tables, TypeOK
  <2>3. CASE c.type \in Bulk /\ MayStore(c.type) /\ pool' = pool \cup {payload}
             /\ w_pc' = "publish" /\ w_payload' = payload /\ UNCHANGED events
    <3> HIDE DEF payload
    <3>1. Cardinality(pool) < PoolCapacity /\ Cardinality(pool) \in Nat
      BY <2>3, FS_CardinalityType DEF MayStore, Tables
    <3>2. IsFiniteSet(pool') /\ (Cardinality(pool') = Cardinality(pool) + 1
                                 \/ Cardinality(pool') = Cardinality(pool))
      BY <2>3, FS_AddElement DEF Tables
    <3> QED BY <1>2, <2>3, <3>1, <3>2, BoundsAssumption DEF TypeOK
  <2> QED BY <2>1, <2>2, <2>3 DEF WorkerTake
<1>5. TypeOK'
  BY <1>1, <1>3, <1>4 DEF TypeOK, socketVars, mainVars
<1>6. Tables' /\ Budget'
  BY <1>1, <1>3, <1>4 DEF Tables, Budget, socketVars, mainVars
<1> QED BY <1>5, <1>6

LEMMA WorkerDropsTInv == ASSUME TInv, WorkerDrops PROVE TInv'
<1> USE DEF TInv
<1>1. /\ commands' \in Seq(Command) /\ Len(commands') <= RuntimeQueue
      /\ \A i \in DOMAIN commands' : commands'[i].type \in Bulk => commands'[i].token # 0
  <2>1. commands # <<>> /\ commands' = Tail(commands) /\ commands \in Seq(Command)
    BY DEF WorkerDrops, TypeOK
  <2>2. Len(commands) <= RuntimeQueue /\ RuntimeQueue \in Nat
    BY BoundsAssumption DEF TypeOK
  <2>3. \A i \in DOMAIN commands : commands[i].type \in Bulk => commands[i].token # 0
    BY DEF Budget
  <2> QED BY <2>1, <2>2, <2>3, TailType
<1>2. TypeOK'
  BY <1>1 DEF WorkerDrops, TypeOK, socketVars, mainVars, workerVars
<1>3. Tables' /\ Budget'
  BY <1>1 DEF WorkerDrops, Tables, Budget, socketVars, mainVars, workerVars
<1> QED BY <1>2, <1>3

\* The worker announces something, with or without a payload.
LEMMA WorkerAnnouncesTInv == ASSUME TInv, WorkerPublish \/ WorkerRetry \/ Telemetry PROVE TInv'
<1> USE DEF TInv
<1>1. UNCHANGED <<socketVars, stopping, requests, responses, mainVars, commands, w_payload,
                  asked, written>>
  BY DEF WorkerPublish, WorkerRetry, Telemetry
<1>2. events' \in Seq(RtEvent) /\ Len(events') <= RuntimeQueue
  <2>1. CASE WorkerPublish
    <3> DEFINE e == PayloadEvent(w_payload, TRUE)
    <3>1. e \in RtEvent
      BY <2>1, PayloadEventType DEF WorkerPublish, Budget
    <3>2. CASE Len(events) < RuntimeQueue
      <4>1. events' = Append(events, e)
        BY <2>1, <3>2 DEF WorkerPublish
      <4> HIDE DEF e
      <4> QED BY <3>1, <3>2, <4>1, BoundsAssumption DEF TypeOK
    <3>3. CASE ~(Len(events) < RuntimeQueue)
      BY <2>1, <3>3 DEF WorkerPublish, TypeOK
    <3> QED BY <3>2, <3>3
  <2>2. CASE WorkerRetry
    <3>1. PayloadEvent(w_payload, FALSE) \in RtEvent
      BY <2>2, PayloadEventType DEF WorkerRetry, Budget
    <3> QED BY <2>2, <3>1, PublishesType DEF WorkerRetry
  <2>3. CASE Telemetry
    BY <2>3, PlainEventType, PublishesType DEF Telemetry
  <2> QED BY <2>1, <2>2, <2>3
<1>3. pool' \subseteq Payload /\ IsFiniteSet(pool') /\ Cardinality(pool') <= PoolCapacity
  <2>1. pool' \subseteq pool
    BY DEF WorkerPublish, WorkerRetry, Telemetry
  <2> QED BY <2>1, SmallerPool
<1>4. /\ w_pc' \in {"idle", "publish", "retry"} /\ telemetry' \in 0 .. MaxTelemetry
      /\ w_pc' # "idle" => w_pc # "idle"
  <2>1. w_pc' \in {"idle", "publish", "retry"} /\ (w_pc' # "idle" => w_pc # "idle")
    BY DEF WorkerPublish, WorkerRetry, Telemetry, TypeOK
  <2>2. telemetry' \in {telemetry, telemetry + 1} /\ (telemetry' # telemetry => telemetry < MaxTelemetry)
    BY DEF WorkerPublish, WorkerRetry, Telemetry
  <2>3. telemetry \in 0 .. MaxTelemetry
    BY DEF TypeOK
  <2> QED BY <2>1, <2>2, <2>3, BoundsAssumption
<1>5. TypeOK'
  BY <1>1, <1>2, <1>3, <1>4 DEF TypeOK, socketVars, mainVars
<1>6. Tables' /\ Budget'
  BY <1>1, <1>3, <1>4 DEF Tables, Budget, socketVars, mainVars
<1> QED BY <1>5, <1>6

LEMMA StutterTInv == ASSUME TInv, UNCHANGED vars PROVE TInv'
BY DEF TInv, TypeOK, Tables, Budget, vars, socketVars, mainVars, workerVars

LEMMA NextTInv == TInv /\ [Next]_vars => TInv'
BY SocketIdleTInv, PublishTInv, FlushTInv, ReadRequestTInv, DrainTInv, CloseTInv, PollEventTInv,
   MainIdleTInv, CheckSessionTInv, TimeOutTInv, DispatchTInv, WorkerTakeTInv, WorkerDropsTInv,
   WorkerAnnouncesTInv, StutterTInv
   DEF Next, SocketNext, MainNext, WorkerNext, Finished

\* The tables of the control port stay within their bounds and hold what they
\* are meant to: the four queues, the deferred table, the payload pool, and the
\* socket's list of outstanding ids, which control_server.c indexes without a
\* test because CONTROL_PIPELINE_HIGH_WATER stops it reading in time.
THEOREM TypeCorrect == SafetySpec => []TypeOK
<1>1. TInv => TypeOK
  BY DEF TInv
<1> QED BY InitTInv, NextTInv, <1>1, PTL DEF SafetySpec

-----------------------------------------------------------------------------
(* Where a request is.                                                     *)

\* Request n is in queue q; no request is in it twice (event lines carry 0).
Has(q, n) == \E i \in DOMAIN q : q[i].n = n
Once(q) == \A i, j \in DOMAIN q : q[i].n = q[j].n /\ q[i].n # 0 => i = j

Waiting(n) == \E s \in Slots : Active(s) /\ deferred[s].n = n
Written(n) == \E v \in written : v[1] = n

\* Every place holds a request at most once.
OnceInPlace ==
  /\ Once(requests) /\ Once(responses)
  /\ \A s, t \in Slots : Active(s) /\ Active(t) /\ deferred[s].n = deferred[t].n => s = t
  /\ \A v, w \in written : v[1] = w[1] => v = w

\* No two places hold the same request.
Apart ==
  \A n \in RequestNumbers :
    /\ Has(requests, n) => ~Waiting(n) /\ ~Has(responses, n) /\ ~Written(n)
    /\ Waiting(n) => ~Has(responses, n) /\ ~Written(n)
    /\ Has(responses, n) => ~Written(n)

\* Only requests that were read from a client are anywhere.
Known ==
  \A n \in RequestNumbers :
    Has(requests, n) \/ Waiting(n) \/ Has(responses, n) \/ Written(n) => n <= Len(asked)

RInv == OnceInPlace /\ Apart /\ Known

LEMMA TailHas ==
  ASSUME NEW S, NEW q \in Seq(S), q # <<>>, Once(q)
  PROVE  /\ Once(Tail(q)) /\ Has(q, Head(q).n)
         /\ \A n : Has(Tail(q), n) => Has(q, n)
         /\ Head(q).n # 0 => ~Has(Tail(q), Head(q).n)
<1>1. /\ Len(q) \in Nat \ {0} /\ Head(q) = q[1] /\ DOMAIN q = 1 .. Len(q)
      /\ DOMAIN Tail(q) = 1 .. Len(q) - 1
      /\ \A i \in 1 .. Len(q) - 1 : Tail(q)[i] = q[i + 1]
  BY TailType
<1>2. 1 \in DOMAIN q /\ \A i \in DOMAIN Tail(q) : i + 1 \in DOMAIN q /\ i + 1 # 1 /\ i \in Nat
  BY <1>1
<1>3. Once(Tail(q))
  <2> SUFFICES ASSUME NEW i \in DOMAIN Tail(q), NEW j \in DOMAIN Tail(q),
                      Tail(q)[i].n = Tail(q)[j].n, Tail(q)[i].n # 0
               PROVE  i = j
    BY DEF Once
  <2>1. i + 1 = j + 1
    BY <1>1, <1>2 DEF Once
  <2> QED BY <2>1, <1>2
<1>4. Has(q, Head(q).n) /\ \A n : Has(Tail(q), n) => Has(q, n)
  BY <1>1, <1>2 DEF Has
<1>5. Head(q).n # 0 => ~Has(Tail(q), Head(q).n)
  BY <1>1, <1>2 DEF Has, Once
<1> QED BY <1>3, <1>4, <1>5

LEMMA AppendHas ==
  ASSUME NEW S, NEW q \in Seq(S), NEW x \in S, Once(q), x.n # 0 => ~Has(q, x.n)
  PROVE  Once(Append(q, x)) /\ \A n : Has(Append(q, x), n) => Has(q, n) \/ n = x.n
<1>1. /\ Len(q) \in Nat /\ DOMAIN q = 1 .. Len(q) /\ DOMAIN Append(q, x) = 1 .. Len(q) + 1
      /\ \A i \in 1 .. Len(q) : Append(q, x)[i] = q[i]
      /\ Append(q, x)[Len(q) + 1] = x
  OBVIOUS
<1>2. \A i \in DOMAIN Append(q, x) : i \in DOMAIN q \/ i = Len(q) + 1
  BY <1>1
<1>3. \A n : Has(Append(q, x), n) => Has(q, n) \/ n = x.n
  BY <1>1, <1>2 DEF Has
<1>4. Once(Append(q, x))
  <2> SUFFICES ASSUME NEW i \in DOMAIN Append(q, x), NEW j \in DOMAIN Append(q, x),
                      Append(q, x)[i].n = Append(q, x)[j].n, Append(q, x)[i].n # 0
               PROVE  i = j
    BY DEF Once
  <2>1. CASE i \in DOMAIN q /\ j \in DOMAIN q
    BY <1>1, <2>1 DEF Once
  <2>2. CASE i \in DOMAIN q /\ j = Len(q) + 1
    BY <1>1, <2>2 DEF Has
  <2>3. CASE i = Len(q) + 1 /\ j \in DOMAIN q
    BY <1>1, <2>3 DEF Has
  <2> QED BY <1>2, <2>1, <2>2, <2>3
<1> QED BY <1>3, <1>4

\* A push that is refused changes nothing.
LEMMA PushedHas ==
  ASSUME NEW S, NEW q \in Seq(S), NEW x \in S, NEW c, Once(q), x.n # 0 => ~Has(q, x.n)
  PROVE  Once(Pushed(q, c, x)) /\ \A n : Has(Pushed(q, c, x), n) => Has(q, n) \/ n = x.n
BY AppendHas DEF Pushed

LEMMA InitRInv == Init => RInv
BY DEF Init, RInv, OnceInPlace, Apart, Known, Once, Has, Waiting, Written, Active, Inactive

\* A step moves at most one request m, and leaves it in at most one place.
LEMMA Transfer ==
  ASSUME RInv, OnceInPlace', NEW m,
         \A n \in RequestNumbers \ {m} :
           /\ Has(requests', n) => Has(requests, n)
           /\ Waiting(n)' => Waiting(n)
           /\ Has(responses', n) => Has(responses, n)
           /\ Written(n)' => Written(n),
         m \in RequestNumbers =>
           /\ Has(requests', m) => ~Waiting(m)' /\ ~Has(responses', m) /\ ~Written(m)'
           /\ Waiting(m)' => ~Has(responses', m) /\ ~Written(m)'
           /\ Has(responses', m) => ~Written(m)'
           /\ m <= Len(asked'),
         Len(asked) \in Nat, Len(asked') \in Nat, Len(asked) <= Len(asked')
  PROVE  RInv'
<1>1. Apart'
  <2> SUFFICES ASSUME NEW n \in RequestNumbers
               PROVE  /\ Has(requests', n) => ~Waiting(n)' /\ ~Has(responses', n) /\ ~Written(n)'
                      /\ Waiting(n)' => ~Has(responses', n) /\ ~Written(n)'
                      /\ Has(responses', n) => ~Written(n)'
    BY DEF Apart, Has
  <2>1. CASE n = m
    BY <2>1
  <2>2. CASE n # m
    BY <2>2 DEF RInv, Apart
  <2> QED BY <2>1, <2>2
<1>2. Known'
  <2> SUFFICES ASSUME NEW n \in RequestNumbers,
                      Has(requests', n) \/ Waiting(n)' \/ Has(responses', n) \/ Written(n)'
               PROVE  n <= Len(asked')
    BY DEF Known, Has
  <2>1. CASE n = m
    BY <2>1
  <2>2. CASE n # m
    <3>1. n <= Len(asked)
      BY <2>2 DEF RInv, Known
    <3> QED BY <3>1, BoundsAssumption DEF RequestNumbers
  <2> QED BY <2>1, <2>2
<1> QED BY <1>1, <1>2 DEF RInv

\* Steps that move no request.
LEMMA KeepsRInv ==
  ASSUME RInv, UNCHANGED <<requests, responses, deferred, asked, written>>
  PROVE  RInv'
BY DEF RInv, OnceInPlace, Apart, Known, Once, Has, Waiting, Written, Active

LEMMA DrainRInv == ASSUME TInv, RInv, Drain PROVE RInv'
<1>1. responses' = <<>> /\ UNCHANGED <<requests, deferred, asked, written>>
  BY DEF Drain, mainVars
<1>2. \A n : ~Has(responses', n)
  BY <1>1 DEF Has
<1>3. \A n : (Waiting(n)' <=> Waiting(n)) /\ (Written(n)' <=> Written(n))
  BY <1>1 DEF Waiting, Written, Active
<1>4. OnceInPlace'
  BY <1>1, <1>2 DEF RInv, OnceInPlace, Once, Has, Active
<1>5. Len(asked) \in Nat
  BY DEF TInv, TypeOK
<1> QED BY <1>1, <1>2, <1>3, <1>4, <1>5, Transfer, BoundsAssumption DEF RInv, Apart, Known, RequestNumbers

LEMMA FlushRInv == ASSUME TInv, RInv, Flush PROVE RInv'
<1>. PICK r : r = Head(responses)
  OBVIOUS
<1>0. /\ responses # <<>> /\ responses' = Tail(responses)
      /\ UNCHANGED <<requests, deferred, asked>>
      /\ \/ written' = written
         \/ r.kind # "event" /\ written' = written \cup {<<r.n, connection_epoch>>}
  BY DEF Flush, mainVars
<1>1. /\ responses \in Seq(Response) /\ r \in Response /\ Once(responses)
      /\ Len(asked) \in Nat
  BY <1>0, TailType DEF TInv, TypeOK, RInv, OnceInPlace
<1>2. /\ Once(responses') /\ Has(responses, r.n)
      /\ \A n : Has(responses', n) => Has(responses, n)
      /\ r.n # 0 => ~Has(responses', r.n)
  BY <1>0, <1>1, TailHas
<1>3. \A n : Waiting(n)' <=> Waiting(n)
  BY <1>0 DEF Waiting, Active
<1>4. \A n : n # r.n => (Written(n)' => Written(n))
  BY <1>0 DEF Written
<1>5. r.kind # "event" => r.n \in RequestNumbers /\ r.n # 0
  BY <1>1, BoundsAssumption DEF Response, EventLine, RequestNumbers
<1>6. r.n \in RequestNumbers => /\ ~Waiting(r.n) /\ ~Has(requests, r.n) /\ ~Written(r.n)
                                /\ r.n <= Len(asked) /\ r.n # 0
  BY <1>2, BoundsAssumption DEF RInv, Apart, Known, RequestNumbers
<1>7. OnceInPlace'
  <2>1. \A v, w \in written' : v[1] = w[1] => v = w
    <3>1. CASE written' = written
      BY <3>1 DEF RInv, OnceInPlace
    <3>2. CASE r.kind # "event" /\ written' = written \cup {<<r.n, connection_epoch>>}
      <4>1. \A v \in written : v[1] # r.n
        BY <3>2, <1>5, <1>6 DEF Written
      <4> QED BY <3>2, <4>1 DEF RInv, OnceInPlace
    <3> QED BY <1>0, <3>1, <3>2
  <2> QED BY <1>0, <1>2, <2>1 DEF RInv, OnceInPlace, Active, Once
<1>8. \A n \in RequestNumbers \ {r.n} :
        /\ Has(requests', n) => Has(requests, n)
        /\ Waiting(n)' => Waiting(n)
        /\ Has(responses', n) => Has(responses, n)
        /\ Written(n)' => Written(n)
  BY <1>0, <1>2, <1>3, <1>4
<1>9. r.n \in RequestNumbers =>
        /\ ~Has(requests', r.n) /\ ~Waiting(r.n)' /\ ~Has(responses', r.n)
        /\ r.n <= Len(asked')
  BY <1>0, <1>2, <1>3, <1>6
<1>10. Len(asked') = Len(asked) /\ Len(asked) <= Len(asked)
  BY <1>0, <1>1
<1> QED BY <1>1, <1>7, <1>8, <1>9, <1>10, Transfer

LEMMA ReadRequestRInv == ASSUME TInv, RInv, ReadRequest PROVE RInv'
<1>. PICK m : m = Len(asked) + 1
  OBVIOUS
<1>1. PICK id \in Ids \ outstanding, kind \in Kinds :
        /\ requests' = Append(requests, [n |-> m, id |-> id, kind |-> kind])
        /\ asked' = Append(asked, [conn |-> connection_epoch, id |-> id])
  BY DEF ReadRequest
<1>2. /\ Len(asked) \in Nat /\ m \in RequestNumbers /\ ~(m <= Len(asked))
      /\ requests \in Seq(Request) /\ Once(requests)
      /\ UNCHANGED <<responses, deferred, written>>
  BY BoundsAssumption DEF TInv, TypeOK, ReadRequest, RequestNumbers, RInv, OnceInPlace, mainVars
<1>3. Len(asked') = m
  BY <1>1, <1>2 DEF TInv, TypeOK
<1>4. ~Has(requests, m) /\ ~Waiting(m) /\ ~Has(responses, m) /\ ~Written(m)
  BY <1>2 DEF RInv, Known
<1>5. \A n : (Waiting(n)' <=> Waiting(n)) /\ (Written(n)' <=> Written(n))
  BY <1>2 DEF Waiting, Written, Active
<1>6. Once(requests') /\ \A n : Has(requests', n) => Has(requests, n) \/ n = m
  <2> DEFINE x == [n |-> m, id |-> id, kind |-> kind]
  <2>1. x \in Request /\ x.n = m
    BY <1>2 DEF Request
  <2>2. requests' = Append(requests, x)
    BY <1>1
  <2> HIDE DEF x
  <2> QED BY <1>2, <1>4, <2>1, <2>2, AppendHas
<1>7. OnceInPlace'
  BY <1>2, <1>6 DEF RInv, OnceInPlace, Once, Active
<1>8. \A n \in RequestNumbers \ {m} :
        /\ Has(requests', n) => Has(requests, n)
        /\ Waiting(n)' => Waiting(n)
        /\ Has(responses', n) => Has(responses, n)
        /\ Written(n)' => Written(n)
  BY <1>2, <1>5, <1>6
<1>9. ~Waiting(m)' /\ ~Has(responses', m) /\ ~Written(m)'
  BY <1>2, <1>4, <1>5
<1>10. m <= Len(asked') /\ Len(asked') \in Nat /\ Len(asked) <= Len(asked')
  BY <1>2, <1>3
<1> QED BY <1>2, <1>7, <1>8, <1>9, <1>10, Transfer

\* An entry is freed: its request is answered, or was answered before, or the
\* answer is refused.
LEMMA FreesEntry ==
  ASSUME TInv, RInv, NEW s \in Slots, Active(s),
         UNCHANGED <<requests, asked, written>>,
         \/ deferred' = [deferred EXCEPT ![s] = Inactive]
         \/ deferred' = deferred /\ responses' = responses,
         \/ responses' = responses
         \/ Post(Reply(deferred[s].n, deferred[s].id))
  PROVE  RInv'
<1>. PICK m : m = deferred[s].n
  OBVIOUS
<1> DEFINE x == Reply(deferred[s].n, deferred[s].id)
<1>1. /\ m \in RequestNumbers /\ x \in Response /\ x.n = m /\ Len(asked) \in Nat
      /\ responses \in Seq(Response) /\ Once(responses)
  <2>1. x \in Response
    BY ReplyType DEF TInv
  <2>2. deferred[s] \in Deferral
    BY DEF TInv, TypeOK, Active, Inactive
  <2> QED BY <2>1, <2>2 DEF Deferral, Reply, TInv, TypeOK, RInv, OnceInPlace
<1>2. Waiting(m)
  BY DEF Waiting
<1>3. ~Has(requests, m) /\ ~Has(responses, m) /\ ~Written(m) /\ m <= Len(asked)
  BY <1>1, <1>2 DEF RInv, Apart, Known
<1>4. \A n : Written(n)' <=> Written(n)
  BY DEF Written
<1>5. CASE deferred' = deferred /\ responses' = responses
  BY <1>5, KeepsRInv
<1>6. CASE deferred' = [deferred EXCEPT ![s] = Inactive]
  <2>1. \A t \in Slots : Active(t)' => Active(t) /\ t # s /\ deferred'[t] = deferred[t]
    BY <1>6 DEF TInv, TypeOK, Active, Inactive
  <2>2. (\A n : Waiting(n)' => Waiting(n)) /\ ~Waiting(m)'
    BY <2>1 DEF Waiting, RInv, OnceInPlace
  <2>3. Once(responses') /\ \A n : Has(responses', n) => Has(responses, n) \/ n = m
    <3> HIDE DEF x
    <3>1. CASE responses' = responses
      BY <3>1, <1>1
    <3>2. CASE Post(x)
      BY <3>2, <1>1, <1>3, PushedHas DEF Post
    <3> QED BY <3>1, <3>2 DEF x
  <2>4. OnceInPlace'
    BY <2>1, <2>3 DEF RInv, OnceInPlace, Once
  <2>5. \A n \in RequestNumbers \ {m} :
          /\ Has(requests', n) => Has(requests, n)
          /\ Waiting(n)' => Waiting(n)
          /\ Has(responses', n) => Has(responses, n)
          /\ Written(n)' => Written(n)
    BY <1>4, <2>2, <2>3
  <2>6. ~Has(requests', m) /\ ~Waiting(m)' /\ ~Written(m)' /\ m <= Len(asked')
    BY <1>3, <1>4, <2>2
  <2>7. Len(asked') \in Nat /\ Len(asked) <= Len(asked')
    BY <1>1
  <2> QED BY <1>1, <2>4, <2>5, <2>6, <2>7, Transfer
<1> QED BY <1>5, <1>6

\* An event line goes to the client: it belongs to no request.
LEMMA EventLineRInv ==
  ASSUME TInv, RInv, Post(EventLine), UNCHANGED <<requests, deferred, asked, written>>
  PROVE  RInv'
<1>1. /\ responses \in Seq(Response) /\ EventLine \in Response /\ EventLine.n = 0
      /\ Once(responses) /\ Len(asked) \in Nat /\ 0 \notin RequestNumbers
  BY BoundsAssumption DEF TInv, TypeOK, Response, EventLine, RInv, OnceInPlace, RequestNumbers
<1>2. Once(responses') /\ \A n : Has(responses', n) => Has(responses, n) \/ n = 0
  <2>1. responses' = Pushed(responses, ControlQueue, EventLine)
    BY DEF Post
  <2> QED BY <1>1, <2>1, PushedHas
<1>3. \A n : (Waiting(n)' <=> Waiting(n)) /\ (Written(n)' <=> Written(n))
  BY DEF Waiting, Written, Active
<1>4. OnceInPlace'
  BY <1>2 DEF RInv, OnceInPlace, Once, Active
<1>5. \A n \in RequestNumbers \ {0} :
        /\ Has(requests', n) => Has(requests, n)
        /\ Waiting(n)' => Waiting(n)
        /\ Has(responses', n) => Has(responses, n)
        /\ Written(n)' => Written(n)
  BY <1>2, <1>3
<1>6. Len(asked') \in Nat /\ Len(asked) <= Len(asked')
  BY <1>1
<1> QED BY <1>1, <1>4, <1>5, <1>6, Transfer

LEMMA PollEventRInv == ASSUME TInv, RInv, PollEvent PROVE RInv'
<1>0. UNCHANGED <<requests, asked, written>>
  BY DEF PollEvent
<1>1. ASSUME NEW s \in Slots, NEW e, Completes(s, e), CompleteDeferred(s, e) PROVE RInv'
  <2>1. Active(s)
    BY <1>1 DEF Completes
  <2>2. CASE Len(responses) < ControlQueue
    BY <1>0, <1>1, <2>1, <2>2, FreesEntry DEF CompleteDeferred
  <2>3. CASE ~(Len(responses) < ControlQueue)
    <3>1. deferred' = deferred /\ responses' = responses
      BY <1>1, <2>3 DEF CompleteDeferred, Post, Pushed
    <3> QED BY <1>0, <3>1, KeepsRInv
  <2> QED BY <2>2, <2>3
<1>2. ASSUME Post(EventLine) \/ UNCHANGED responses, UNCHANGED deferred PROVE RInv'
  BY <1>0, <1>2, EventLineRInv, KeepsRInv
<1> QED BY <1>1, <1>2 DEF PollEvent

LEMMA CheckSessionRInv == ASSUME TInv, RInv, CheckSession PROVE RInv'
<1>. PICK s : s = m_slot
  OBVIOUS
<1>1. s \in Slots /\ UNCHANGED <<requests, responses, asked, written>>
  BY DEF CheckSession, TInv, Tables
<1>2. CASE UNCHANGED deferred
  BY <1>1, <1>2, KeepsRInv
<1>3. CASE ~UNCHANGED deferred
  <2>1. Active(s) /\ deferred' = [deferred EXCEPT ![s] = Inactive]
    BY <1>3 DEF CheckSession, Active
  <2> QED BY <1>1, <2>1, FreesEntry
<1> QED BY <1>2, <1>3

LEMMA TimeOutRInv == ASSUME TInv, RInv, TimeOut PROVE RInv'
<1>. PICK s : s = m_slot
  OBVIOUS
<1>1. /\ s \in Slots /\ Active(s) /\ UNCHANGED <<requests, asked, written>>
      /\ deferred' = [deferred EXCEPT ![s] = Inactive]
      /\ Post(Reply(deferred[s].n, deferred[s].id))
  BY DEF TimeOut, TInv, Tables
<1> QED BY <1>1, FreesEntry

LEMMA DispatchRInv == ASSUME TInv, RInv, Dispatch PROVE RInv'
<1>. PICK r : r = Head(requests)
  OBVIOUS
<1>0. requests # <<>> /\ requests' = Tail(requests) /\ UNCHANGED <<asked, written>>
  BY DEF Dispatch
<1>1. /\ requests \in Seq(Request) /\ Once(requests) /\ r \in Request
      /\ responses \in Seq(Response) /\ Once(responses) /\ Len(asked) \in Nat
  BY <1>0, TailType DEF TInv, TypeOK, RInv, OnceInPlace
<1>2. r.n \in RequestNumbers /\ r.n # 0
  BY <1>1, BoundsAssumption DEF Request, RequestNumbers
<1>3. /\ Once(requests') /\ Has(requests, r.n) /\ ~Has(requests', r.n)
      /\ \A n : Has(requests', n) => Has(requests, n)
  BY <1>0, <1>1, <1>2, TailHas
<1>4. ~Waiting(r.n) /\ ~Has(responses, r.n) /\ ~Written(r.n) /\ r.n <= Len(asked)
  BY <1>2, <1>3 DEF RInv, Apart, Known
<1>5. \A n : Written(n)' <=> Written(n)
  BY <1>0 DEF Written
<1>6. Len(asked') \in Nat /\ Len(asked) <= Len(asked') /\ r.n <= Len(asked')
  BY <1>0, <1>1, <1>4
<1>7. CASE BeginDeferred(r)
  <2>1. PICK f, entry : /\ deferred' = [deferred EXCEPT ![f] = entry]
                        /\ entry.n = r.n /\ responses' = responses
    BY <1>7 DEF BeginDeferred
  <2>2. \A t \in Slots : t # f => (Active(t)' <=> Active(t)) /\ deferred'[t] = deferred[t]
    BY <2>1 DEF TInv, TypeOK, Active
  <2>3. f \in Slots => deferred'[f] = entry
    BY <2>1 DEF TInv, TypeOK
  <2>4. \A n : n # r.n => (Waiting(n)' => Waiting(n))
    BY <2>1, <2>2, <2>3 DEF Waiting
  <2>5. \A t \in Slots : t # f /\ Active(t)' => deferred'[t].n # r.n
    BY <1>4, <2>2 DEF Waiting
  <2>6. OnceInPlace'
    <3>1. \A t, u \in Slots : Active(t)' /\ Active(u)' /\ deferred'[t].n = deferred'[u].n => t = u
      BY <2>1, <2>2, <2>3, <2>5 DEF RInv, OnceInPlace
    <3> QED BY <1>0, <1>3, <2>1, <3>1 DEF RInv, OnceInPlace, Once
  <2>7. \A n \in RequestNumbers \ {r.n} :
          /\ Has(requests', n) => Has(requests, n)
          /\ Waiting(n)' => Waiting(n)
          /\ Has(responses', n) => Has(responses, n)
          /\ Written(n)' => Written(n)
    BY <1>3, <1>5, <2>1, <2>4
  <2>8. ~Has(requests', r.n) /\ ~Has(responses', r.n) /\ ~Written(r.n)'
    BY <1>3, <1>4, <1>5, <2>1
  <2> QED BY <1>1, <1>6, <2>6, <2>7, <2>8, Transfer
<1>8. CASE AnswerNow(r)
  <2>1. PICK x \in Response : x.n = r.n /\ Post(x)
    <3> DEFINE kind == IF r.kind = "quit" THEN "bye" ELSE "reply"
    <3> DEFINE x == [Reply(r.n, r.id) EXCEPT !.kind = kind]
    <3>1. x \in Response
      BY <1>1, ReplyType
    <3>2. x.n = r.n
      BY DEF Reply
    <3>3. Post(x)
      BY <1>8 DEF AnswerNow
    <3> HIDE DEF x
    <3> QED BY <3>1, <3>2, <3>3
  <2>2. deferred' = deferred
    BY <1>8 DEF AnswerNow
  <2>3. Once(responses') /\ \A n : Has(responses', n) => Has(responses, n) \/ n = r.n
    <3>1. responses' = Pushed(responses, ControlQueue, x)
      BY <2>1 DEF Post
    <3> QED BY <1>1, <1>4, <2>1, <3>1, PushedHas
  <2>4. \A n : Waiting(n)' <=> Waiting(n)
    BY <2>2 DEF Waiting, Active
  <2>5. OnceInPlace'
    BY <1>0, <1>3, <2>2, <2>3 DEF RInv, OnceInPlace, Once, Active
  <2>6. \A n \in RequestNumbers \ {r.n} :
          /\ Has(requests', n) => Has(requests, n)
          /\ Waiting(n)' => Waiting(n)
          /\ Has(responses', n) => Has(responses, n)
          /\ Written(n)' => Written(n)
    BY <1>3, <1>5, <2>3, <2>4
  <2>7. ~Has(requests', r.n) /\ ~Waiting(r.n)' /\ ~Written(r.n)'
    BY <1>3, <1>4, <1>5, <2>4
  <2> QED BY <1>1, <1>6, <2>5, <2>6, <2>7, Transfer
<1> QED BY <1>7, <1>8 DEF Dispatch

LEMMA NextRInv == TInv /\ RInv /\ [Next]_vars => RInv'
<1> SUFFICES ASSUME TInv, RInv, [Next]_vars PROVE RInv'
  OBVIOUS
<1>1. CASE Drain \/ Flush \/ ReadRequest
  BY <1>1, DrainRInv, FlushRInv, ReadRequestRInv
<1>2. CASE PollEvent \/ CheckSession \/ TimeOut \/ Dispatch
  BY <1>2, PollEventRInv, CheckSessionRInv, TimeOutRInv, DispatchRInv
<1>3. CASE UNCHANGED <<requests, responses, deferred, asked, written>>
  BY <1>3, KeepsRInv
<1>4. CASE Accept \/ Publish \/ FlushDone \/ ReadRejected \/ ReadHangup \/ ReadNothing
           \/ DrainDeadline \/ Close \/ Hangup
  BY <1>3, <1>4 DEF Accept, Publish, FlushDone, ReadRejected, ReadHangup, ReadNothing,
                    DrainDeadline, Close, Hangup, mainVars
<1>5. CASE EventsDone \/ KeepWaiting \/ DispatchDone \/ Join \/ Stop
  BY <1>3, <1>5 DEF EventsDone, KeepWaiting, DispatchDone, Join, Stop
<1>6. CASE WorkerNext \/ Telemetry
  BY <1>3, <1>6 DEF WorkerNext, WorkerTake, WorkerDrops, WorkerPublish, WorkerRetry, Telemetry,
                    mainVars
<1>7. CASE UNCHANGED vars
  BY <1>3, <1>7 DEF vars, mainVars
<1> QED BY <1>1, <1>2, <1>4, <1>5, <1>6, <1>7 DEF Next, SocketNext, MainNext, Finished

\* A set whose members are all equal has at most one.
LEMMA AtMostOne ==
  ASSUME NEW S, \A x, y \in S : x = y
  PROVE  Cardinality(S) <= 1
<1>1. CASE S = {}
  BY <1>1, FS_EmptySet
<1>2. CASE S # {}
  <2>1. PICK x : S = {x}
    BY <1>2
  <2> QED BY <2>1, FS_Singleton
<1> QED BY <1>1, <1>2

LEMMA OnePlace == ASSUME RInv, TInv PROVE AnsweredAtMostOnce
<1> SUFFICES ASSUME NEW n \in RequestNumbers PROVE Cardinality(Places(n)) <= 1
  BY DEF AnsweredAtMostOnce
<1>0. n # 0
  BY BoundsAssumption DEF RequestNumbers
<1> DEFINE A == {<<"requests", i>> : i \in {j \in DOMAIN requests : requests[j].n = n}}
<1> DEFINE B == {<<"deferred", s>> : s \in {t \in Slots : Active(t) /\ deferred[t].n = n}}
<1> DEFINE C == {<<"responses", i>> : i \in {j \in DOMAIN responses : responses[j].n = n}}
<1> DEFINE D == {<<"written", w[2]>> : w \in {v \in written : v[1] = n}}
<1>1. /\ A # {} => Has(requests, n)
      /\ B # {} => Waiting(n)
      /\ C # {} => Has(responses, n)
      /\ D # {} => Written(n)
  BY DEF Has, Waiting, Written
<1>2. \A x, y \in A : x = y
  BY <1>0 DEF RInv, OnceInPlace, Once
<1>3. \A x, y \in B : x = y
  BY DEF RInv, OnceInPlace
<1>4. \A x, y \in C : x = y
  BY <1>0 DEF RInv, OnceInPlace, Once
<1>5. \A x, y \in D : x = y
  BY DEF RInv, OnceInPlace
<1>6. Places(n) = A \cup B \cup C \cup D
  BY DEF Places
<1>7. /\ A # {} => B = {} /\ C = {} /\ D = {}
      /\ B # {} => C = {} /\ D = {}
      /\ C # {} => D = {}
  <2> HIDE DEF A, B, C, D
  <2> QED BY <1>1 DEF RInv, Apart
<1> HIDE DEF A, B, C, D
<1>8. \A x, y \in Places(n) : x = y
  BY <1>2, <1>3, <1>4, <1>5, <1>6, <1>7
<1> QED BY <1>8, AtMostOne

\* Whatever completions, timeouts, cancellations, reconnects and refused posts
\* happen to it, a request of the control port is dispatched once and answered
\* at most once (complete_deferred_control_response,
\* cancel_deferred_control_response, dispatch_control_requests).
THEOREM NoSecondAnswer == SafetySpec => []AnsweredAtMostOnce
<1>1. TInv /\ RInv => AnsweredAtMostOnce
  BY OnePlace
<1> QED BY InitTInv, NextTInv, InitRInv, NextRInv, <1>1, PTL DEF SafetySpec

-----------------------------------------------------------------------------
(* Where a token is, and the payload it stands for.                        *)

TokenNumbers == 1 .. MaxRequests

\* The counterparts of Has and Once for tokens (untokened items carry 0).
Carries(q, t) == \E i \in DOMAIN q : q[i].token = t
OnceToken(q) == \A i, j \in DOMAIN q : q[i].token = q[j].token /\ q[i].token # 0 => i = j

\* The worker is about to announce the payload it has stored under t.
Held(t) == w_pc # "idle" /\ w_payload.token = t
Owned(t) == \E s \in Slots : Active(s) /\ deferred[s].token = t

\* A token travels once: in the command, in the worker's hands, in the event.
Flights ==
  /\ OnceToken(commands) /\ OnceToken(events)
  /\ \A t \in TokenNumbers :
       /\ Carries(commands, t) => ~Held(t) /\ ~Carries(events, t)
       /\ Held(t) => ~Carries(events, t)

\* No token is anywhere before runtime_client has handed it out.
Spent ==
  \A t \in TokenNumbers :
    Carries(commands, t) \/ Held(t) \/ Carries(events, t) \/ Owned(t) => t <= next_request_token

\* Entries have tokens of their own; bulk entries and bulk events have one.
Owners ==
  /\ \A s, u \in Slots :
       Active(s) /\ Active(u) /\ deferred[s].token = deferred[u].token /\ deferred[s].token # 0 => s = u
  /\ \A s \in Slots : Active(s) /\ deferred[s].kind \in Bulk => deferred[s].token # 0
  /\ \A i \in DOMAIN events : events[i].type \in Bulk => events[i].token # 0

\* ClaimFindsPayload for the payload that is not announced yet.
HeldStored ==
  w_pc = "publish" =>
    \A s \in Slots : Active(s) /\ deferred[s].token = w_payload.token => w_payload \in pool

CInv == Flights /\ Spent /\ Owners /\ HeldStored /\ ClaimFindsPayload

LEMMA TailCarries ==
  ASSUME NEW S, NEW q \in Seq(S), q # <<>>, OnceToken(q)
  PROVE  /\ OnceToken(Tail(q)) /\ Carries(q, Head(q).token)
         /\ \A t : Carries(Tail(q), t) => Carries(q, t)
         /\ Head(q).token # 0 => ~Carries(Tail(q), Head(q).token)
         /\ \A i \in DOMAIN Tail(q) : \E j \in DOMAIN q : Tail(q)[i] = q[j]
<1>1. /\ Len(q) \in Nat \ {0} /\ Head(q) = q[1] /\ DOMAIN q = 1 .. Len(q)
      /\ DOMAIN Tail(q) = 1 .. Len(q) - 1
      /\ \A i \in 1 .. Len(q) - 1 : Tail(q)[i] = q[i + 1]
  BY TailType
<1>2. 1 \in DOMAIN q /\ \A i \in DOMAIN Tail(q) : i + 1 \in DOMAIN q /\ i + 1 # 1 /\ i \in Nat
  BY <1>1
<1>3. OnceToken(Tail(q))
  <2> SUFFICES ASSUME NEW i \in DOMAIN Tail(q), NEW j \in DOMAIN Tail(q),
                      Tail(q)[i].token = Tail(q)[j].token, Tail(q)[i].token # 0
               PROVE  i = j
    BY DEF OnceToken
  <2>1. i + 1 = j + 1
    BY <1>1, <1>2 DEF OnceToken
  <2> QED BY <2>1, <1>2
<1>4. Carries(q, Head(q).token) /\ \A t : Carries(Tail(q), t) => Carries(q, t)
  BY <1>1, <1>2 DEF Carries
<1>5. Head(q).token # 0 => ~Carries(Tail(q), Head(q).token)
  BY <1>1, <1>2 DEF Carries, OnceToken
<1> QED BY <1>1, <1>2, <1>3, <1>4, <1>5

LEMMA AppendCarries ==
  ASSUME NEW S, NEW q \in Seq(S), NEW x \in S, OnceToken(q), x.token # 0 => ~Carries(q, x.token)
  PROVE  /\ OnceToken(Append(q, x))
         /\ \A t : Carries(Append(q, x), t) => Carries(q, t) \/ t = x.token
         /\ \A i \in DOMAIN Append(q, x) : Append(q, x)[i] = x \/ \E j \in DOMAIN q : Append(q, x)[i] = q[j]
<1>1. /\ Len(q) \in Nat /\ DOMAIN q = 1 .. Len(q) /\ DOMAIN Append(q, x) = 1 .. Len(q) + 1
      /\ \A i \in 1 .. Len(q) : Append(q, x)[i] = q[i]
      /\ Append(q, x)[Len(q) + 1] = x
  OBVIOUS
<1>2. \A i \in DOMAIN Append(q, x) : i \in DOMAIN q \/ i = Len(q) + 1
  BY <1>1
<1>3. \A t : Carries(Append(q, x), t) => Carries(q, t) \/ t = x.token
  BY <1>1, <1>2 DEF Carries
<1>4. OnceToken(Append(q, x))
  <2> SUFFICES ASSUME NEW i \in DOMAIN Append(q, x), NEW j \in DOMAIN Append(q, x),
                      Append(q, x)[i].token = Append(q, x)[j].token, Append(q, x)[i].token # 0
               PROVE  i = j
    BY DEF OnceToken
  <2>1. CASE i \in DOMAIN q /\ j \in DOMAIN q
    BY <1>1, <2>1 DEF OnceToken
  <2>2. CASE i \in DOMAIN q /\ j = Len(q) + 1
    BY <1>1, <2>2 DEF Carries
  <2>3. CASE i = Len(q) + 1 /\ j \in DOMAIN q
    BY <1>1, <2>3 DEF Carries
  <2> QED BY <1>2, <2>1, <2>2, <2>3
<1> QED BY <1>1, <1>2, <1>3, <1>4

\* A step moves at most one token m, and leaves it in flight at most once.
LEMMA TokenTransfer ==
  ASSUME CInv, OnceToken(commands'), OnceToken(events'), NEW m,
         \A t \in TokenNumbers \ {m} :
           /\ Carries(commands', t) => Carries(commands, t)
           /\ Held(t)' => Held(t)
           /\ Carries(events', t) => Carries(events, t)
           /\ Owned(t)' => Owned(t),
         m \in TokenNumbers =>
           /\ Carries(commands', m) => ~Held(m)' /\ ~Carries(events', m)
           /\ Held(m)' => ~Carries(events', m)
           /\ m <= next_request_token',
         next_request_token \in Nat, next_request_token' \in Nat,
         next_request_token <= next_request_token'
  PROVE  Flights' /\ Spent'
<1>1. Flights'
  <2> SUFFICES ASSUME NEW t \in TokenNumbers
               PROVE  /\ Carries(commands', t) => ~Held(t)' /\ ~Carries(events', t)
                      /\ Held(t)' => ~Carries(events', t)
    BY DEF Flights, Carries, OnceToken
  <2>1. CASE t = m
    BY <2>1
  <2>2. CASE t # m
    BY <2>2 DEF CInv, Flights
  <2> QED BY <2>1, <2>2
<1>2. Spent'
  <2> SUFFICES ASSUME NEW t \in TokenNumbers,
                      Carries(commands', t) \/ Held(t)' \/ Carries(events', t) \/ Owned(t)'
               PROVE  t <= next_request_token'
    BY DEF Spent, Carries
  <2>1. CASE t = m
    BY <2>1
  <2>2. CASE t # m
    <3>1. t <= next_request_token
      BY <2>2 DEF CInv, Spent
    <3> QED BY <3>1, BoundsAssumption DEF TokenNumbers
  <2> QED BY <2>1, <2>2
<1> QED BY <1>1, <1>2

LEMMA InitCInv == Init => CInv
BY DEF Init, CInv, Flights, Spent, Owners, HeldStored, ClaimFindsPayload, Carries, OnceToken,
       Held, Owned, Active, Inactive

LEMMA KeepsCInv ==
  ASSUME CInv, UNCHANGED <<deferred, next_request_token, commands, events, pool, w_pc, w_payload>>
  PROVE  CInv'
BY DEF CInv, Flights, Spent, Owners, HeldStored, ClaimFindsPayload, Carries, OnceToken,
       Held, Owned, Active

\* Main's side: entries are only freed, events only taken.
LEMMA FewerCInv ==
  ASSUME TInv, CInv, UNCHANGED <<next_request_token, commands, w_pc, w_payload>>,
         \A s \in Slots : Active(s)' => Active(s) /\ deferred'[s] = deferred[s],
         OnceToken(events'), \A t : Carries(events', t) => Carries(events, t),
         \A i \in DOMAIN events' : \E j \in DOMAIN events : events'[i] = events[j],
         HeldStored', ClaimFindsPayload'
  PROVE  CInv'
<1>1. \A t : Owned(t)' => Owned(t)
  BY DEF Owned
<1>2. \A t : Held(t)' <=> Held(t)
  BY DEF Held
<1>3. next_request_token \in Nat /\ next_request_token <= next_request_token
  BY BoundsAssumption DEF TInv, TypeOK, Tokens
<1>4. Flights' /\ Spent'
  <2>1. OnceToken(commands') /\ 0 \notin TokenNumbers
    BY BoundsAssumption DEF CInv, Flights, TokenNumbers
  <2>2. \A t \in TokenNumbers \ {0} :
          /\ Carries(commands', t) => Carries(commands, t)
          /\ Held(t)' => Held(t)
          /\ Carries(events', t) => Carries(events, t)
          /\ Owned(t)' => Owned(t)
    BY <1>1, <1>2
  <2> QED BY <1>3, <2>1, <2>2, TokenTransfer
<1>5. Owners'
  <2>1. \A s, u \in Slots : Active(s)' /\ Active(u)' /\ deferred'[s].token = deferred'[u].token
                            /\ deferred'[s].token # 0 => s = u
    BY DEF CInv, Owners
  <2>2. \A s \in Slots : Active(s)' /\ deferred'[s].kind \in Bulk => deferred'[s].token # 0
    BY DEF CInv, Owners
  <2>3. \A i \in DOMAIN events' : events'[i].type \in Bulk => events'[i].token # 0
    BY DEF CInv, Owners
  <2> QED BY <2>1, <2>2, <2>3 DEF Owners
<1> QED BY <1>4, <1>5 DEF CInv

\* The event of a token, and the entry that owns it.
LEMMA EventToken ==
  ASSUME TInv, NEW i \in DOMAIN events, events[i].token # 0
  PROVE  events[i].token \in TokenNumbers
<1>1. events[i] \in RtEvent
  BY DEF TInv, TypeOK
<1> QED BY <1>1, BoundsAssumption DEF RtEvent, Tokens, TokenNumbers

LEMMA PayloadToken ==
  ASSUME TInv, w_pc # "idle"
  PROVE  w_payload.token \in TokenNumbers /\ w_payload.token # 0 /\ w_payload.kind \in Bulk
         /\ w_payload = [token |-> w_payload.token, kind |-> w_payload.kind]
BY BoundsAssumption DEF TInv, Budget, Payload, TokenNumbers

\* An entry is freed together with the payloads of its token.
LEMMA CancelsCInv ==
  ASSUME TInv, CInv, NEW s \in Slots, Active(s),
         deferred' = [deferred EXCEPT ![s] = Inactive], pool' = Cancelled(deferred[s].token),
         UNCHANGED <<next_request_token, commands, events, w_pc, w_payload>>
  PROVE  CInv'
<1>1. \A u \in Slots : Active(u)' => Active(u) /\ deferred'[u] = deferred[u] /\ u # s
  BY DEF TInv, TypeOK, Active, Inactive
<1>2. HeldStored'
  <2> SUFFICES ASSUME w_pc = "publish", NEW u \in Slots, Active(u)', deferred[u].token = w_payload.token
               PROVE  w_payload \in pool'
    BY <1>1 DEF HeldStored
  <2>1. w_payload \in pool
    BY <1>1 DEF CInv, HeldStored
  <2>2. w_payload.token # deferred[s].token
    BY <1>1, PayloadToken DEF CInv, Owners
  <2> QED BY <2>1, <2>2 DEF Cancelled
<1>3. ClaimFindsPayload'
  <2> SUFFICES ASSUME NEW i \in DOMAIN events, NEW u \in Slots, Active(u)',
                      events[i].type \in Bulk, events[i].ok, deferred[u].token = events[i].token
               PROVE  [token |-> events[i].token, kind |-> events[i].type] \in pool'
    BY <1>1 DEF ClaimFindsPayload
  <2>1. [token |-> events[i].token, kind |-> events[i].type] \in pool
    BY <1>1 DEF CInv, ClaimFindsPayload
  <2>2. events[i].token # deferred[s].token
    BY <1>1 DEF CInv, Owners
  <2> QED BY <2>1, <2>2 DEF Cancelled
<1>4. OnceToken(events)
  BY DEF CInv, Flights
<1>5. OnceToken(events') /\ \A t : Carries(events', t) => Carries(events, t)
  BY <1>4
<1> QED BY <1>1, <1>2, <1>3, <1>5, FewerCInv

LEMMA CheckSessionCInv == ASSUME TInv, CInv, CheckSession PROVE CInv'
<1>. PICK s : s = m_slot
  OBVIOUS
<1>1. s \in Slots /\ UNCHANGED <<next_request_token, commands, events, w_pc, w_payload>>
  BY DEF CheckSession, TInv, Tables, workerVars
<1>2. CASE UNCHANGED <<pool, deferred>>
  BY <1>1, <1>2, KeepsCInv
<1>3. CASE ~UNCHANGED <<pool, deferred>>
  <2>1. Active(s) /\ deferred' = [deferred EXCEPT ![s] = Inactive] /\ pool' = Cancelled(deferred[s].token)
    BY <1>3 DEF CheckSession, Active
  <2> QED BY <1>1, <2>1, CancelsCInv
<1> QED BY <1>2, <1>3

LEMMA TimeOutCInv == ASSUME TInv, CInv, TimeOut PROVE CInv'
<1>. PICK s : s = m_slot
  OBVIOUS
<1>1. /\ s \in Slots /\ Active(s) /\ pool' = Cancelled(deferred[s].token)
      /\ deferred' = [deferred EXCEPT ![s] = Inactive]
      /\ UNCHANGED <<next_request_token, commands, events, w_pc, w_payload>>
  BY DEF TimeOut, TInv, Tables, workerVars
<1> QED BY <1>1, CancelsCInv

LEMMA PollEventCInv == ASSUME TInv, CInv, PollEvent PROVE CInv'
<1>. PICK e : e = Head(events)
  OBVIOUS
<1>0. /\ events # <<>> /\ events' = Tail(events) /\ events \in Seq(RtEvent)
      /\ UNCHANGED <<next_request_token, commands, w_pc, w_payload>>
  BY DEF PollEvent, workerVars, TInv, TypeOK
<1>1. /\ OnceToken(events') /\ Carries(events, e.token)
      /\ \A t : Carries(events', t) => Carries(events, t)
      /\ e.token # 0 => ~Carries(events', e.token)
      /\ \A i \in DOMAIN events' : \E j \in DOMAIN events : events'[i] = events[j]
  BY <1>0, TailCarries DEF CInv, Flights
<1>2. 1 \in DOMAIN events /\ e = events[1]
  BY <1>0, TailType
<1>3. \A s \in Slots : Active(s)' => Active(s) /\ deferred'[s] = deferred[s]
  <2>1. ASSUME NEW u \in Slots, CompleteDeferred(u, e)
        PROVE  \A s \in Slots : Active(s)' => Active(s) /\ deferred'[s] = deferred[s]
    <3>1. deferred' = deferred \/ deferred' = [deferred EXCEPT ![u] = Inactive]
      BY <2>1 DEF CompleteDeferred
    <3> QED BY <3>1 DEF TInv, TypeOK, Active, Inactive
  <2>2. CASE deferred' = deferred
    BY <2>2 DEF Active
  <2> QED BY <2>1, <2>2 DEF PollEvent
<1>4. \A p \in pool : p \notin pool' => p.token = e.token /\ e.token # 0
  <2> SUFFICES ASSUME NEW p \in pool, p \notin pool' PROVE p.token = e.token /\ e.token # 0
    OBVIOUS
  <2>1. p = [token |-> e.token, kind |-> e.type]
    BY DEF PollEvent, CompleteDeferred
  <2>2. p \in Payload
    BY DEF TInv, TypeOK
  <2> QED BY <2>1, <2>2, BoundsAssumption DEF Payload
<1>5. HeldStored'
  <2> SUFFICES ASSUME w_pc = "publish", NEW s \in Slots, Active(s)', deferred'[s].token = w_payload.token
               PROVE  w_payload \in pool'
    BY <1>0 DEF HeldStored
  <2>1. w_payload \in pool
    BY <1>3 DEF CInv, HeldStored
  <2>2. Held(w_payload.token) /\ w_payload.token \in TokenNumbers
    BY PayloadToken DEF Held
  <2>3. ~Carries(events, w_payload.token)
    BY <2>2 DEF CInv, Flights
  <2> QED BY <1>1, <1>4, <2>1, <2>3
<1>6. ClaimFindsPayload'
  <2> SUFFICES ASSUME NEW i \in DOMAIN events', NEW s \in Slots, Active(s)',
                      events'[i].type \in Bulk, events'[i].ok, deferred'[s].token = events'[i].token
               PROVE  [token |-> events'[i].token, kind |-> events'[i].type] \in pool'
    BY DEF ClaimFindsPayload
  <2>1. [token |-> events'[i].token, kind |-> events'[i].type] \in pool
    BY <1>1, <1>3 DEF CInv, ClaimFindsPayload
  <2>2. Carries(events', events'[i].token)
    BY DEF Carries
  <2> QED BY <1>1, <1>4, <2>1, <2>2
<1> QED BY <1>0, <1>1, <1>3, <1>5, <1>6, FewerCInv

LEMMA DispatchCInv == ASSUME TInv, CInv, Dispatch PROVE CInv'
<1>. PICK r : r = Head(requests)
  OBVIOUS
<1>0. UNCHANGED <<events, pool, w_pc, w_payload>>
  BY DEF Dispatch, workerVars
<1>1. next_request_token \in Nat /\ next_request_token + 1 \in TokenNumbers
  <2>1. Len(requests) \in Nat \ {0}
    BY TailType DEF Dispatch, TInv, TypeOK
  <2>2. /\ next_request_token \in Nat /\ Len(asked) \in Nat /\ Len(asked) <= MaxRequests
        /\ next_request_token + Len(requests) <= Len(asked)
    BY BoundsAssumption DEF TInv, TypeOK, Tokens, Budget
  <2> QED BY <2>1, <2>2, BoundsAssumption DEF TokenNumbers
<1>2. \A t : Held(t)' <=> Held(t)
  BY <1>0 DEF Held
<1>3. OnceToken(events') /\ OnceToken(commands) /\ commands \in Seq(Command)
  BY <1>0 DEF CInv, Flights, TInv, TypeOK
<1>4. CASE BeginDeferred(r)
  <2>. PICK token : token = IF r.kind \in Bulk THEN next_request_token + 1 ELSE 0
    OBVIOUS
  <2>1. PICK f, entry, cmd :
          /\ deferred' = [deferred EXCEPT ![f] = entry] /\ entry.token = token /\ entry.kind = r.kind
          /\ commands' = Append(commands, cmd) /\ cmd.token = token /\ cmd.type = r.kind
          /\ cmd = [type |-> r.kind, token |-> token]
    <3> DEFINE entry0 == [active |-> TRUE, n |-> r.n, id |-> r.id, kind |-> r.kind,
                          token |-> token,
                          epoch |-> IF r.kind \in Bulk THEN connection_epoch ELSE 0]
    <3> DEFINE cmd0 == [type |-> r.kind, token |-> token]
    <3>1. deferred' = [deferred EXCEPT ![FirstFree] = entry0] /\ commands' = Append(commands, cmd0)
      BY <1>4 DEF BeginDeferred
    <3>2. entry0.token = token /\ entry0.kind = r.kind /\ cmd0.token = token /\ cmd0.type = r.kind
          /\ cmd0 = [type |-> r.kind, token |-> token]
      OBVIOUS
    <3> HIDE DEF entry0, cmd0
    <3> QED BY <3>1, <3>2
  <2>2. next_request_token' = IF r.kind \in Bulk THEN token ELSE next_request_token
    BY <1>4 DEF BeginDeferred
  <2>3. /\ next_request_token' \in Nat /\ next_request_token <= next_request_token'
        /\ token # 0 => /\ token = next_request_token + 1 /\ token \in TokenNumbers
                        /\ ~(token <= next_request_token) /\ token <= next_request_token'
        /\ token = 0 => r.kind \notin Bulk
    BY <1>1, <2>2
  <2>4. token # 0 => ~Carries(commands, token) /\ ~Held(token) /\ ~Carries(events, token) /\ ~Owned(token)
    BY <2>3 DEF CInv, Spent
  <2>5. r.kind \in Deferrable
    BY <1>4 DEF Dispatch, AnswerNow, BeginDeferred
  <2>6. cmd \in Command
    <3>1. token \in Tokens
      BY <1>1, BoundsAssumption DEF Tokens, TokenNumbers
    <3> QED BY <2>1, <2>5, <3>1 DEF Command
  <2>7. OnceToken(commands') /\ \A t : Carries(commands', t) => Carries(commands, t) \/ t = token
    BY <1>3, <2>1, <2>4, <2>6, AppendCarries
  <2>8. \A t \in Slots : t # f => (Active(t)' <=> Active(t)) /\ deferred'[t] = deferred[t]
    BY <2>1 DEF TInv, TypeOK, Active
  <2>9. f \in Slots => deferred'[f] = entry
    BY <2>1 DEF TInv, TypeOK
  <2>10. Flights' /\ Spent'
    <3>1. \A t \in TokenNumbers \ {token} :
            /\ Carries(commands', t) => Carries(commands, t)
            /\ Held(t)' => Held(t)
            /\ Carries(events', t) => Carries(events, t)
            /\ Owned(t)' => Owned(t)
      <4>1. \A t : t # token => (Owned(t)' => Owned(t))
        BY <2>1, <2>8, <2>9 DEF Owned
      <4> QED BY <1>0, <1>2, <2>7, <4>1
    <3>2. token \in TokenNumbers => ~Held(token)' /\ ~Carries(events', token) /\ token <= next_request_token'
      <4>1. 0 \notin TokenNumbers
        BY BoundsAssumption DEF TokenNumbers
      <4> QED BY <1>0, <1>2, <2>3, <2>4, <4>1
    <3> QED BY <1>1, <1>3, <2>3, <2>7, <3>1, <3>2, TokenTransfer
  <2>11. Owners'
    <3>1. \A s, u \in Slots : Active(s)' /\ Active(u)' /\ deferred'[s].token = deferred'[u].token
                              /\ deferred'[s].token # 0 => s = u
      BY <2>1, <2>4, <2>8, <2>9 DEF CInv, Owners, Owned
    <3>2. \A s \in Slots : Active(s)' /\ deferred'[s].kind \in Bulk => deferred'[s].token # 0
      BY <2>1, <2>3, <2>8, <2>9 DEF CInv, Owners
    <3> QED BY <1>0, <3>1, <3>2 DEF CInv, Owners
  <2>12. HeldStored'
    <3> SUFFICES ASSUME w_pc = "publish", NEW s \in Slots, Active(s)', deferred'[s].token = w_payload.token
                 PROVE  w_payload \in pool
      BY <1>0 DEF HeldStored
    <3>1. s # f
      BY <2>1, <2>4, <2>9, PayloadToken DEF Held
    <3> QED BY <2>8, <3>1 DEF CInv, HeldStored
  <2>13. ClaimFindsPayload'
    <3> SUFFICES ASSUME NEW i \in DOMAIN events, NEW s \in Slots, Active(s)',
                        events[i].type \in Bulk, events[i].ok, deferred'[s].token = events[i].token
                 PROVE  [token |-> events[i].token, kind |-> events[i].type] \in pool
      BY <1>0 DEF ClaimFindsPayload
    <3>1. events[i].token # 0 /\ Carries(events, events[i].token)
      BY DEF CInv, Owners, Carries
    <3>2. s # f
      BY <2>1, <2>4, <2>9, <3>1
    <3> QED BY <2>8, <3>2 DEF CInv, ClaimFindsPayload
  <2> QED BY <2>10, <2>11, <2>12, <2>13 DEF CInv
<1>5. CASE AnswerNow(r)
  <2>1. /\ UNCHANGED <<commands, deferred>> /\ next_request_token' \in Nat
        /\ next_request_token <= next_request_token'
    BY <1>1, <1>5 DEF AnswerNow
  <2>2. 0 \notin TokenNumbers /\ OnceToken(commands')
    BY <1>3, <2>1, BoundsAssumption DEF TokenNumbers
  <2>3. \A t \in TokenNumbers \ {0} :
            /\ Carries(commands', t) => Carries(commands, t)
            /\ Held(t)' => Held(t)
            /\ Carries(events', t) => Carries(events, t)
            /\ Owned(t)' => Owned(t)
    BY <1>0, <1>2, <2>1 DEF Owned, Active
  <2>4. Flights' /\ Spent'
    BY <1>1, <1>3, <2>1, <2>2, <2>3, TokenTransfer
  <2>5. Owners' /\ HeldStored' /\ ClaimFindsPayload'
    BY <1>0, <2>1 DEF CInv, Owners, HeldStored, ClaimFindsPayload, Active
  <2> QED BY <2>4, <2>5 DEF CInv
<1> QED BY <1>4, <1>5 DEF Dispatch

\* The worker's side.  An event is announced, or refused by a full queue.
LEMMA AnnouncedCarries ==
  ASSUME TInv, CInv, NEW e \in RtEvent, e.token # 0 => ~Carries(events, e.token),
         events' = Append(events, e) \/ events' = events
  PROVE  /\ OnceToken(events')
         /\ \A t : Carries(events', t) => Carries(events, t) \/ t = e.token
         /\ \A i \in DOMAIN events' : events'[i] = e \/ \E j \in DOMAIN events : events'[i] = events[j]
<1>1. events \in Seq(RtEvent) /\ OnceToken(events)
  BY DEF TInv, TypeOK, CInv, Flights
<1>2. CASE events' = events
  BY <1>1, <1>2
<1>3. CASE events' = Append(events, e)
  BY <1>1, <1>3, AppendCarries
<1> QED BY <1>2, <1>3

LEMMA WorkerTakeCInv == ASSUME TInv, CInv, WorkerTake PROVE CInv'
<1>. PICK c : c = Head(commands)
  OBVIOUS
<1>. PICK payload : payload = [token |-> c.token, kind |-> c.type]
  OBVIOUS
<1>0. /\ w_pc = "idle" /\ commands # <<>> /\ commands' = Tail(commands)
      /\ commands \in Seq(Command) /\ OnceToken(commands)
      /\ UNCHANGED <<deferred, next_request_token>>
  BY DEF WorkerTake, mainVars, TInv, TypeOK, CInv, Flights
<1>1. /\ OnceToken(commands') /\ Carries(commands, c.token)
      /\ \A t : Carries(commands', t) => Carries(commands, t)
      /\ c.token # 0 => ~Carries(commands', c.token)
  BY <1>0, TailCarries
<1>2. c \in Command /\ (c.type \in Bulk => c.token # 0)
  BY <1>0, TailType DEF TInv, Budget
<1>3. c.token # 0 => c.token \in TokenNumbers
  BY <1>2, BoundsAssumption DEF Command, Tokens, TokenNumbers
<1>4. c.token # 0 => ~Carries(events, c.token) /\ c.token <= next_request_token
  BY <1>1, <1>3 DEF CInv, Flights, Spent
<1>5. next_request_token \in Nat /\ next_request_token <= next_request_token /\ 0 \notin TokenNumbers
  BY BoundsAssumption DEF TInv, TypeOK, Tokens, TokenNumbers
<1>6. \A t : Owned(t)' <=> Owned(t)
  BY <1>0 DEF Owned, Active
<1>7. ASSUME NEW e \in RtEvent, e.token \in {0, c.token}, e.type \in Bulk => e.token # 0 /\ ~e.ok,
             Publishes(e), UNCHANGED <<pool, w_pc, w_payload>>
      PROVE  CInv'
  <2>1. /\ OnceToken(events')
        /\ \A t : Carries(events', t) => Carries(events, t) \/ t = e.token
        /\ \A i \in DOMAIN events' : events'[i] = e \/ \E j \in DOMAIN events : events'[i] = events[j]
    BY <1>4, <1>7, AnnouncedCarries DEF Publishes, Pushed
  <2>2. Flights' /\ Spent'
    <3>1. \A t \in TokenNumbers \ {c.token} :
            /\ Carries(commands', t) => Carries(commands, t)
            /\ Held(t)' => Held(t)
            /\ Carries(events', t) => Carries(events, t)
            /\ Owned(t)' => Owned(t)
      BY <1>1, <1>5, <1>6, <1>7, <2>1 DEF Held
    <3>2. ~Held(c.token)' /\ (c.token \in TokenNumbers =>
             ~Carries(commands', c.token) /\ c.token <= next_request_token')
      BY <1>0, <1>1, <1>4, <1>5, <1>7 DEF Held
    <3> QED BY <1>0, <1>1, <1>5, <2>1, <3>1, <3>2, TokenTransfer
  <2>3. Owners'
    BY <1>0, <1>7, <2>1 DEF CInv, Owners, Active
  <2>4. HeldStored'
    BY <1>0, <1>7 DEF HeldStored
  <2>5. ClaimFindsPayload'
    <3> SUFFICES ASSUME NEW i \in DOMAIN events', NEW s \in Slots, Active(s),
                        events'[i].type \in Bulk, events'[i].ok, deferred[s].token = events'[i].token
                 PROVE  [token |-> events'[i].token, kind |-> events'[i].type] \in pool
      BY <1>0, <1>7 DEF ClaimFindsPayload, Active
    <3>1. PICK j \in DOMAIN events : events'[i] = events[j]
      BY <1>7, <2>1
    <3> QED BY <3>1 DEF CInv, ClaimFindsPayload
  <2> QED BY <2>2, <2>3, <2>4, <2>5 DEF CInv
<1>8. ASSUME c.type \in Bulk, pool' = pool \cup {payload}, w_pc' = "publish",
             w_payload' = payload, UNCHANGED events
      PROVE  CInv'
  <2>1. Flights' /\ Spent'
    <3>1. OnceToken(events') /\ payload.token = c.token
      BY <1>8 DEF CInv, Flights
    <3>2. \A t \in TokenNumbers \ {c.token} :
            /\ Carries(commands', t) => Carries(commands, t)
            /\ Held(t)' => Held(t)
            /\ Carries(events', t) => Carries(events, t)
            /\ Owned(t)' => Owned(t)
      BY <1>1, <1>6, <1>8, <3>1 DEF Held
    <3>3. ~Carries(commands', c.token) /\ ~Carries(events', c.token) /\ c.token <= next_request_token'
      BY <1>0, <1>1, <1>2, <1>4, <1>8
    <3> QED BY <1>0, <1>1, <1>5, <3>1, <3>2, <3>3, TokenTransfer
  <2>2. Owners'
    BY <1>0, <1>8 DEF CInv, Owners, Active
  <2>3. HeldStored'
    BY <1>8 DEF HeldStored
  <2>4. ClaimFindsPayload'
    BY <1>0, <1>8 DEF CInv, ClaimFindsPayload, Active
  <2> QED BY <2>1, <2>2, <2>3, <2>4 DEF CInv
<1>9. CASE c.type = "plain" /\ Publishes([type |-> "plain", token |-> 0, ok |-> TRUE])
           /\ UNCHANGED <<pool, w_pc, w_payload>>
  <2>1. PICK e : e = [type |-> "plain", token |-> 0, ok |-> TRUE]
    OBVIOUS
  <2>2. e \in RtEvent /\ e.token = 0 /\ e.type \notin Bulk
    BY <2>1, PlainEventType DEF Bulk
  <2> QED BY <1>7, <1>9, <2>1, <2>2
<1>10. CASE c.type \in Bulk /\ Publishes(PayloadEvent(payload, FALSE)) /\ UNCHANGED <<pool, w_pc, w_payload>>
  <2>1. PICK e : e = PayloadEvent(payload, FALSE)
    OBVIOUS
  <2>2. payload \in Payload
    BY <1>2, <1>10, BoundsAssumption DEF Command, Payload, Tokens
  <2>3. e \in RtEvent
    BY <2>1, <2>2, PayloadEventType
  <2>4. e.token = c.token /\ ~e.ok
    BY <2>1 DEF PayloadEvent
  <2> QED BY <1>2, <1>7, <1>10, <2>1, <2>3, <2>4
<1> QED BY <1>8, <1>9, <1>10 DEF WorkerTake

LEMMA WorkerDropsCInv == ASSUME TInv, CInv, WorkerDrops PROVE CInv'
<1>0. /\ commands # <<>> /\ commands' = Tail(commands)
      /\ commands \in Seq(Command) /\ OnceToken(commands)
      /\ UNCHANGED <<deferred, next_request_token, events, pool, w_pc, w_payload>>
  BY DEF WorkerDrops, mainVars, workerVars, TInv, TypeOK, CInv, Flights
<1>1. OnceToken(commands') /\ \A t : Carries(commands', t) => Carries(commands, t)
  BY <1>0, TailCarries
<1>2. next_request_token \in Nat /\ next_request_token <= next_request_token /\ 0 \notin TokenNumbers
  BY BoundsAssumption DEF TInv, TypeOK, Tokens, TokenNumbers
<1>3. \A t \in TokenNumbers \ {0} :
        /\ Carries(commands', t) => Carries(commands, t)
        /\ Held(t)' => Held(t)
        /\ Carries(events', t) => Carries(events, t)
        /\ Owned(t)' => Owned(t)
  BY <1>0, <1>1 DEF Held, Owned, Active
<1>4. OnceToken(events')
  BY <1>0 DEF CInv, Flights
<1>5. Flights' /\ Spent'
  BY <1>0, <1>1, <1>2, <1>3, <1>4, TokenTransfer
<1>6. Owners' /\ HeldStored' /\ ClaimFindsPayload'
  BY <1>0 DEF CInv, Owners, HeldStored, ClaimFindsPayload, Active
<1> QED BY <1>5, <1>6 DEF CInv

\* The worker announces e, or gives its payload up.
LEMMA AnnouncesCInv ==
  ASSUME TInv, CInv, NEW e \in RtEvent,
         events' = Append(events, e) \/ events' = events,
         UNCHANGED <<deferred, next_request_token, commands, w_payload>>,
         \/ e.token = 0 /\ e.type \notin Bulk /\ w_pc = "idle" /\ w_pc' = "idle" /\ pool' = pool
         \/ /\ w_pc # "idle" /\ e.token = w_payload.token /\ e.type = w_payload.kind
            /\ \/ w_pc' = "idle" /\ pool' = pool /\ (e.ok => w_pc = "publish")
               \/ w_pc' = "retry" /\ events' = events /\ pool' = pool \ {w_payload}
  PROVE  CInv'
<1>1. e.token # 0 => e.token = w_payload.token /\ Held(e.token) /\ e.token \in TokenNumbers
  BY PayloadToken DEF Held
<1>2. e.token # 0 => ~Carries(events, e.token) /\ ~Carries(commands, e.token) /\ e.token <= next_request_token
  BY <1>1 DEF CInv, Flights, Spent
<1>3. /\ OnceToken(events')
      /\ \A t : Carries(events', t) => Carries(events, t) \/ t = e.token
      /\ \A i \in DOMAIN events' : events'[i] = e \/ \E j \in DOMAIN events : events'[i] = events[j]
  BY <1>2, AnnouncedCarries
<1>4. next_request_token \in Nat /\ next_request_token <= next_request_token /\ 0 \notin TokenNumbers
  BY BoundsAssumption DEF TInv, TypeOK, Tokens, TokenNumbers
<1>5. Flights' /\ Spent'
  <2>1. \A t \in TokenNumbers \ {e.token} :
          /\ Carries(commands', t) => Carries(commands, t)
          /\ Held(t)' => Held(t)
          /\ Carries(events', t) => Carries(events, t)
          /\ Owned(t)' => Owned(t)
    BY <1>3 DEF Held, Owned, Active
  <2>2. e.token \in TokenNumbers => /\ ~Carries(commands', e.token) /\ e.token <= next_request_token'
                                    /\ Held(e.token)' => ~Carries(events', e.token)
    BY <1>2, <1>4 DEF Held
  <2>3. OnceToken(commands')
    BY DEF CInv, Flights
  <2> QED BY <1>3, <1>4, <2>1, <2>2, <2>3, TokenTransfer
<1>6. Owners'
  BY <1>1, <1>3, PayloadToken DEF CInv, Owners, Active
<1>7. HeldStored'
  BY DEF HeldStored
<1>8. ClaimFindsPayload'
  <2> SUFFICES ASSUME NEW i \in DOMAIN events', NEW s \in Slots, Active(s),
                      events'[i].type \in Bulk, events'[i].ok, deferred[s].token = events'[i].token
               PROVE  [token |-> events'[i].token, kind |-> events'[i].type] \in pool'
    BY DEF ClaimFindsPayload, Active
  <2>1. CASE \E j \in DOMAIN events : events'[i] = events[j]
    <3>1. PICK j \in DOMAIN events : events'[i] = events[j]
      BY <2>1
    <3>2. [token |-> events[j].token, kind |-> events[j].type] \in pool
      BY <3>1 DEF CInv, ClaimFindsPayload
    <3>3. events[j].token # 0 /\ Carries(events, events[j].token)
      BY <3>1 DEF CInv, Owners, Carries
    <3>4. [token |-> events[j].token, kind |-> events[j].type] # w_payload \/ w_pc = "idle"
      BY <1>1, <1>2, <3>3, PayloadToken
    <3> QED BY <3>1, <3>2, <3>4
  <2>2. CASE events'[i] = e /\ ~ \E j \in DOMAIN events : events'[i] = events[j]
    <3>1. w_pc = "publish" /\ pool' = pool /\ e.token = w_payload.token /\ e.type = w_payload.kind
      BY <2>2
    <3>2. w_payload \in pool
      BY <2>2, <3>1 DEF CInv, HeldStored
    <3> QED BY <2>2, <3>1, <3>2, PayloadToken
  <2> QED BY <1>3, <2>1, <2>2
<1> QED BY <1>5, <1>6, <1>7, <1>8 DEF CInv

LEMMA WorkerPublishCInv == ASSUME TInv, CInv, WorkerPublish PROVE CInv'
<1>. PICK e : e = PayloadEvent(w_payload, TRUE)
  OBVIOUS
<1>1. w_pc = "publish" /\ w_payload \in Payload /\ UNCHANGED <<deferred, next_request_token, commands, w_payload>>
  BY DEF WorkerPublish, TInv, Budget, mainVars
<1>2. e \in RtEvent
  BY <1>1, PayloadEventType
<1>3. e.token = w_payload.token /\ e.type = w_payload.kind
  BY DEF PayloadEvent
<1>4. \/ events' = Append(events, e) /\ w_pc' = "idle" /\ pool' = pool
      \/ events' = events /\ w_pc' = "retry" /\ pool' = pool \ {w_payload}
  BY DEF WorkerPublish
<1> QED BY <1>1, <1>2, <1>3, <1>4, AnnouncesCInv

LEMMA WorkerRetryCInv == ASSUME TInv, CInv, WorkerRetry PROVE CInv'
<1>. PICK e : e = PayloadEvent(w_payload, FALSE)
  OBVIOUS
<1>1. /\ w_pc = "retry" /\ w_pc' = "idle" /\ pool' = pool /\ w_payload \in Payload
      /\ UNCHANGED <<deferred, next_request_token, commands, w_payload>>
  BY DEF WorkerRetry, TInv, Budget, mainVars
<1>2. e \in RtEvent
  BY <1>1, PayloadEventType
<1>3. e.token = w_payload.token /\ e.type = w_payload.kind /\ ~e.ok
  BY DEF PayloadEvent
<1>4. events' = Append(events, e) \/ events' = events
  BY DEF WorkerRetry, Publishes, Pushed
<1> QED BY <1>1, <1>2, <1>3, <1>4, AnnouncesCInv

LEMMA TelemetryCInv == ASSUME TInv, CInv, Telemetry PROVE CInv'
<1>1. PICK type \in {"plain", "state"} : Publishes([type |-> type, token |-> 0, ok |-> TRUE])
  BY DEF Telemetry
<1>. PICK e : e = [type |-> type, token |-> 0, ok |-> TRUE]
  OBVIOUS
<1>2. e \in RtEvent /\ e.token = 0 /\ e.type \notin Bulk
  BY PlainEventType DEF Bulk
<1>3. events' = Append(events, e) \/ events' = events
  BY <1>1 DEF Publishes, Pushed
<1>4. /\ w_pc = "idle" /\ w_pc' = "idle" /\ pool' = pool
      /\ UNCHANGED <<deferred, next_request_token, commands, w_payload>>
  BY DEF Telemetry, mainVars
<1> QED BY <1>2, <1>3, <1>4, AnnouncesCInv

LEMMA NextCInv == TInv /\ CInv /\ [Next]_vars => CInv'
<1> SUFFICES ASSUME TInv, CInv, [Next]_vars PROVE CInv'
  OBVIOUS
<1>1. CASE PollEvent \/ CheckSession \/ TimeOut \/ Dispatch
  BY <1>1, PollEventCInv, CheckSessionCInv, TimeOutCInv, DispatchCInv
<1>2. CASE WorkerNext \/ Telemetry
  BY <1>2, WorkerTakeCInv, WorkerDropsCInv, WorkerPublishCInv, WorkerRetryCInv, TelemetryCInv
     DEF WorkerNext
<1>3. CASE UNCHANGED <<deferred, next_request_token, commands, events, pool, w_pc, w_payload>>
  BY <1>3, KeepsCInv
<1>4. CASE SocketNext \/ Hangup
  BY <1>3, <1>4 DEF SocketNext, Accept, Publish, Flush, FlushDone, ReadRequest, ReadRejected,
                    ReadHangup, ReadNothing, DrainDeadline, Drain, Close, Hangup, mainVars, workerVars
<1>5. CASE EventsDone \/ KeepWaiting \/ DispatchDone \/ Join \/ Stop
  BY <1>3, <1>5 DEF EventsDone, KeepWaiting, DispatchDone, Join, Stop, workerVars
<1>6. CASE UNCHANGED vars
  BY <1>3, <1>6 DEF vars, mainVars, workerVars
<1> QED BY <1>1, <1>2, <1>4, <1>5, <1>6 DEF Next, MainNext, Finished

\* A completion event that announces a payload finds it in the pool as long as
\* the entry that owns its token waits: neither another entry's timeout or
\* orphan cancel (runtime_client_cancel_rpc), nor another completion, nor the
\* worker's give-up frees it.
THEOREM PayloadFound == SafetySpec => []ClaimFindsPayload
<1>1. CInv => ClaimFindsPayload
  BY DEF CInv
<1> QED BY InitTInv, NextTInv, InitCInv, NextCInv, <1>1, PTL DEF SafetySpec

-----------------------------------------------------------------------------
(* What is forgotten.                                                      *)

\* Request n or its answer is somewhere.
Placed(n) == Has(requests, n) \/ Waiting(n) \/ Has(responses, n) \/ Written(n)

LEMMA PlacesPlaced ==
  \A n : (Places(n) # {} <=> Placed(n)) /\ (Places(n)' # {} <=> Placed(n)')
<1> TAKE n
<1>1. Places(n) # {} <=> Placed(n)
  <2> DEFINE A == {<<"requests", i>> : i \in {j \in DOMAIN requests : requests[j].n = n}}
  <2> DEFINE B == {<<"deferred", s>> : s \in {t \in Slots : Active(t) /\ deferred[t].n = n}}
  <2> DEFINE C == {<<"responses", i>> : i \in {j \in DOMAIN responses : responses[j].n = n}}
  <2> DEFINE D == {<<"written", w[2]>> : w \in {v \in written : v[1] = n}}
  <2>1. (A # {} <=> Has(requests, n)) /\ (C # {} <=> Has(responses, n))
    BY DEF Has
  <2>2. (B # {} <=> Waiting(n)) /\ (D # {} <=> Written(n))
    BY DEF Waiting, Written
  <2>3. Places(n) = A \cup B \cup C \cup D
    BY DEF Places
  <2> HIDE DEF A, B, C, D
  <2> QED BY <2>1, <2>2, <2>3 DEF Placed
<1>2. Places(n)' # {} <=> Placed(n)'
  <2> DEFINE A == {<<"requests", i>> : i \in {j \in DOMAIN requests' : requests'[j].n = n}}
  <2> DEFINE B == {<<"deferred", s>> : s \in {t \in Slots : Active(t)' /\ deferred'[t].n = n}}
  <2> DEFINE C == {<<"responses", i>> : i \in {j \in DOMAIN responses' : responses'[j].n = n}}
  <2> DEFINE D == {<<"written", w[2]>> : w \in {v \in written' : v[1] = n}}
  <2>1. (A # {} <=> Has(requests', n)) /\ (C # {} <=> Has(responses', n))
    BY DEF Has
  <2>2. (B # {} <=> Waiting(n)') /\ (D # {} <=> Written(n)')
    BY DEF Waiting, Written
  <2>3. Places(n)' = A \cup B \cup C \cup D
    BY DEF Places
  <2>4. Placed(n)' <=> Has(requests', n) \/ Waiting(n)' \/ Has(responses', n) \/ Written(n)'
    BY DEF Placed, Has
  <2> HIDE DEF A, B, C, D
  <2> QED BY <2>1, <2>2, <2>3, <2>4
<1> QED BY <1>1, <1>2

LEMMA TailKeeps ==
  ASSUME NEW S, NEW q \in Seq(S), q # <<>>, NEW n, Has(q, n), n # Head(q).n
  PROVE  Has(Tail(q), n)
<1>1. /\ Len(q) \in Nat \ {0} /\ Head(q) = q[1] /\ DOMAIN q = 1 .. Len(q)
      /\ DOMAIN Tail(q) = 1 .. Len(q) - 1
      /\ \A i \in 1 .. Len(q) - 1 : Tail(q)[i] = q[i + 1]
  BY TailType
<1>2. PICK i \in DOMAIN q : q[i].n = n
  BY DEF Has
<1>3. i # 1
  BY <1>1, <1>2
<1>4. i - 1 \in DOMAIN Tail(q) /\ i - 1 \in 1 .. Len(q) - 1 /\ (i - 1) + 1 = i
  BY <1>1, <1>3
<1>5. Tail(q)[i - 1] = q[i]
  BY <1>1, <1>4
<1> QED BY <1>2, <1>4, <1>5 DEF Has

LEMMA AppendKeeps ==
  ASSUME NEW S, NEW q \in Seq(S), NEW x \in S
  PROVE  Has(Append(q, x), x.n) /\ \A n : Has(q, n) => Has(Append(q, x), n)
<1>1. /\ Len(q) \in Nat /\ DOMAIN q = 1 .. Len(q) /\ DOMAIN Append(q, x) = 1 .. Len(q) + 1
      /\ \A i \in 1 .. Len(q) : Append(q, x)[i] = q[i]
      /\ Append(q, x)[Len(q) + 1] = x
  OBVIOUS
<1>2. Len(q) + 1 \in DOMAIN Append(q, x) /\ \A i \in DOMAIN q : i \in DOMAIN Append(q, x)
  BY <1>1
<1> QED BY <1>1, <1>2 DEF Has

\* What an accepted push adds, and that a push takes nothing away.
LEMMA PostKeeps ==
  ASSUME TInv, NEW x \in Response, Post(x)
  PROVE  /\ \A n : Has(responses, n) => Has(responses', n)
         /\ Len(responses) # ControlQueue => Has(responses', x.n)
<1>1. responses \in Seq(Response) /\ Len(responses) \in Nat /\ ControlQueue \in Nat
      /\ Len(responses) <= ControlQueue
  BY BoundsAssumption DEF TInv, TypeOK
<1>2. CASE Len(responses) < ControlQueue
  <2>1. responses' = Append(responses, x)
    BY <1>2 DEF Post, Pushed
  <2> QED BY <1>1, <2>1, AppendKeeps
<1>3. CASE ~(Len(responses) < ControlQueue)
  <2>1. responses' = responses
    BY <1>3 DEF Post, Pushed
  <2> QED BY <1>1, <1>3, <2>1
<1> QED BY <1>2, <1>3

\* A connection is visible to main while it is served and drained; a request
\* was asked by this connection or an earlier one; and an entry tagged with an
\* epoch was begun no earlier than its request was asked.
Epochs ==
  /\ s_pc \in {"flush", "read", "drain", "close"} => connected
  /\ \A n \in DOMAIN asked : asked[n].conn <= connection_epoch
  /\ \A s \in Slots : Active(s) /\ deferred[s].epoch # 0 =>
       /\ asked[deferred[s].n].conn <= deferred[s].epoch
       /\ deferred[s].epoch <= connection_epoch

LEMMA InitEpochs == Init => Epochs
BY DEF Init, Epochs, Active, Inactive

LEMMA SeqFacts ==
  ASSUME NEW S, NEW q \in Seq(S)
  PROVE  Len(q) \in Nat /\ DOMAIN q = 1 .. Len(q) /\ \A i \in DOMAIN q : q[i] \in S
OBVIOUS

\* The types of what Epochs compares.
LEMMA EpochTypes ==
  ASSUME TInv, RInv
  PROVE  /\ connection_epoch \in Nat /\ Len(asked) \in Nat /\ DOMAIN asked = 1 .. Len(asked)
         /\ \A n \in DOMAIN asked : asked[n].conn \in Nat
         /\ \A s \in Slots : Active(s) => deferred[s].epoch \in Nat /\ deferred[s].n \in DOMAIN asked
<1>1. /\ connection_epoch \in Nat /\ Len(asked) \in Nat /\ DOMAIN asked = 1 .. Len(asked)
      /\ \A n \in DOMAIN asked : asked[n] \in [conn : 1 .. MaxConnections, id : Ids]
  <2>1. asked \in Seq([conn : 1 .. MaxConnections, id : Ids])
    BY DEF TInv, TypeOK
  <2>2. connection_epoch \in Nat
    BY BoundsAssumption DEF TInv, TypeOK
  <2> QED BY <2>1, <2>2, SeqFacts
<1>2. \A n \in DOMAIN asked : asked[n].conn \in Nat
  BY <1>1, BoundsAssumption
<1>3. ASSUME NEW s \in Slots, Active(s)
      PROVE  deferred[s].epoch \in Nat /\ deferred[s].n \in DOMAIN asked
  <2>1. deferred[s] \in Deferral
    BY <1>3 DEF TInv, TypeOK, Active, Inactive
  <2>2. deferred[s].n \in RequestNumbers /\ deferred[s].epoch \in Nat
    <3>1. deferred[s].n \in RequestNumbers /\ deferred[s].epoch \in 0 .. MaxConnections
      BY <2>1 DEF Deferral
    <3> QED BY <3>1, BoundsAssumption
  <2>3. deferred[s].n <= Len(asked)
    BY <1>3, <2>2 DEF RInv, Known, Waiting
  <2> QED BY <1>1, <2>2, <2>3 DEF RequestNumbers
<1> QED BY <1>1, <1>2, <1>3

\* Steps that begin no entry and read no request.
LEMMA KeepsEpochs ==
  ASSUME TInv, RInv, Epochs, asked' = asked,
         connection_epoch' \in Nat, connection_epoch <= connection_epoch',
         s_pc' \in {"flush", "read", "drain", "close"} => connected',
         \A t \in Slots : Active(t)' => Active(t) /\ deferred'[t] = deferred[t]
  PROVE  Epochs'
<1>1. \A n \in DOMAIN asked' : asked'[n].conn <= connection_epoch'
  BY EpochTypes DEF Epochs
<1>2. ASSUME NEW s \in Slots, Active(s)', deferred'[s].epoch # 0
      PROVE  /\ asked'[deferred'[s].n].conn <= deferred'[s].epoch
             /\ deferred'[s].epoch <= connection_epoch'
  BY <1>2, EpochTypes DEF Epochs
<1> QED BY <1>1, <1>2 DEF Epochs

LEMMA SocketEpochs ==
  ASSUME TInv, RInv, Epochs, (SocketNext /\ ~ReadRequest) \/ Hangup
  PROVE  Epochs'
<1>1. UNCHANGED <<asked, deferred>>
  BY DEF SocketNext, Accept, Publish, Flush, FlushDone, ReadRejected, ReadHangup, ReadNothing,
         DrainDeadline, Drain, Close, Hangup, mainVars
<1>2. connection_epoch \in Nat
  BY EpochTypes
<1>3. connection_epoch' \in Nat /\ connection_epoch <= connection_epoch'
  BY <1>2 DEF SocketNext, Accept, Publish, Flush, FlushDone, ReadRejected, ReadHangup, ReadNothing,
         DrainDeadline, Drain, Close, Hangup
<1>4. s_pc' \in {"flush", "read", "drain", "close"} => connected'
  BY DEF SocketNext, Accept, Publish, Flush, FlushDone, ReadRejected, ReadHangup, ReadNothing,
         DrainDeadline, Drain, Close, Hangup, LoopAgain, Epochs
<1>5. \A t \in Slots : Active(t)' => Active(t) /\ deferred'[t] = deferred[t]
  BY <1>1 DEF Active
<1> QED BY <1>1, <1>3, <1>4, <1>5, KeepsEpochs

LEMMA ReadRequestEpochs == ASSUME TInv, RInv, Epochs, ReadRequest PROVE Epochs'
<1>1. PICK id : asked' = Append(asked, [conn |-> connection_epoch, id |-> id])
  BY DEF ReadRequest
<1>. PICK x : x = [conn |-> connection_epoch, id |-> id]
  OBVIOUS
<1>2. /\ asked' = Append(asked, x) /\ x.conn = connection_epoch
      /\ UNCHANGED <<deferred, connection_epoch, connected>> /\ s_pc = "read"
  BY <1>1 DEF ReadRequest, mainVars
<1>3. PICK S : asked \in Seq(S)
  BY DEF TInv, TypeOK
<1>4. /\ DOMAIN asked' = 1 .. Len(asked) + 1 /\ asked'[Len(asked) + 1] = x
      /\ \A n \in DOMAIN asked : asked'[n] = asked[n]
  BY <1>2, <1>3
<1>5. \A n \in DOMAIN asked' : n \in DOMAIN asked \/ n = Len(asked) + 1
  BY <1>4, EpochTypes
<1>6. \A n \in DOMAIN asked' : asked'[n].conn <= connection_epoch'
  BY <1>2, <1>4, <1>5, EpochTypes DEF Epochs
<1>7. ASSUME NEW s \in Slots, Active(s)', deferred'[s].epoch # 0
      PROVE  /\ asked'[deferred'[s].n].conn <= deferred'[s].epoch
             /\ deferred'[s].epoch <= connection_epoch'
  <2>1. Active(s) /\ deferred'[s] = deferred[s]
    BY <1>2, <1>7 DEF Active
  <2>2. asked'[deferred[s].n] = asked[deferred[s].n]
    BY <2>1, <1>4, EpochTypes
  <2> QED BY <1>2, <1>7, <2>1, <2>2 DEF Epochs
<1>8. s_pc' \in {"flush", "read", "drain", "close"} => connected'
  BY <1>2 DEF Epochs
<1> QED BY <1>6, <1>7, <1>8 DEF Epochs

LEMMA DispatchEpochs == ASSUME TInv, RInv, Epochs, Dispatch PROVE Epochs'
<1>. PICK r : r = Head(requests)
  OBVIOUS
<1>1. UNCHANGED <<s_pc, connected, connection_epoch, asked>> /\ requests # <<>>
  BY DEF Dispatch, socketVars
<1>2. CASE AnswerNow(r)
  <2>1. \A t \in Slots : Active(t)' => Active(t) /\ deferred'[t] = deferred[t]
    BY <1>2 DEF AnswerNow, Active
  <2>2. s_pc' \in {"flush", "read", "drain", "close"} => connected'
    BY <1>1 DEF Epochs
  <2>3. connection_epoch' \in Nat /\ connection_epoch <= connection_epoch'
    BY <1>1, EpochTypes
  <2> QED BY <1>1, <2>1, <2>2, <2>3, KeepsEpochs
<1>3. CASE BeginDeferred(r)
  <2>1. PICK f, entry : /\ deferred' = [deferred EXCEPT ![f] = entry] /\ entry.n = r.n
                        /\ entry.epoch \in {0, connection_epoch}
    <3> DEFINE token == IF r.kind \in Bulk THEN next_request_token + 1 ELSE 0
    <3> DEFINE entry == [active |-> TRUE, n |-> r.n, id |-> r.id, kind |-> r.kind,
                         token |-> token,
                         epoch |-> IF r.kind \in Bulk THEN connection_epoch ELSE 0]
    <3>1. deferred' = [deferred EXCEPT ![FirstFree] = entry]
      BY <1>3 DEF BeginDeferred
    <3>2. entry.n = r.n /\ entry.epoch \in {0, connection_epoch}
      OBVIOUS
    <3> HIDE DEF entry
    <3> QED BY <3>1, <3>2
  <2>2. r.n \in DOMAIN asked
    <3>1. requests \in Seq(Request) /\ r \in Request /\ Once(requests)
      BY <1>1, TailType DEF TInv, TypeOK, RInv, OnceInPlace
    <3>2. Has(requests, r.n) /\ r.n \in RequestNumbers
      BY <1>1, <3>1, TailHas DEF Request
    <3>3. r.n <= Len(asked)
      BY <3>2 DEF RInv, Known
    <3> QED BY <3>2, <3>3, EpochTypes DEF RequestNumbers
  <2>3. ASSUME NEW s \in Slots, Active(s)', deferred'[s].epoch # 0
        PROVE  /\ asked'[deferred'[s].n].conn <= deferred'[s].epoch
               /\ deferred'[s].epoch <= connection_epoch'
    <3>1. CASE s = f
      <4>1. deferred'[s] = entry
        BY <2>1, <3>1 DEF TInv, TypeOK
      <4>2. asked[r.n].conn <= connection_epoch
        BY <2>2 DEF Epochs
      <4> QED BY <1>1, <2>1, <2>3, <4>1, <4>2, EpochTypes
    <3>2. CASE s # f
      <4>1. deferred'[s] = deferred[s] /\ Active(s)
        BY <2>1, <2>3, <3>2 DEF TInv, TypeOK, Active
      <4> QED BY <1>1, <2>3, <4>1 DEF Epochs
    <3> QED BY <3>1, <3>2
  <2> QED BY <1>1, <2>3 DEF Epochs
<1> QED BY <1>2, <1>3 DEF Dispatch

\* Main's other steps only free entries.
LEMMA MainFrees ==
  ASSUME TInv, PollEvent \/ CheckSession \/ TimeOut \/ EventsDone \/ KeepWaiting \/ DispatchDone
               \/ Join \/ Stop
  PROVE  /\ \A t \in Slots : Active(t)' => Active(t) /\ deferred'[t] = deferred[t]
         /\ UNCHANGED <<socketVars, asked, requests, written>>
<1>1. UNCHANGED <<socketVars, asked, requests, written>>
  BY DEF PollEvent, CheckSession, TimeOut, EventsDone, KeepWaiting, DispatchDone, Join, Stop
<1>2. deferred' = deferred \/ \E s \in Slots : deferred' = [deferred EXCEPT ![s] = Inactive]
  <2>1. m_slot \in Slots
    BY DEF TInv, Tables
  <2>2. CASE PollEvent
    BY <2>2 DEF PollEvent, CompleteDeferred
  <2>3. CASE CheckSession \/ TimeOut
    BY <2>1, <2>3 DEF CheckSession, TimeOut
  <2>4. CASE EventsDone \/ KeepWaiting \/ DispatchDone \/ Join \/ Stop
    BY <2>4 DEF EventsDone, KeepWaiting, DispatchDone, Join, Stop
  <2> QED BY <2>2, <2>3, <2>4
<1>3. \A t \in Slots : Active(t)' => Active(t) /\ deferred'[t] = deferred[t]
  <2>1. CASE deferred' = deferred
    BY <2>1 DEF Active
  <2>2. ASSUME NEW s \in Slots, deferred' = [deferred EXCEPT ![s] = Inactive]
        PROVE  \A t \in Slots : Active(t)' => Active(t) /\ deferred'[t] = deferred[t]
    BY <2>2 DEF TInv, TypeOK, Active, Inactive
  <2> QED BY <1>2, <2>1, <2>2
<1> QED BY <1>1, <1>3

LEMMA NextEpochs == TInv /\ RInv /\ Epochs /\ [Next]_vars => Epochs'
<1> SUFFICES ASSUME TInv, RInv, Epochs, [Next]_vars PROVE Epochs'
  OBVIOUS
<1>1. connection_epoch \in Nat
  BY EpochTypes
<1>2. CASE UNCHANGED <<socketVars, asked>>
           /\ \A t \in Slots : Active(t)' => Active(t) /\ deferred'[t] = deferred[t]
  <2>1. s_pc' \in {"flush", "read", "drain", "close"} => connected'
    BY <1>2 DEF Epochs, socketVars
  <2>2. connection_epoch' \in Nat /\ connection_epoch <= connection_epoch' /\ asked' = asked
    BY <1>1, <1>2 DEF socketVars
  <2> QED BY <1>2, <2>1, <2>2, KeepsEpochs
<1>3. CASE SocketNext \/ Hangup
  BY <1>3, SocketEpochs, ReadRequestEpochs
<1>4. CASE MainNext \/ Stop
  BY <1>2, <1>4, MainFrees, DispatchEpochs DEF MainNext
<1>5. CASE WorkerNext \/ Telemetry \/ UNCHANGED vars
  <2>1. UNCHANGED <<socketVars, asked, deferred>>
    BY <1>5 DEF WorkerNext, WorkerTake, WorkerDrops, WorkerPublish, WorkerRetry, Telemetry,
                mainVars, vars
  <2> QED BY <1>2, <2>1 DEF Active
<1> QED BY <1>3, <1>4, <1>5 DEF Next, Finished

\* control_deferred_reserve finds a slot whenever deferred_begin let it look.
LEMMA FreeFound ==
  ASSUME TInv, NEW kind, MayBegin(kind)
  PROVE  FirstFree \in Slots /\ ~Active(FirstFree)
<1> DEFINE F == {s \in Slots : ~Active(s)}
<1>1. F \subseteq Nat /\ F # {}
  <2>1. 1 \in Slots /\ Slots \subseteq Nat
    BY BoundsAssumption DEF Slots
  <2>2. \E s \in Slots : ~Active(s)
    BY <2>1 DEF MayBegin, NoneActive
  <2> QED BY <2>1, <2>2
<1> HIDE DEF F
<1>2. PICK x \in F : \A y \in F : ~(<<y, x>> \in OpToRel(<, Nat))
  BY <1>1, NatLessThanWellFounded, WFMin
<1>3. \A y \in F : ~(y < x)
  <2> TAKE y \in F
  <2> SUFFICES ASSUME y < x PROVE FALSE
    OBVIOUS
  <2>1. <<y, x>> \in Nat \X Nat /\ <<y, x>>[1] < <<y, x>>[2]
    BY <1>1
  <2> QED BY <1>2, <2>1 DEF OpToRel
<1>4. x \in Slots /\ ~Active(x) /\ \A t \in Slots : t < x => Active(t)
  BY <1>2, <1>3 DEF F
<1> QED BY <1>4 DEF FirstFree

\* Request n was asked by the client being served.
Own(n) == n \in DOMAIN asked /\ asked[n].conn = connection_epoch

\* Steps that move no request.
LEMMA StaysPlaced ==
  ASSUME NEW n, Placed(n), UNCHANGED <<requests, responses, deferred, written>>
  PROVE  Placed(n)'
BY DEF Placed, Has, Waiting, Written, Active

LEMMA FlushPlaced ==
  ASSUME TInv, RInv, Flush, Serving', NEW n, Own(n), Placed(n)
  PROVE  Placed(n)'
<1>. PICK r : r = Head(responses)
  OBVIOUS
<1>1. /\ responses # <<>> /\ responses' = Tail(responses) /\ UNCHANGED <<requests, deferred>>
      /\ written' = IF r.kind = "event" THEN written ELSE written \cup {<<r.n, connection_epoch>>}
  BY DEF Flush, mainVars, Serving
<1>2. responses \in Seq(Response) /\ r \in Response /\ n # 0
  <2>1. n # 0
    BY EpochTypes DEF Own
  <2> QED BY <1>1, <2>1, TailType DEF TInv, TypeOK
<1>3. CASE Has(requests, n) \/ Waiting(n) \/ Written(n)
  BY <1>1, <1>3 DEF Placed, Has, Waiting, Written, Active
<1>4. CASE Has(responses, n) /\ n # r.n
  BY <1>1, <1>2, <1>4, TailKeeps DEF Placed
<1>5. CASE n = r.n
  <2>1. r.kind # "event"
    BY <1>2, <1>5 DEF Response, EventLine
  <2>2. <<n, connection_epoch>> \in written'
    BY <1>1, <1>5, <2>1
  <2> QED BY <2>2 DEF Placed, Written
<1> QED BY <1>3, <1>4, <1>5 DEF Placed

LEMMA ReadRequestPlaced ==
  ASSUME TInv, ReadRequest, NEW n, Placed(n) PROVE Placed(n)'
<1>1. PICK id \in Ids, kind \in Kinds :
        requests' = Append(requests, [n |-> Len(asked) + 1, id |-> id, kind |-> kind])
  BY DEF ReadRequest
<1>. PICK x : x = [n |-> Len(asked) + 1, id |-> id, kind |-> kind]
  OBVIOUS
<1>2. x \in Request /\ requests \in Seq(Request)
  <2>1. Len(asked) \in Nat /\ Len(asked) < MaxRequests /\ requests \in Seq(Request)
    BY DEF ReadRequest, TInv, TypeOK
  <2>2. Len(asked) + 1 \in RequestNumbers
    BY <2>1, BoundsAssumption DEF RequestNumbers
  <2> QED BY <2>1, <2>2 DEF Request
<1>3. requests' = Append(requests, x) /\ UNCHANGED <<responses, deferred, written>>
  BY <1>1 DEF ReadRequest, mainVars
<1>4. Has(requests, n) => Has(requests', n)
  BY <1>2, <1>3, AppendKeeps
<1> QED BY <1>3, <1>4 DEF Placed, Has, Waiting, Written, Active

\* An entry is freed and its answer posted: its request is lost only if the
\* post was refused, and no other request is.
LEMMA FreesPlaced ==
  ASSUME TInv, NEW s \in Slots, Active(s), NEW n, Placed(n),
         Post(Reply(deferred[s].n, deferred[s].id)),
         deferred' = [deferred EXCEPT ![s] = Inactive],
         UNCHANGED <<requests, written>>
  PROVE  Placed(n)' \/ Len(responses) = ControlQueue
<1>. PICK x : x = Reply(deferred[s].n, deferred[s].id)
  OBVIOUS
<1>1. x \in Response /\ x.n = deferred[s].n /\ Post(x)
  BY ReplyType DEF TInv, Reply
<1>2. /\ Has(responses, n) => Has(responses', n)
      /\ Len(responses) # ControlQueue => Has(responses', x.n)
  BY <1>1, PostKeeps
<1>3. \A t \in Slots : t # s /\ Active(t) => Active(t)' /\ deferred'[t] = deferred[t]
  BY DEF TInv, TypeOK, Active
<1>4. CASE Waiting(n)
  <2>1. PICK t \in Slots : Active(t) /\ deferred[t].n = n
    BY <1>4 DEF Waiting
  <2>2. CASE t # s
    BY <1>3, <2>1, <2>2 DEF Placed, Waiting
  <2>3. CASE t = s
    BY <1>1, <1>2, <2>1, <2>3 DEF Placed, Has
  <2> QED BY <2>2, <2>3
<1>5. CASE ~Waiting(n)
  BY <1>2, <1>5 DEF Placed, Has, Written
<1> QED BY <1>4, <1>5

LEMMA PollEventPlaced ==
  ASSUME TInv, PollEvent, NEW n, Placed(n) PROVE Placed(n)'
<1>0. UNCHANGED <<requests, written>>
  BY DEF PollEvent
<1>1. ASSUME NEW s \in Slots, NEW e, Completes(s, e), CompleteDeferred(s, e) PROVE Placed(n)'
  <2>1. Active(s) /\ Post(Reply(deferred[s].n, deferred[s].id))
    BY <1>1 DEF Completes, CompleteDeferred
  <2>2. CASE Len(responses) < ControlQueue
    <3>1. Len(responses) # ControlQueue
      BY <2>2, BoundsAssumption DEF TInv, TypeOK
    <3> QED BY <1>0, <1>1, <2>1, <2>2, <3>1, FreesPlaced DEF CompleteDeferred
  <2>3. CASE ~(Len(responses) < ControlQueue)
    <3>1. deferred' = deferred /\ responses' = responses
      BY <1>1, <2>3 DEF CompleteDeferred, Post, Pushed
    <3> QED BY <1>0, <3>1, StaysPlaced
  <2> QED BY <2>2, <2>3
<1>2. ASSUME Post(EventLine) \/ UNCHANGED responses, UNCHANGED deferred PROVE Placed(n)'
  <2>1. Has(responses, n) => Has(responses', n)
    BY <1>2, PostKeeps DEF Response, Has
  <2> QED BY <1>0, <1>2, <2>1 DEF Placed, Has, Waiting, Written, Active
<1> QED BY <1>1, <1>2 DEF PollEvent

\* An entry of the client being served is no orphan.
LEMMA CheckSessionPlaced ==
  ASSUME TInv, RInv, Epochs, CheckSession, Serving, NEW n, Own(n), Placed(n)
  PROVE  Placed(n)'
<1>. PICK s : s = m_slot
  OBVIOUS
<1>1. s \in Slots /\ UNCHANGED <<requests, responses, written>>
  BY DEF CheckSession, TInv, Tables
<1>2. CASE UNCHANGED deferred
  BY <1>1, <1>2, StaysPlaced
<1>3. CASE ~UNCHANGED deferred
  <2>1. /\ Active(s) /\ deferred[s].epoch # 0 /\ (~connected \/ connection_epoch # deferred[s].epoch)
        /\ deferred' = [deferred EXCEPT ![s] = Inactive]
    BY <1>3 DEF CheckSession, Active
  <2>2. connected
    BY DEF Serving, Epochs
  <2>3. deferred[s].n # n
    <3>1. /\ asked[deferred[s].n].conn <= deferred[s].epoch
          /\ deferred[s].epoch <= connection_epoch
      BY <1>1, <2>1 DEF Epochs
    <3>2. deferred[s].epoch \in Nat /\ connection_epoch \in Nat
      BY <1>1, <2>1, EpochTypes
    <3>3. deferred[s].n = n => asked[deferred[s].n].conn = connection_epoch
      BY DEF Own
    <3> QED BY <2>1, <2>2, <3>1, <3>2, <3>3
  <2>4. \A t \in Slots : t # s /\ Active(t) => Active(t)' /\ deferred'[t] = deferred[t]
    BY <2>1 DEF TInv, TypeOK, Active
  <2>5. Waiting(n) => Waiting(n)'
    BY <2>3, <2>4 DEF Waiting
  <2> QED BY <1>1, <2>5 DEF Placed, Has, Written
<1> QED BY <1>2, <1>3

LEMMA DispatchPlaced ==
  ASSUME TInv, RInv, Dispatch, NEW n, Placed(n)
  PROVE  Placed(n)' \/ Len(responses) = ControlQueue
<1>. PICK r : r = Head(requests)
  OBVIOUS
<1>1. requests # <<>> /\ requests' = Tail(requests) /\ written' = written
  BY DEF Dispatch
<1>2. requests \in Seq(Request) /\ r \in Request
  BY <1>1, TailType DEF TInv, TypeOK
<1>3. Has(requests, n) /\ n # r.n => Has(requests', n)
  BY <1>1, <1>2, TailKeeps
<1>4. Written(n)' <=> Written(n)
  BY <1>1 DEF Written
<1>5. CASE BeginDeferred(r)
  <2> DEFINE token == IF r.kind \in Bulk THEN next_request_token + 1 ELSE 0
  <2> DEFINE entry == [active |-> TRUE, n |-> r.n, id |-> r.id, kind |-> r.kind,
                       token |-> token,
                       epoch |-> IF r.kind \in Bulk THEN connection_epoch ELSE 0]
  <2>1. /\ deferred' = [deferred EXCEPT ![FirstFree] = entry] /\ responses' = responses
        /\ MayBegin(r.kind)
    BY <1>5 DEF BeginDeferred
  <2>2. entry.n = r.n /\ entry.active
    OBVIOUS
  <2> HIDE DEF entry
  <2>3. FirstFree \in Slots /\ ~Active(FirstFree)
    BY <2>1, FreeFound
  <2>4. Waiting(r.n)'
    <3>1. deferred'[FirstFree] = entry
      BY <2>1, <2>3 DEF TInv, TypeOK
    <3> QED BY <2>2, <2>3, <3>1 DEF Waiting, Active
  <2>5. Waiting(n) => Waiting(n)'
    <3>1. \A t \in Slots : Active(t) => deferred'[t] = deferred[t]
      BY <2>1, <2>3 DEF TInv, TypeOK
    <3> QED BY <3>1 DEF Waiting, Active
  <2> QED BY <1>3, <1>4, <2>1, <2>4, <2>5 DEF Placed, Has
<1>6. CASE AnswerNow(r)
  <2>1. PICK x \in Response : x.n = r.n /\ Post(x)
    <3> DEFINE kind == IF r.kind = "quit" THEN "bye" ELSE "reply"
    <3> DEFINE x == [Reply(r.n, r.id) EXCEPT !.kind = kind]
    <3>1. x \in Response
      BY <1>2, ReplyType
    <3>2. x.n = r.n
      BY DEF Reply
    <3>3. Post(x)
      BY <1>6 DEF AnswerNow
    <3> HIDE DEF x
    <3> QED BY <3>1, <3>2, <3>3
  <2>2. /\ Has(responses, n) => Has(responses', n)
        /\ Len(responses) # ControlQueue => Has(responses', r.n)
    BY <2>1, PostKeeps
  <2>3. Waiting(n)' <=> Waiting(n)
    BY <1>6 DEF AnswerNow, Waiting, Active
  <2> QED BY <1>3, <1>4, <2>2, <2>3 DEF Placed, Has
<1> QED BY <1>5, <1>6 DEF Dispatch

\* A step that keeps the client served loses nothing of it but an answer
\* refused to a timeout or to dispatch.
LEMMA NextPlaced ==
  ASSUME TInv, RInv, Epochs, [Next]_vars, Serving, Serving', NEW n, Own(n), Placed(n)
  PROVE  Placed(n)' \/ (Len(responses) = ControlQueue /\ (TimeOut \/ Dispatch))
<1>1. CASE Flush \/ ReadRequest \/ PollEvent \/ CheckSession
  BY <1>1, FlushPlaced, ReadRequestPlaced, PollEventPlaced, CheckSessionPlaced
<1>2. CASE TimeOut
  <2>1. m_slot \in Slots
    BY DEF TInv, Tables
  <2> QED BY <1>2, <2>1, FreesPlaced DEF TimeOut
<1>3. CASE Dispatch
  BY <1>3, DispatchPlaced
<1>4. CASE UNCHANGED <<requests, responses, deferred, written>>
  BY <1>4, StaysPlaced
<1>5. CASE Drain
  BY <1>5 DEF Drain, Serving
<1>6. CASE Accept \/ Publish \/ FlushDone \/ ReadRejected \/ ReadHangup \/ ReadNothing
           \/ DrainDeadline \/ Close \/ Hangup
  BY <1>4, <1>6 DEF Accept, Publish, FlushDone, ReadRejected, ReadHangup, ReadNothing,
                    DrainDeadline, Close, Hangup, mainVars
<1>7. CASE EventsDone \/ KeepWaiting \/ DispatchDone \/ Join \/ Stop
  BY <1>4, <1>7 DEF EventsDone, KeepWaiting, DispatchDone, Join, Stop
<1>8. CASE WorkerNext \/ Telemetry \/ UNCHANGED vars
  BY <1>4, <1>8 DEF WorkerNext, WorkerTake, WorkerDrops, WorkerPublish, WorkerRetry, Telemetry,
                    mainVars, vars
<1> QED BY <1>1, <1>2, <1>3, <1>5, <1>6, <1>7, <1>8 DEF Next, SocketNext, MainNext, Finished

LEMMA StepKeeps ==
  ASSUME TInv, RInv, Epochs, [Next]_vars
  PROVE  Serving /\ Serving' =>
           \A n \in DOMAIN asked :
             (asked[n].conn = connection_epoch /\ Places(n) # {} /\ Places(n)' = {})
               => Len(responses) = ControlQueue /\ m_pc \in {"timeout", "dispatch"}
<1> SUFFICES ASSUME Serving, Serving', NEW n \in DOMAIN asked,
                    asked[n].conn = connection_epoch, Places(n) # {}, Places(n)' = {}
             PROVE  Len(responses) = ControlQueue /\ m_pc \in {"timeout", "dispatch"}
  OBVIOUS
<1>1. Own(n) /\ Placed(n) /\ ~Placed(n)'
  BY PlacesPlaced DEF Own
<1>2. Len(responses) = ControlQueue /\ (TimeOut \/ Dispatch)
  BY <1>1, NextPlaced
<1> QED BY <1>2 DEF TimeOut, Dispatch

\* A client that is being served is owed an answer to each of its requests, and
\* main, the worker and the socket thread together keep it: orphan checks,
\* completions out of order, stale events and refused completions forget
\* nothing.  Only cancel_deferred_control_response and the immediate answers of
\* dispatch_control_requests, whose post a full responses queue refuses, do.
THEOREM AnswersAreKept == SafetySpec => AnswersKept
<1>1. TInv /\ RInv /\ Epochs /\ [Next]_vars =>
        [Serving /\ Serving' =>
           \A n \in DOMAIN asked :
             (asked[n].conn = connection_epoch /\ Places(n) # {} /\ Places(n)' = {})
               => Len(responses) = ControlQueue /\ m_pc \in {"timeout", "dispatch"}]_vars
  BY StepKeeps
<1> QED BY InitTInv, NextTInv, InitRInv, NextRInv, InitEpochs, NextEpochs, <1>1, PTL
        DEF SafetySpec, AnswersKept

\* How a step may change what a served client waits for: it reads a new
\* request, or waits for no more than before.
LEMMA OutstandingSteps ==
  ASSUME [Next]_vars, Serving'
  PROVE  \/ outstanding' = {}
         \/ Serving /\ ReadRequest
         \/ Serving /\ UNCHANGED <<asked, connection_epoch>> /\ outstanding' \subseteq outstanding
<1>1. CASE Publish
  BY <1>1 DEF Publish
<1>2. CASE ReadRequest
  BY <1>2 DEF ReadRequest, Serving
<1>3. CASE Accept \/ Flush \/ FlushDone \/ ReadRejected \/ ReadHangup \/ ReadNothing \/ DrainDeadline
           \/ Drain \/ Close
  BY <1>3 DEF Accept, Flush, FlushDone, ReadRejected, ReadHangup, ReadNothing, DrainDeadline,
              Drain, Close, Serving
<1>4. CASE UNCHANGED <<s_pc, asked, connection_epoch, outstanding>>
  BY <1>4 DEF Serving
<1>5. CASE MainNext \/ Stop
  BY <1>4, <1>5 DEF MainNext, PollEvent, EventsDone, CheckSession, KeepWaiting, TimeOut, Dispatch,
                    DispatchDone, Join, Stop, socketVars
<1>6. CASE WorkerNext \/ Telemetry \/ Hangup \/ UNCHANGED vars
  BY <1>4, <1>6 DEF WorkerNext, WorkerTake, WorkerDrops, WorkerPublish, WorkerRetry, Telemetry,
                    Hangup, socketVars, vars
<1> QED BY <1>1, <1>2, <1>3, <1>5, <1>6 DEF Next, SocketNext, Finished

\* A record that answers or carries request n has the id the client gave it.
Matches(x) == x.n # 0 => x.n \in DOMAIN asked /\ asked[x.n].id = x.id
Named ==
  /\ \A i \in DOMAIN requests : Matches(requests[i])
  /\ \A i \in DOMAIN responses : Matches(responses[i])
  /\ \A s \in Slots : Active(s) => Matches(deferred[s])

LEMMA InitNamed == Init => Named
BY DEF Init, Named, Active, Inactive

LEMMA TailIn ==
  ASSUME NEW S, NEW q \in Seq(S), q # <<>>
  PROVE  /\ \E j \in DOMAIN q : Head(q) = q[j]
         /\ \A i \in DOMAIN Tail(q) : \E j \in DOMAIN q : Tail(q)[i] = q[j]
<1>1. /\ Len(q) \in Nat \ {0} /\ Head(q) = q[1] /\ DOMAIN q = 1 .. Len(q)
      /\ DOMAIN Tail(q) = 1 .. Len(q) - 1
      /\ \A i \in 1 .. Len(q) - 1 : Tail(q)[i] = q[i + 1]
  BY TailType
<1>2. 1 \in DOMAIN q /\ \A i \in DOMAIN Tail(q) : i + 1 \in DOMAIN q
  BY <1>1
<1> QED BY <1>1, <1>2

LEMMA AppendIn ==
  ASSUME NEW S, NEW q \in Seq(S), NEW x \in S, NEW i \in DOMAIN Append(q, x)
  PROVE  Append(q, x)[i] = x \/ \E j \in DOMAIN q : Append(q, x)[i] = q[j]
<1>1. /\ Len(q) \in Nat /\ DOMAIN q = 1 .. Len(q) /\ DOMAIN Append(q, x) = 1 .. Len(q) + 1
      /\ \A j \in 1 .. Len(q) : Append(q, x)[j] = q[j]
      /\ Append(q, x)[Len(q) + 1] = x
  OBVIOUS
<1>2. i = Len(q) + 1 \/ i \in DOMAIN q
  BY <1>1
<1> QED BY <1>1, <1>2

\* Only the answer that is posted is new among the responses.
LEMMA PostNamed ==
  ASSUME TInv, Named, NEW x \in Response, Post(x), Matches(x), NEW i \in DOMAIN responses'
  PROVE  Matches(responses'[i])
<1>1. responses \in Seq(Response)
  BY DEF TInv, TypeOK
<1>2. CASE responses' = Append(responses, x)
  <2>1. responses'[i] = x \/ \E j \in DOMAIN responses : responses'[i] = responses[j]
    BY <1>1, <1>2, AppendIn
  <2> QED BY <2>1 DEF Named
<1>3. CASE responses' = responses
  BY <1>3 DEF Named
<1> QED BY <1>2, <1>3 DEF Post, Pushed

\* Steps after which every record is one there was before.
LEMMA KeepsNamed ==
  ASSUME Named, asked' = asked,
         \A i \in DOMAIN requests' : \E j \in DOMAIN requests : requests'[i] = requests[j],
         \A i \in DOMAIN responses' : Matches(responses'[i]),
         \A t \in Slots : Active(t)' => Active(t) /\ deferred'[t] = deferred[t]
  PROVE  Named'
BY DEF Named, Matches

LEMMA ReadRequestNamed == ASSUME TInv, RInv, Named, ReadRequest PROVE Named'
<1>1. PICK id \in Ids, kind \in Kinds :
        /\ requests' = Append(requests, [n |-> Len(asked) + 1, id |-> id, kind |-> kind])
        /\ asked' = Append(asked, [conn |-> connection_epoch, id |-> id])
  BY DEF ReadRequest
<1>. PICK m, x, y : /\ m = Len(asked) + 1
                    /\ x = [n |-> Len(asked) + 1, id |-> id, kind |-> kind]
                    /\ y = [conn |-> connection_epoch, id |-> id]
  OBVIOUS
<1>2. /\ requests' = Append(requests, x) /\ asked' = Append(asked, y)
      /\ x.n = m /\ x.id = id /\ y.id = id
      /\ UNCHANGED <<responses, deferred>>
  BY <1>1 DEF ReadRequest, mainVars
<1>3. requests \in Seq(Request) /\ x \in Request
  <2>1. Len(asked) \in Nat /\ Len(asked) < MaxRequests /\ requests \in Seq(Request)
    BY DEF ReadRequest, TInv, TypeOK
  <2>2. m \in RequestNumbers
    BY <2>1, BoundsAssumption DEF RequestNumbers
  <2> QED BY <2>1, <2>2 DEF Request
<1>4. /\ m \in DOMAIN asked' /\ asked'[m] = y
      /\ \A n \in DOMAIN asked : n \in DOMAIN asked' /\ asked'[n] = asked[n]
  <2>1. PICK S : asked \in Seq(S)
    BY DEF TInv, TypeOK
  <2> QED BY <1>2, <2>1
<1>5. ASSUME NEW z, Matches(z) PROVE z.n # 0 => z.n \in DOMAIN asked' /\ asked'[z.n].id = z.id
  BY <1>4, <1>5 DEF Matches
<1>6. ASSUME NEW i \in DOMAIN requests'
      PROVE  requests'[i].n # 0 =>
               requests'[i].n \in DOMAIN asked' /\ asked'[requests'[i].n].id = requests'[i].id
  <2>1. requests'[i] = x \/ \E j \in DOMAIN requests : requests'[i] = requests[j]
    BY <1>2, <1>3, AppendIn
  <2> QED BY <1>2, <1>4, <1>5, <2>1 DEF Named
<1>7. \A s \in Slots : Active(s)' => Active(s)
  BY <1>2 DEF Active
<1> QED BY <1>2, <1>5, <1>6, <1>7 DEF Named, Matches

LEMMA SocketNamed ==
  ASSUME TInv, Named, (SocketNext /\ ~ReadRequest) \/ Hangup
  PROVE  Named'
<1>1. /\ UNCHANGED <<asked, deferred, requests>>
      /\ \/ responses' = responses \/ responses' = <<>>
         \/ responses # <<>> /\ responses' = Tail(responses)
  BY DEF SocketNext, Accept, Publish, Flush, FlushDone, ReadRejected, ReadHangup, ReadNothing,
         DrainDeadline, Drain, Close, Hangup, mainVars
<1>2. responses \in Seq(Response)
  BY DEF TInv, TypeOK
<1>3. ASSUME NEW i \in DOMAIN responses' PROVE Matches(responses'[i])
  <2>1. \E j \in DOMAIN responses : responses'[i] = responses[j]
    BY <1>1, <1>2, TailIn
  <2> QED BY <2>1 DEF Named
<1> QED BY <1>1, <1>3, KeepsNamed DEF Active

\* The answer of an entry has the id of the entry's request.
LEMMA EntryReply ==
  ASSUME TInv, Named, NEW s \in Slots, Active(s)
  PROVE  /\ Reply(deferred[s].n, deferred[s].id) \in Response
         /\ Matches(Reply(deferred[s].n, deferred[s].id))
<1>1. deferred[s] \in Deferral
  BY DEF TInv, TypeOK, Active, Inactive
<1>2. deferred[s].n \in RequestNumbers /\ deferred[s].id \in Ids
  BY <1>1 DEF Deferral
<1> QED BY <1>2 DEF Reply, Response, Named, Matches

LEMMA MainFreesNamed ==
  ASSUME TInv, Named, PollEvent \/ CheckSession \/ TimeOut \/ EventsDone \/ KeepWaiting
                      \/ DispatchDone \/ Join \/ Stop
  PROVE  Named'
<1>1. /\ \A t \in Slots : Active(t)' => Active(t) /\ deferred'[t] = deferred[t]
      /\ UNCHANGED <<asked, requests>>
  BY MainFrees
<1>2. \/ responses' = responses \/ Post(EventLine)
      \/ \E s \in Slots : Active(s) /\ Post(Reply(deferred[s].n, deferred[s].id))
  <2>1. m_slot \in Slots
    BY DEF TInv, Tables
  <2>2. CASE PollEvent
    BY <2>2 DEF PollEvent, CompleteDeferred, Completes
  <2>3. CASE TimeOut
    BY <2>1, <2>3 DEF TimeOut
  <2>4. CASE CheckSession \/ EventsDone \/ KeepWaiting \/ DispatchDone \/ Join \/ Stop
    BY <2>4 DEF CheckSession, EventsDone, KeepWaiting, DispatchDone, Join, Stop
  <2> QED BY <2>2, <2>3, <2>4
<1>3. ASSUME NEW i \in DOMAIN responses' PROVE Matches(responses'[i])
  <2>1. CASE responses' = responses
    BY <2>1 DEF Named
  <2>2. CASE Post(EventLine)
    <3>1. EventLine \in Response /\ Matches(EventLine)
      BY DEF Response, EventLine, Matches
    <3> QED BY <1>3, <2>2, <3>1, PostNamed
  <2>3. ASSUME NEW s \in Slots, Active(s), Post(Reply(deferred[s].n, deferred[s].id))
        PROVE  Matches(responses'[i])
    BY <1>3, <2>3, EntryReply, PostNamed
  <2> QED BY <1>2, <2>1, <2>2, <2>3
<1> QED BY <1>1, <1>3, KeepsNamed

LEMMA DispatchNamed == ASSUME TInv, Named, Dispatch PROVE Named'
<1>. PICK r : r = Head(requests)
  OBVIOUS
<1>1. requests # <<>> /\ requests' = Tail(requests) /\ asked' = asked
  BY DEF Dispatch
<1>2. requests \in Seq(Request) /\ r \in Request /\ Matches(r)
      /\ \A i \in DOMAIN requests' : \E j \in DOMAIN requests : requests'[i] = requests[j]
  <2>1. requests \in Seq(Request)
    BY DEF TInv, TypeOK
  <2>2. \E j \in DOMAIN requests : r = requests[j]
    BY <1>1, <2>1, TailIn
  <2>3. r \in Request
    BY <2>1, <2>2, SeqFacts
  <2> QED BY <1>1, <2>1, <2>2, <2>3, TailIn DEF Named
<1>3. CASE AnswerNow(r)
  <2>1. PICK k \in {"reply", "bye"} : Post([Reply(r.n, r.id) EXCEPT !.kind = k])
    BY <1>3 DEF AnswerNow
  <2>. PICK x : x = [Reply(r.n, r.id) EXCEPT !.kind = k]
    OBVIOUS
  <2>2. x = [kind |-> k, n |-> r.n, id |-> r.id]
    BY DEF Reply
  <2>3. x \in Response /\ Matches(x)
    BY <1>2, <2>2 DEF Response, Request, Matches
  <2>4. \A i \in DOMAIN responses' : Matches(responses'[i])
    BY <2>1, <2>3, PostNamed
  <2>5. \A t \in Slots : Active(t)' => Active(t) /\ deferred'[t] = deferred[t]
    BY <1>3 DEF AnswerNow, Active
  <2> QED BY <1>1, <1>2, <2>4, <2>5, KeepsNamed
<1>4. CASE BeginDeferred(r)
  <2>1. PICK f, entry : /\ deferred' = [deferred EXCEPT ![f] = entry]
                        /\ entry.n = r.n /\ entry.id = r.id
    <3> DEFINE token == IF r.kind \in Bulk THEN next_request_token + 1 ELSE 0
    <3> DEFINE entry == [active |-> TRUE, n |-> r.n, id |-> r.id, kind |-> r.kind,
                         token |-> token,
                         epoch |-> IF r.kind \in Bulk THEN connection_epoch ELSE 0]
    <3>1. deferred' = [deferred EXCEPT ![FirstFree] = entry]
      BY <1>4 DEF BeginDeferred
    <3>2. entry.n = r.n /\ entry.id = r.id
      OBVIOUS
    <3> HIDE DEF entry
    <3> QED BY <3>1, <3>2
  <2>2. responses' = responses
    BY <1>4 DEF BeginDeferred
  <2>3. Matches(entry)
    BY <1>2, <2>1 DEF Matches
  <2>4. ASSUME NEW s \in Slots, Active(s)' PROVE Matches(deferred'[s])
    <3>1. CASE s = f
      BY <2>1, <2>3, <3>1 DEF TInv, TypeOK
    <3>2. CASE s # f
      <4>1. deferred'[s] = deferred[s] /\ Active(s)
        BY <2>1, <2>4, <3>2 DEF TInv, TypeOK, Active
      <4> QED BY <4>1 DEF Named
    <3> QED BY <3>1, <3>2
  <2>5. /\ \A i \in DOMAIN requests' : Matches(requests'[i])
        /\ \A i \in DOMAIN responses' : Matches(responses'[i])
    BY <1>2, <2>2 DEF Named
  <2> QED BY <1>1, <2>4, <2>5 DEF Named, Matches
<1> QED BY <1>3, <1>4 DEF Dispatch

LEMMA NextNamed == TInv /\ RInv /\ Named /\ [Next]_vars => Named'
<1> SUFFICES ASSUME TInv, RInv, Named, [Next]_vars PROVE Named'
  OBVIOUS
<1>1. CASE SocketNext \/ Hangup
  BY <1>1, SocketNamed, ReadRequestNamed
<1>2. CASE MainNext \/ Stop
  BY <1>2, MainFreesNamed, DispatchNamed DEF MainNext
<1>3. CASE WorkerNext \/ Telemetry \/ UNCHANGED vars
  <2>1. UNCHANGED <<asked, deferred, requests, responses>>
    BY <1>3 DEF WorkerNext, WorkerTake, WorkerDrops, WorkerPublish, WorkerRetry, Telemetry,
                mainVars, vars
  <2> QED BY <2>1 DEF Named, Matches, Active
<1> QED BY <1>1, <1>2, <1>3 DEF Next, Finished

\* A response that is written retires the id of its request.
LEMMA WrittenRetires ==
  ASSUME TInv, Named, [Next]_vars, NEW n \in DOMAIN asked, n # 0,
         <<n, connection_epoch>> \notin written, <<n, connection_epoch>> \in written'
  PROVE  asked[n].id \notin outstanding'
<1>1. Flush
  BY DEF Next, SocketNext, Accept, Publish, FlushDone, ReadRequest, ReadRejected, ReadHangup,
         ReadNothing, DrainDeadline, Drain, Close, Hangup, MainNext, PollEvent, EventsDone,
         CheckSession, KeepWaiting, TimeOut, Dispatch, DispatchDone, Join, Stop, WorkerNext,
         WorkerTake, WorkerDrops, WorkerPublish, WorkerRetry, Telemetry, Finished, vars
<1>2. PICK r : /\ r = Head(responses) /\ responses # <<>>
               /\ outstanding' = outstanding \ {r.id}
               /\ written' = written \/ written' = written \cup {<<r.n, connection_epoch>>}
  BY <1>1 DEF Flush
<1>3. r.n = n
  BY <1>2
<1>4. Matches(r)
  <2>1. responses \in Seq(Response)
    BY DEF TInv, TypeOK
  <2> QED BY <1>2, <2>1, TailIn DEF Named
<1> QED BY <1>2, <1>3, <1>4 DEF Matches

\* The request just read is queued.
LEMMA ReadIsPlaced ==
  ASSUME TInv, RInv, ReadRequest
  PROVE  /\ connection_epoch' = connection_epoch
         /\ \A n \in DOMAIN asked : n \in DOMAIN asked' /\ asked'[n] = asked[n]
         /\ \A id \in outstanding' \ outstanding : \E n \in DOMAIN asked' :
              /\ asked'[n] = [conn |-> connection_epoch, id |-> id] /\ Placed(n)'
              /\ <<n, connection_epoch>> \notin written'
<1>1. PICK id \in Ids, kind \in Kinds :
        /\ requests' = Append(requests, [n |-> Len(asked) + 1, id |-> id, kind |-> kind])
        /\ outstanding' = outstanding \cup {id}
        /\ asked' = Append(asked, [conn |-> connection_epoch, id |-> id])
  BY DEF ReadRequest
<1>. PICK m, x, y : /\ m = Len(asked) + 1
                    /\ x = [n |-> Len(asked) + 1, id |-> id, kind |-> kind]
                    /\ y = [conn |-> connection_epoch, id |-> id]
  OBVIOUS
<1>2. x \in Request /\ x.n = m /\ requests \in Seq(Request) /\ m \in RequestNumbers
  <2>1. Len(asked) \in Nat /\ Len(asked) < MaxRequests /\ requests \in Seq(Request)
    BY DEF ReadRequest, TInv, TypeOK
  <2>2. m \in RequestNumbers
    BY <2>1, BoundsAssumption DEF RequestNumbers
  <2> QED BY <2>1, <2>2 DEF Request
<1>3. Has(requests', m)
  <2>1. requests' = Append(requests, x)
    BY <1>1
  <2> QED BY <1>2, <2>1, AppendKeeps
<1>4. /\ m \in DOMAIN asked' /\ asked'[m] = y
      /\ \A n \in DOMAIN asked : n \in DOMAIN asked' /\ asked'[n] = asked[n]
  <2>1. PICK S : asked \in Seq(S)
    BY DEF TInv, TypeOK
  <2>2. asked' = Append(asked, y)
    BY <1>1
  <2> QED BY <2>1, <2>2
<1>5. connection_epoch' = connection_epoch
  BY DEF ReadRequest
<1>6. Placed(m)'
  BY <1>3 DEF Placed, Has
<1>7. <<m, connection_epoch>> \notin written'
  <2>1. ~(m <= Len(asked)) /\ written' = written
    BY EpochTypes DEF ReadRequest
  <2>2. ~Written(m)
    BY <1>2, <2>1 DEF RInv, Known
  <2> QED BY <2>1, <2>2 DEF Written
<1> QED BY <1>1, <1>4, <1>5, <1>6, <1>7

LEMMA NextOutstanding ==
  TInv /\ RInv /\ Epochs /\ Named /\ OutstandingHasAnswer /\ AnswerFindsRoom /\ [Next]_vars
    => OutstandingHasAnswer'
<1> SUFFICES ASSUME TInv, RInv, Epochs, Named, OutstandingHasAnswer, AnswerFindsRoom, [Next]_vars,
                    Serving', NEW id \in outstanding'
             PROVE  \E n \in DOMAIN asked' :
                      /\ asked'[n] = [conn |-> connection_epoch', id |-> id] /\ Placed(n)'
                      /\ <<n, connection_epoch'>> \notin written'
  BY PlacesPlaced DEF OutstandingHasAnswer, Lost
<1>1. Serving /\ (ReadRequest \/ (UNCHANGED <<asked, connection_epoch>>
                                  /\ outstanding' \subseteq outstanding))
  BY OutstandingSteps
<1>2. ASSUME NEW n, Own(n), Placed(n) PROVE Placed(n)'
  <2>1. Len(responses) # ControlQueue \/ ~(TimeOut \/ Dispatch)
    <3>1. TimeOut \/ Dispatch => Len(responses) < ControlQueue
      BY DEF AnswerFindsRoom, TimeOut, Dispatch
    <3> QED BY <3>1, BoundsAssumption DEF TInv, TypeOK
  <2> QED BY <1>1, <1>2, <2>1, NextPlaced
<1>3. CASE id \in outstanding
  <2>1. PICK n \in DOMAIN asked :
          /\ asked[n] = [conn |-> connection_epoch, id |-> id] /\ Places(n) # {}
          /\ <<n, connection_epoch>> \notin written
    BY <1>1, <1>3 DEF OutstandingHasAnswer, Lost
  <2>2. Own(n) /\ Placed(n) /\ n # 0
    BY <2>1, PlacesPlaced, EpochTypes DEF Own
  <2>3. n \in DOMAIN asked' /\ asked'[n] = asked[n] /\ connection_epoch' = connection_epoch
    BY <1>1, ReadIsPlaced
  <2>4. <<n, connection_epoch>> \notin written'
    BY <2>1, <2>2, WrittenRetires
  <2> QED BY <1>2, <2>1, <2>2, <2>3, <2>4
<1>4. CASE id \notin outstanding
  BY <1>1, <1>4, ReadIsPlaced
<1> QED BY <1>3, <1>4

LEMMA InitOutstanding == Init => OutstandingHasAnswer
BY DEF Init, OutstandingHasAnswer

\* As long as the responses queue has room for the answers main will not post
\* again, every id that occupies one of a served client's pipeline places
\* (control_server.c's outstanding list) belongs to a request of its own that
\* is queued or deferred, or whose answer waits to be written: no place is taken
\* for good.
THEOREM OutstandingAnswered ==
  SafetySpec /\ []AnswerFindsRoom => []OutstandingHasAnswer
BY InitTInv, NextTInv, InitRInv, NextRInv, InitEpochs, NextEpochs, InitNamed, NextNamed,
   InitOutstanding, NextOutstanding, PTL DEF SafetySpec
==============================================================================
