---------------------------- MODULE MessageQueue -----------------------------
(***************************************************************************)
(* shell/util/message_queue.c: the bounded ring every pair of threads of   *)
(* the two emulators talks through (runtime commands and events, control   *)
(* requests and responses, file-watch events).  The mutex makes each       *)
(* critical section one step; cond_wait splits a blocking pop into the     *)
(* step that enters the wait set and the step that holds the mutex again.  *)
(***************************************************************************)
EXTENDS Naturals, FiniteSets

CONSTANTS Items,      \* item values (memcpy'd by value)
          Capacity,   \* queue->capacity
          Consumers,  \* threads that pop
          Nothing     \* "returned false"; also an uninitialised slot

ASSUME CapacityAssumption == Capacity \in Nat \ {0}
ASSUME ConsumersAssumption == IsFiniteSet(Consumers)
ASSUME NothingAssumption == Nothing \notin Items

VARIABLES items,      \* the slots
          count, head, tail,
          woken,      \* queue->woken
          pc,         \* where each consumer is in a blocking pop
          timed,      \* the blocked pop is message_queue_wait_pop_timeout
          out         \* what each consumer's last pop returned

vars == <<items, count, head, tail, woken, pc, timed, out>>

Slots == 0 .. Capacity - 1

\* idle: not in a pop.  waiting: in the condition variable's wait set.
\* notified: signalled (or woken spuriously), not yet holding the mutex.
\* expired: cond_wait_timeout gave up, not yet holding the mutex.
PcStates == {"idle", "waiting", "notified", "expired"}

TypeOK ==
  /\ items \in [Slots -> Items \cup {Nothing}]
  /\ count \in 0 .. Capacity
  /\ head \in Slots
  /\ tail \in Slots
  /\ woken \in BOOLEAN
  /\ pc \in [Consumers -> PcStates]
  /\ timed \in [Consumers -> BOOLEAN]
  /\ out \in [Consumers -> Items \cup {Nothing}]

Waiting  == {c \in Consumers : pc[c] = "waiting"}
Notified == {c \in Consumers : pc[c] = "notified"}

Init ==
  /\ items = [s \in Slots |-> Nothing]
  /\ count = 0
  /\ head = 0
  /\ tail = 0
  /\ woken = FALSE
  /\ pc = [c \in Consumers |-> "idle"]
  /\ timed = [c \in Consumers |-> FALSE]
  /\ out = [c \in Consumers |-> Nothing]

Succ(slot) == (slot + 1) % Capacity

-----------------------------------------------------------------------------
\* cond_signal: one waiter, if there is one, leaves the wait set.
Signal ==
  \/ /\ Waiting = {}
     /\ UNCHANGED pc
  \/ \E c \in Waiting : pc' = [pc EXCEPT ![c] = "notified"]

\* Mutant of Push: no cond_signal.
SilentPush(item) ==
  /\ count < Capacity
  /\ items' = [items EXCEPT ![tail] = item]
  /\ tail' = Succ(tail) /\ count' = count + 1 /\ woken' = FALSE
  /\ UNCHANGED <<pc, head, timed, out>>

\* message_queue_push on a queue with room.  On a full queue the call returns
\* FALSE and changes nothing.
Push(item) ==
  /\ count < Capacity
  /\ items' = [items EXCEPT ![tail] = item]
  /\ tail' = Succ(tail)
  /\ count' = count + 1
  /\ woken' = FALSE
  /\ Signal
  /\ UNCHANGED <<head, timed, out>>

\* message_queue_copy_out, under the caller's lock.
CopyOut(c) ==
  /\ count > 0
  /\ out' = [out EXCEPT ![c] = items[head]]
  /\ head' = Succ(head)
  /\ count' = count - 1
  /\ UNCHANGED <<items, tail, woken, timed>>

\* The tail of both blocking pops when the queue is still empty.
ReturnFalse(c) ==
  /\ count = 0
  /\ woken' = FALSE
  /\ out' = [out EXCEPT ![c] = Nothing]
  /\ UNCHANGED <<items, count, head, tail, timed>>

TryPop(c) ==
  /\ pc[c] = "idle"
  /\ \/ CopyOut(c)
     \/ /\ count = 0
        /\ out' = [out EXCEPT ![c] = Nothing]
        /\ UNCHANGED <<items, count, head, tail, woken, timed>>
  /\ UNCHANGED pc

\* message_queue_wait_pop (isTimed = FALSE), message_queue_wait_pop_timeout.
WaitPop(c, isTimed) ==
  /\ pc[c] = "idle"
  /\ \/ CopyOut(c) /\ UNCHANGED pc
     \/ woken /\ ReturnFalse(c) /\ UNCHANGED pc
     \/ /\ count = 0 /\ ~woken
        /\ pc' = [pc EXCEPT ![c] = "waiting"]
        /\ timed' = [timed EXCEPT ![c] = isTimed]
        /\ UNCHANGED <<items, count, head, tail, woken, out>>

\* cond_wait returned: the while loop tests its condition again.
Resume(c) ==
  /\ pc[c] = "notified"
  /\ \/ CopyOut(c) /\ pc' = [pc EXCEPT ![c] = "idle"]
     \/ woken /\ ReturnFalse(c) /\ pc' = [pc EXCEPT ![c] = "idle"]
     \/ /\ count = 0 /\ ~woken
        /\ pc' = [pc EXCEPT ![c] = "waiting"]
        /\ UNCHANGED <<items, count, head, tail, woken, timed, out>>

\* cond_wait_timeout gives up; the mutex is taken again in a later step.
Expire(c) ==
  /\ pc[c] = "waiting" /\ timed[c]
  /\ pc' = [pc EXCEPT ![c] = "expired"]
  /\ UNCHANGED <<items, count, head, tail, woken, timed, out>>

\* Mutant of ResumeExpired: a timeout reported without looking again.
ExpiredReturnsFalse(c) ==
  /\ pc[c] = "expired"
  /\ woken' = FALSE
  /\ out' = [out EXCEPT ![c] = Nothing]
  /\ pc' = [pc EXCEPT ![c] = "idle"]
  /\ UNCHANGED <<items, count, head, tail, timed>>

\* A timed-out pop leaves the loop whatever the queue holds, and still takes
\* an item that arrived before it got the mutex back.
ResumeExpired(c) ==
  /\ pc[c] = "expired"
  /\ CopyOut(c) \/ ReturnFalse(c)
  /\ pc' = [pc EXCEPT ![c] = "idle"]

\* SDL and POSIX condition variables may wake a waiter that nobody signalled.
SpuriousWake(c) ==
  /\ pc[c] = "waiting"
  /\ pc' = [pc EXCEPT ![c] = "notified"]
  /\ UNCHANGED <<items, count, head, tail, woken, timed, out>>

\* Mutant of Clear: tail not reset.
ClearKeepsTail ==
  /\ head' = 0 /\ count' = 0
  /\ UNCHANGED <<items, tail, woken, pc, timed, out>>

Clear ==
  /\ head' = 0
  /\ tail' = 0
  /\ count' = 0
  /\ UNCHANGED <<items, woken, pc, timed, out>>

WakeAll ==
  /\ woken' = TRUE
  /\ pc' = [c \in Consumers |-> IF c \in Waiting THEN "notified" ELSE pc[c]]
  /\ UNCHANGED <<items, count, head, tail, timed, out>>

-----------------------------------------------------------------------------
Return(c) == Resume(c) \/ ResumeExpired(c)

Next ==
  \/ \E item \in Items : Push(item)
  \/ Clear
  \/ WakeAll
  \/ \E c \in Consumers :
       \/ TryPop(c)
       \/ \E isTimed \in BOOLEAN : WaitPop(c, isTimed)
       \/ Resume(c)
       \/ Expire(c)
       \/ ResumeExpired(c)
       \/ SpuriousWake(c)

\* The operating system schedules a thread that can take the mutex.
Fairness == \A c \in Consumers : WF_vars(Return(c))

SafetySpec == Init /\ [][Next]_vars
Spec == SafetySpec /\ Fairness

-----------------------------------------------------------------------------
\* head, tail and count describe one window of the ring: the three are
\* assigned in different functions (copy_out, push, clear).
RingInv == tail = (head + count) % Capacity

\* The ring is sound: indices, slots and wait set are of their types, and the
\* indices that push, copy_out and clear assign describe one window.
Window == TypeOK /\ RingInv

\* No lost wake-up: while a consumer sleeps, every queued item has a consumer
\* that was signalled for it and has not run yet.  A consumer therefore never
\* sleeps beside an item nobody is coming for.
SignalsCoverItems == Waiting # {} => count <= Cardinality(Notified)

\* A consumer blocked in a pop while an item is queued returns, or the item
\* was taken by somebody else.
BlockedConsumerServed ==
  \A c \in Consumers :
    (pc[c] # "idle" /\ count > 0) ~> (pc[c] = "idle" \/ count = 0)

\* The queued items, oldest first.
Content == [i \in 1 .. count |-> items[(head + i - 1) % Capacity]]

Fifo == INSTANCE BoundedFifo WITH fifo <- Content

\* The ring is a bounded FIFO whose takes return the oldest item, and only
\* report "nothing" when it is empty.
ImplementsFifo == Fifo!Spec
=============================================================================
