----------------------------- MODULE BoundedFifo -----------------------------
(***************************************************************************)
(* What a message queue promises its callers: a bounded first-in first-out *)
(* channel.  A put appends when there is room, a take hands the oldest     *)
(* item to one consumer, and a consumer is only told "nothing" when there  *)
(* is nothing.                                                             *)
(***************************************************************************)
EXTENDS Naturals, Sequences

CONSTANTS Items,      \* what may be queued
          Capacity,   \* bound on the number of queued items
          Consumers,  \* threads that take
          Nothing     \* what an unsuccessful take returns

VARIABLES fifo,       \* queued items, oldest first
          out         \* what each consumer's last take returned

fvars == <<fifo, out>>

Init ==
  /\ fifo = <<>>
  /\ out = [c \in Consumers |-> Nothing]

Put ==
  /\ Len(fifo) < Capacity
  /\ \E item \in Items : fifo' = Append(fifo, item)
  /\ UNCHANGED out

Take(c) ==
  /\ fifo # <<>>
  /\ fifo' = Tail(fifo)
  /\ out' = [out EXCEPT ![c] = Head(fifo)]

TakeNothing(c) ==
  /\ fifo = <<>>
  /\ out' = [out EXCEPT ![c] = Nothing]
  /\ UNCHANGED fifo

Discard ==
  /\ fifo' = <<>>
  /\ UNCHANGED out

Next ==
  \/ Put
  \/ Discard
  \/ \E c \in Consumers : Take(c) \/ TakeNothing(c)

Spec == Init /\ [][Next]_fvars
=============================================================================
