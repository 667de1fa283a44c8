------------------------- MODULE MessageQueue_proofs -------------------------
(***************************************************************************)
(* The message queue's ring, its wake-up accounting and its refinement of  *)
(* a bounded FIFO, for every capacity, item set and set of consumers.      *)
(***************************************************************************)
EXTENDS MessageQueue, FiniteSetTheorems, SequenceTheorems, TLAPS

\* What "% capacity" computes on the sums the queue forms.
AddSlots(h, k) == IF h + k < Capacity THEN h + k ELSE h + k - Capacity

LEMMA ModWindow ==
  \A h \in Slots, k \in 0 .. Capacity : (h + k) % Capacity = AddSlots(h, k)
<1> SUFFICES ASSUME NEW h \in Slots, NEW k \in 0 .. Capacity
             PROVE  (h + k) % Capacity = AddSlots(h, k)
  OBVIOUS
<1>1. CASE h + k < Capacity
  BY <1>1, CapacityAssumption DEF Slots, AddSlots
<1>2. CASE h + k >= Capacity
  BY <1>2, CapacityAssumption DEF Slots, AddSlots
<1> QED BY <1>1, <1>2, CapacityAssumption DEF Slots

LEMMA SuccSlot ==
  ASSUME NEW s \in Slots
  PROVE  Succ(s) = (IF s + 1 < Capacity THEN s + 1 ELSE 0) /\ Succ(s) \in Slots
<1>1. CASE s + 1 < Capacity
  BY <1>1, CapacityAssumption DEF Succ, Slots
<1>2. CASE s + 1 = Capacity
  BY <1>2, CapacityAssumption DEF Succ, Slots
<1> QED BY <1>1, <1>2, CapacityAssumption DEF Slots

LEMMA ZeroSlot == 0 \in Slots /\ (0 + 0) % Capacity = 0
BY CapacityAssumption DEF Slots

LEMMA WindowInit == Init => Window
<1> SUFFICES ASSUME Init PROVE Window
  OBVIOUS
<1>1. TypeOK
  <2>1. count \in 0 .. Capacity /\ head \in Slots /\ tail \in Slots
    BY ZeroSlot, CapacityAssumption DEF Init
  <2>2. woken \in BOOLEAN /\ timed \in [Consumers -> BOOLEAN]
    BY DEF Init
  <2>3. /\ items \in [Slots -> Items \cup {Nothing}]
        /\ pc \in [Consumers -> PcStates]
        /\ out \in [Consumers -> Items \cup {Nothing}]
    BY DEF Init, PcStates
  <2> QED BY <2>1, <2>2, <2>3 DEF TypeOK
<1>2. RingInv
  BY ZeroSlot DEF Init, RingInv
<1> QED BY <1>1, <1>2 DEF Window

\* What one pop under the lock does to the window.
LEMMA CopyOutWindow ==
  ASSUME Window, NEW c \in Consumers, CopyOut(c)
  PROVE  /\ items' \in [Slots -> Items \cup {Nothing}]
         /\ count' \in 0 .. Capacity /\ head' \in Slots /\ tail' \in Slots
         /\ woken' \in BOOLEAN /\ timed' \in [Consumers -> BOOLEAN]
         /\ out' \in [Consumers -> Items \cup {Nothing}]
         /\ RingInv'
<1>1. TypeOK /\ RingInv /\ count > 0 /\ count' = count - 1 /\ tail' = tail
  BY DEF Window, CopyOut
<1>2. head' = (IF head + 1 < Capacity THEN head + 1 ELSE 0) /\ head' \in Slots
  BY <1>1, SuccSlot DEF TypeOK, CopyOut
<1>3. count' \in 0 .. Capacity
  BY <1>1, CapacityAssumption DEF TypeOK
<1>4. tail = AddSlots(head, count)
  BY <1>1, ModWindow DEF RingInv, TypeOK
<1>5. (head' + count') % Capacity = AddSlots(head', count')
  BY <1>2, <1>3, ModWindow
<1>6. RingInv'
  BY <1>1, <1>2, <1>4, <1>5, CapacityAssumption DEF RingInv, Slots, AddSlots, TypeOK
<1>7. items[head] \in Items \cup {Nothing}
  BY <1>1 DEF TypeOK
<1>8. out' \in [Consumers -> Items \cup {Nothing}]
  BY <1>1, <1>7 DEF TypeOK, CopyOut
<1> QED BY <1>1, <1>2, <1>3, <1>6, <1>8 DEF TypeOK, CopyOut

LEMMA WindowStep == Window /\ [Next]_vars => Window'
<1> SUFFICES ASSUME Window, [Next]_vars PROVE Window'
  OBVIOUS
<1> USE CapacityAssumption DEF Window, TypeOK
<1>1. ASSUME NEW item \in Items, Push(item) PROVE Window'
  <2>1. tail' = (IF tail + 1 < Capacity THEN tail + 1 ELSE 0) /\ tail' \in Slots
    BY <1>1, SuccSlot DEF Push
  <2>2. tail = AddSlots(head, count)
    BY ModWindow DEF RingInv
  <2>3. (head' + count') % Capacity = AddSlots(head', count')
    BY <1>1, ModWindow DEF Push
  <2>5. RingInv'
    BY <1>1, <2>1, <2>2, <2>3 DEF RingInv, Push, Slots, AddSlots
  <2>6. pc' \in [Consumers -> PcStates]
    BY <1>1 DEF Push, Signal, Waiting, PcStates
  <2>7. items' \in [Slots -> Items \cup {Nothing}]
    BY <1>1 DEF Push
  <2>8. count' \in 0 .. Capacity
    BY <1>1 DEF Push
  <2> QED BY <1>1, <2>1, <2>5, <2>6, <2>7, <2>8 DEF Push
<1>2. CASE Clear
  BY <1>2, ZeroSlot DEF Clear, RingInv
<1>3. CASE WakeAll
  BY <1>3 DEF WakeAll, RingInv, PcStates
<1>4. ASSUME NEW c \in Consumers, TryPop(c) PROVE Window'
  BY <1>4, CopyOutWindow DEF TryPop, RingInv
<1>5. ASSUME NEW c \in Consumers, NEW isTimed \in BOOLEAN, WaitPop(c, isTimed) PROVE Window'
  BY <1>5, CopyOutWindow DEF WaitPop, RingInv, ReturnFalse, PcStates
<1>6. ASSUME NEW c \in Consumers, Resume(c) PROVE Window'
  BY <1>6, CopyOutWindow DEF Resume, RingInv, ReturnFalse, PcStates
<1>7. ASSUME NEW c \in Consumers, Expire(c) PROVE Window'
  BY <1>7 DEF Expire, RingInv, PcStates
<1>8. ASSUME NEW c \in Consumers, ResumeExpired(c) PROVE Window'
  BY <1>8, CopyOutWindow DEF ResumeExpired, RingInv, ReturnFalse, PcStates
<1>9. ASSUME NEW c \in Consumers, SpuriousWake(c) PROVE Window'
  BY <1>9 DEF SpuriousWake, RingInv, PcStates
<1>10. CASE UNCHANGED vars
  BY <1>10 DEF vars, RingInv
<1> QED BY <1>1, <1>2, <1>3, <1>4, <1>5, <1>6, <1>7, <1>8, <1>9, <1>10 DEF Next

\* The indices that message_queue.c computes stay slots of the ring, its count
\* within the capacity, and head, tail and count describe one window of the
\* ring, whatever pushes, pops and clears there were, for every capacity.
THEOREM OneWindow == SafetySpec => []Window
<1>1. Init => Window BY WindowInit
<1>2. Window /\ [Next]_vars => Window' BY WindowStep
<1> QED BY <1>1, <1>2, PTL DEF SafetySpec

-----------------------------------------------------------------------------
\* Moving one thread into, or out of, the set of notified consumers.
LEMMA NotifiedFinite ==
  ASSUME TypeOK
  PROVE  IsFiniteSet(Notified) /\ Cardinality(Notified) \in Nat
BY ConsumersAssumption, FS_Subset, FS_CardinalityType DEF Notified

\* A consumer that stops waiting and becomes notified.
LEMMA NotifyOne ==
  ASSUME TypeOK, NEW c \in Consumers, pc[c] # "notified",
         pc' = [pc EXCEPT ![c] = "notified"]
  PROVE  Cardinality(Notified') = Cardinality(Notified) + 1
<1>1. Notified' = Notified \cup {c} /\ c \notin Notified
  BY DEF TypeOK, Notified
<1> QED BY <1>1, NotifiedFinite, FS_AddElement

\* A consumer that was notified and moves on.
LEMMA UnnotifyOne ==
  ASSUME TypeOK, NEW c \in Consumers, pc[c] = "notified",
         NEW s, s # "notified", pc' = [pc EXCEPT ![c] = s]
  PROVE  Cardinality(Notified') = Cardinality(Notified) - 1
<1>1. Notified' = Notified \ {c} /\ c \in Notified
  BY DEF TypeOK, Notified
<1> QED BY <1>1, NotifiedFinite, FS_RemoveElement

\* Moves between states other than notified leave the count alone.
LEMMA NotifiedSame ==
  ASSUME TypeOK, NEW c \in Consumers, pc[c] # "notified",
         NEW s, s # "notified", pc' = [pc EXCEPT ![c] = s]
  PROVE  Notified' = Notified
BY DEF TypeOK, Notified

LEMMA WakeStep == Window /\ SignalsCoverItems /\ [Next]_vars => SignalsCoverItems'
<1> SUFFICES ASSUME Window, SignalsCoverItems, [Next]_vars, Waiting' # {}
             PROVE  count' <= Cardinality(Notified')
  BY DEF SignalsCoverItems
<1>0. TypeOK /\ TypeOK' /\ Cardinality(Notified) \in Nat /\ Cardinality(Notified') \in Nat
  <2>1. TypeOK /\ TypeOK'
    BY WindowStep DEF Window
  <2>2. IsFiniteSet(Notified) /\ IsFiniteSet(Notified')
    BY <2>1, ConsumersAssumption, FS_Subset DEF Notified
  <2> QED BY <2>1, <2>2, FS_CardinalityType
<1>n. count \in Nat /\ count' \in Nat
  BY <1>0, CapacityAssumption DEF TypeOK
<1>1. ASSUME NEW item \in Items, Push(item) PROVE count' <= Cardinality(Notified')
  <2>1. Waiting # {}
    BY <1>1, <1>0 DEF Push, Signal, Waiting, TypeOK
  <2>2. PICK c \in Waiting : pc' = [pc EXCEPT ![c] = "notified"]
    BY <1>1, <2>1 DEF Push, Signal
  <2>3. Cardinality(Notified') = Cardinality(Notified) + 1
    BY <2>2, <1>0, NotifyOne DEF Waiting
  <2> QED BY <1>1, <2>1, <2>3, <1>0, <1>n DEF Push, SignalsCoverItems
<1>2. CASE Clear
  BY <1>2, <1>0 DEF Clear
<1>3. CASE WakeAll
  BY <1>3, <1>0 DEF WakeAll, Waiting, TypeOK
<1>4. ASSUME NEW c \in Consumers, TryPop(c) PROVE count' <= Cardinality(Notified')
  <2>1. Waiting' = Waiting /\ Notified' = Notified /\ count' <= count
    BY <1>4, <1>n DEF TryPop, CopyOut, Waiting, Notified
  <2> QED BY <2>1, <1>0, <1>n DEF SignalsCoverItems
<1>5. ASSUME NEW c \in Consumers, NEW isTimed \in BOOLEAN, WaitPop(c, isTimed)
      PROVE  count' <= Cardinality(Notified')
  <2>1. CASE UNCHANGED pc /\ (CopyOut(c) \/ ReturnFalse(c))
    <3>1. Waiting' = Waiting /\ Notified' = Notified /\ count' <= count
      BY <2>1, <1>n DEF CopyOut, ReturnFalse, Waiting, Notified
    <3> QED BY <3>1, <1>0, <1>n DEF SignalsCoverItems
  <2>2. CASE count = 0 /\ count' = 0
    BY <2>2, <1>0
  <2> QED BY <1>5, <2>1, <2>2 DEF WaitPop
<1>6. ASSUME NEW c \in Consumers, Resume(c) PROVE count' <= Cardinality(Notified')
  <2>1. CASE CopyOut(c) /\ pc' = [pc EXCEPT ![c] = "idle"]
    <3>1. Cardinality(Notified') = Cardinality(Notified) - 1
      BY <1>6, <2>1, <1>0, UnnotifyOne DEF Resume
    <3>2. Waiting # {}
      BY <2>1, <1>0 DEF Waiting, TypeOK
    <3> QED BY <2>1, <3>1, <3>2, <1>0, <1>n DEF CopyOut, SignalsCoverItems
  <2>2. CASE count = 0 /\ count' = 0
    BY <2>2, <1>0
  <2> QED BY <1>6, <2>1, <2>2 DEF Resume, ReturnFalse
<1>7. ASSUME NEW c \in Consumers, Expire(c) PROVE count' <= Cardinality(Notified')
  <2>1. Notified' = Notified
    BY <1>7, <1>0, NotifiedSame DEF Expire
  <2>2. Waiting # {}
    BY <1>7 DEF Expire, Waiting
  <2> QED BY <1>7, <2>1, <2>2, <1>0 DEF Expire, SignalsCoverItems
<1>8. ASSUME NEW c \in Consumers, ResumeExpired(c) PROVE count' <= Cardinality(Notified')
  <2>1. Notified' = Notified
    BY <1>8, <1>0, NotifiedSame DEF ResumeExpired
  <2>2. Waiting # {}
    BY <1>8, <1>0 DEF ResumeExpired, Waiting, TypeOK
  <2>3. count' <= count
    BY <1>8, <1>n DEF ResumeExpired, CopyOut, ReturnFalse
  <2> QED BY <2>1, <2>2, <2>3, <1>0, <1>n DEF SignalsCoverItems
<1>9. ASSUME NEW c \in Consumers, SpuriousWake(c) PROVE count' <= Cardinality(Notified')
  <2>1. Cardinality(Notified') = Cardinality(Notified) + 1
    BY <1>9, <1>0, NotifyOne DEF SpuriousWake
  <2>2. Waiting # {}
    BY <1>9 DEF SpuriousWake, Waiting
  <2> QED BY <1>9, <2>1, <2>2, <1>0, <1>n DEF SpuriousWake, SignalsCoverItems
<1>10. CASE UNCHANGED vars
  BY <1>10, <1>0 DEF vars, SignalsCoverItems, Waiting, Notified
<1> QED BY <1>1, <1>2, <1>3, <1>4, <1>5, <1>6, <1>7, <1>8, <1>9, <1>10 DEF Next

\* No lost wake-up, for every number of consumers and every capacity: push
\* signals once per item, and neither a timeout nor a spurious wake-up, nor
\* an item taken by try_pop, uses up a signal another item relies on.
THEOREM NoLostWakeup == SafetySpec => []SignalsCoverItems
<1>1. Init => SignalsCoverItems
  BY DEF Init, SignalsCoverItems, Waiting
<1>2. SafetySpec => []Window
  BY OneWindow
<1>3. Window /\ SignalsCoverItems /\ [Next]_vars => SignalsCoverItems'
  BY WakeStep
<1> QED BY <1>1, <1>2, <1>3, PTL DEF SafetySpec

-----------------------------------------------------------------------------
Cells == Items \cup {Nothing}

\* Content, as a function of the slots, the head and the count.
ContentOf(its, h, n) == [i \in 1 .. n |-> its[(h + i - 1) % Capacity]]

\* It is the sequence of the n cells from slot h on.
LEMMA ContentSeq ==
  ASSUME NEW its \in [Slots -> Cells], NEW h \in Slots, NEW n \in 0 .. Capacity
  PROVE  /\ ContentOf(its, h, n) \in Seq(Cells)
         /\ Len(ContentOf(its, h, n)) = n
         /\ \A i \in 1 .. n : ContentOf(its, h, n)[i] = its[AddSlots(h, i - 1)]
<1>1. n \in Nat /\ h \in Nat
  BY CapacityAssumption DEF Slots
<1>2. ASSUME NEW i \in 1 .. n
      PROVE  /\ (h + i - 1) % Capacity = AddSlots(h, i - 1)
             /\ AddSlots(h, i - 1) \in Slots
  <2>1. i - 1 \in 0 .. Capacity /\ h + i - 1 = h + (i - 1)
    BY <1>1, CapacityAssumption
  <2>2. (h + (i - 1)) % Capacity = AddSlots(h, i - 1)
    BY <2>1, ModWindow
  <2>3. AddSlots(h, i - 1) \in Slots
    BY <2>1, CapacityAssumption DEF Slots, AddSlots
  <2> QED BY <2>1, <2>2, <2>3
<1>3. \A i \in 1 .. n : /\ ContentOf(its, h, n)[i] = its[AddSlots(h, i - 1)]
                         /\ ContentOf(its, h, n)[i] \in Cells
  BY <1>2 DEF ContentOf
<1>4. ContentOf(its, h, n) \in [1 .. n -> Cells]
  BY <1>3 DEF ContentOf
<1> QED BY <1>1, <1>3, <1>4

\* A pop removes the head of Content, and returns it.
LEMMA CopyOutTakes ==
  ASSUME Window, Window', NEW c \in Consumers, CopyOut(c)
  PROVE  Fifo!Take(c)
<1> DEFINE old == ContentOf(items, head, count)
           new == ContentOf(items, head', count')
<1>1. TypeOK /\ TypeOK' /\ count > 0 /\ count' = count - 1 /\ items' = items
  BY DEF Window, CopyOut
<1>2. head' = (IF head + 1 < Capacity THEN head + 1 ELSE 0) /\ head' \in Slots
  BY <1>1, SuccSlot DEF TypeOK, CopyOut
<1>3. count \in Nat /\ head \in Nat /\ head < Capacity /\ count' \in 0 .. Capacity
  BY <1>1, CapacityAssumption DEF TypeOK, Slots
<1>4. /\ old \in Seq(Cells) /\ Len(old) = count
      /\ \A i \in 1 .. count : old[i] = items[AddSlots(head, i - 1)]
  BY <1>1, ContentSeq DEF TypeOK, Cells
<1>5. /\ new \in Seq(Cells) /\ Len(new) = count'
      /\ \A i \in 1 .. count' : new[i] = items[AddSlots(head', i - 1)]
  BY <1>1, <1>2, <1>3, ContentSeq DEF TypeOK, Cells
<1>6. Content = old /\ Content' = new
  BY <1>1 DEF Content, ContentOf
<1> HIDE DEF old, new
<1>7. old # <<>>
  BY <1>1, <1>3, <1>4
<1>8. Head(old) = items[head]
  <2>1. Head(old) = old[1]
    BY <1>7, <1>4
  <2>2. AddSlots(head, 1 - 1) = head
    BY <1>3, CapacityAssumption DEF AddSlots
  <2> QED BY <2>1, <2>2, <1>4, <1>3, <1>1
<1>9. new = Tail(old)
  <2>1. /\ Tail(old) \in Seq(Cells) /\ Len(Tail(old)) = count - 1
        /\ \A i \in 1 .. Len(Tail(old)) : Tail(old)[i] = old[i + 1]
    BY <1>4, <1>7, HeadTailProperties
  <2>2. ASSUME NEW i \in 1 .. count - 1
        PROVE  AddSlots(head', i - 1) = AddSlots(head, i + 1 - 1)
    BY <1>2, <1>3, <1>1, CapacityAssumption DEF AddSlots, TypeOK, Slots
  <2>3. ASSUME NEW i \in 1 .. Len(new)
        PROVE  new[i] = Tail(old)[i]
    <3>1. i \in 1 .. count - 1 /\ i \in 1 .. count' /\ i + 1 \in 1 .. count
      BY <1>1, <1>3, <1>5
    <3>2. new[i] = items[AddSlots(head', i - 1)] /\ Tail(old)[i] = items[AddSlots(head, i + 1 - 1)]
      BY <3>1, <1>4, <1>5, <2>1
    <3> QED BY <3>1, <3>2, <2>2
  <2>4. Len(new) = Len(Tail(old))
    BY <1>1, <1>5, <2>1
  <2> QED BY <2>1, <2>3, <2>4, <1>5, SeqEqual
<1> QED BY <1>6, <1>7, <1>8, <1>9 DEF Fifo!Take, CopyOut

\* A push appends its item to Content.
LEMMA PushPuts ==
  ASSUME Window, Window', NEW item \in Items, Push(item)
  PROVE  Fifo!Put
<1> DEFINE old == ContentOf(items, head, count)
           new == ContentOf(items', head, count')
<1>1. TypeOK /\ TypeOK' /\ RingInv /\ count < Capacity /\ count' = count + 1
      /\ head' = head /\ items' = [items EXCEPT ![tail] = item] /\ out' = out
  BY DEF Window, Push
<1>2. count \in Nat /\ head \in Nat /\ head < Capacity /\ tail \in Slots
  BY <1>1, CapacityAssumption DEF TypeOK, Slots
<1>3. tail = AddSlots(head, count)
  BY <1>1, ModWindow DEF RingInv, TypeOK
<1>4. /\ old \in Seq(Cells) /\ Len(old) = count
      /\ \A i \in 1 .. count : old[i] = items[AddSlots(head, i - 1)]
  BY <1>1, ContentSeq DEF TypeOK, Cells
<1>5. /\ new \in Seq(Cells) /\ Len(new) = count'
      /\ \A i \in 1 .. count' : new[i] = items'[AddSlots(head, i - 1)]
  <2>1. items' \in [Slots -> Cells] /\ head \in Slots /\ count' \in 0 .. Capacity
    BY <1>1 DEF TypeOK, Cells
  <2> HIDE <1>1
  <2> QED BY <2>1, ContentSeq
<1>6. Content = old /\ Content' = new
  BY <1>1 DEF Content, ContentOf
<1> HIDE DEF old, new
<1>7. new = Append(old, item)
  <2>1. item \in Cells
    BY DEF Cells
  <2>2. /\ Append(old, item) \in Seq(Cells)
        /\ Len(Append(old, item)) = count + 1
        /\ \A i \in 1 .. count : Append(old, item)[i] = old[i]
        /\ Append(old, item)[count + 1] = item
    BY <1>2, <1>4, <2>1
  <2>3. ASSUME NEW i \in 1 .. Len(new)
        PROVE  new[i] = Append(old, item)[i]
    <3>1. i \in 1 .. count' /\ new[i] = items'[AddSlots(head, i - 1)]
      BY <1>5
    <3>2. CASE i = count + 1
      <4>1. AddSlots(head, i - 1) = tail
        BY <1>2, <1>3, <3>2
      <4>2. items'[tail] = item
        BY <1>1, <1>2 DEF TypeOK
      <4> QED BY <3>1, <3>2, <4>1, <4>2, <2>2
    <3>3. CASE i \in 1 .. count
      <4>1. AddSlots(head, i - 1) # tail /\ AddSlots(head, i - 1) \in Slots
        BY <1>1, <1>2, <1>3, <3>3, CapacityAssumption DEF AddSlots, Slots
      <4>2. items'[AddSlots(head, i - 1)] = items[AddSlots(head, i - 1)]
        BY <1>1, <4>1 DEF TypeOK
      <4> QED BY <3>1, <3>3, <4>2, <2>2, <1>4
    <3>4. i = count + 1 \/ i \in 1 .. count
      BY <1>1, <1>2, <3>1
    <3> QED BY <3>2, <3>3, <3>4
  <2>4. Len(new) = Len(Append(old, item))
    BY <1>1, <1>5, <2>2
  <2> QED BY <2>2, <2>3, <2>4, <1>5, SeqEqual
<1>8. Len(Content) < Capacity
  BY <1>1, <1>4, <1>6
<1> QED BY <1>1, <1>6, <1>7, <1>8 DEF Fifo!Put

\* With no item queued, Content is the empty sequence.
LEMMA ContentEmpty ==
  ASSUME NEW its, NEW h
  PROVE  ContentOf(its, h, 0) = <<>>
BY DEF ContentOf

LEMMA CountZero ==
  ASSUME Window
  PROVE  (count = 0) <=> (Content = <<>>)
<1>1. Content = ContentOf(items, head, count)
  BY DEF Content, ContentOf
<1>2. Len(Content) = count /\ Content \in Seq(Cells)
  BY <1>1, ContentSeq DEF Window, TypeOK, Cells
<1>3. count = 0 => Content = <<>>
  BY <1>1, ContentEmpty
<1>4. Content = <<>> => count = 0
  BY <1>2
<1> QED BY <1>3, <1>4

\* A pop that returns false is a TakeNothing, and the queue is empty.
LEMMA FalseTakesNothing ==
  ASSUME Window, NEW c \in Consumers, count = 0,
         out' = [out EXCEPT ![c] = Nothing],
         UNCHANGED <<items, count, head>>
  PROVE  Fifo!TakeNothing(c)
<1>1. Content = <<>>
  BY CountZero
<1>2. Content' = Content
  BY DEF Content
<1> QED BY <1>1, <1>2 DEF Fifo!TakeNothing

LEMMA FifoStep == Window /\ Window' /\ [Next]_vars => [Fifo!Next]_(Fifo!fvars)
<1> SUFFICES ASSUME Window, Window', [Next]_vars PROVE Fifo!Next \/ UNCHANGED <<Content, out>>
  BY DEF Fifo!fvars
<1>s. UNCHANGED <<items, count, head>> => Content' = Content
  BY DEF Content
<1>1. ASSUME NEW item \in Items, Push(item) PROVE Fifo!Next
  BY <1>1, PushPuts DEF Fifo!Next
<1>2. CASE Clear
  <2>1. Content' = ContentOf(items', head', 0)
    BY <1>2 DEF Clear, Content, ContentOf
  <2>2. Content' = <<>>
    BY <2>1, ContentEmpty
  <2> QED BY <1>2, <2>2 DEF Clear, Fifo!Next, Fifo!Discard
<1>3. CASE WakeAll
  BY <1>3, <1>s DEF WakeAll
<1>4. ASSUME NEW c \in Consumers, TryPop(c) PROVE Fifo!Next
  BY <1>4, CopyOutTakes, FalseTakesNothing DEF TryPop, Fifo!Next
<1>5. ASSUME NEW c \in Consumers, NEW isTimed \in BOOLEAN, WaitPop(c, isTimed)
      PROVE  Fifo!Next \/ UNCHANGED <<Content, out>>
  BY <1>5, <1>s, CopyOutTakes, FalseTakesNothing DEF WaitPop, ReturnFalse, Fifo!Next
<1>6. ASSUME NEW c \in Consumers, Resume(c)
      PROVE  Fifo!Next \/ UNCHANGED <<Content, out>>
  BY <1>6, <1>s, CopyOutTakes, FalseTakesNothing DEF Resume, ReturnFalse, Fifo!Next
<1>7. ASSUME NEW c \in Consumers, Expire(c) PROVE UNCHANGED <<Content, out>>
  BY <1>7, <1>s DEF Expire
<1>8. ASSUME NEW c \in Consumers, ResumeExpired(c) PROVE Fifo!Next
  BY <1>8, CopyOutTakes, FalseTakesNothing DEF ResumeExpired, ReturnFalse, Fifo!Next
<1>9. ASSUME NEW c \in Consumers, SpuriousWake(c) PROVE UNCHANGED <<Content, out>>
  BY <1>9, <1>s DEF SpuriousWake
<1>10. CASE UNCHANGED vars
  BY <1>10, <1>s DEF vars
<1> QED BY <1>1, <1>2, <1>3, <1>4, <1>5, <1>6, <1>7, <1>8, <1>9, <1>10 DEF Next

\* The ring of message_queue.c is a bounded FIFO: pops return the items in
\* the order they were pushed, each once, and return false only when the
\* queue is empty, whatever mix of push, try_pop, both blocking pops, clear
\* and wake_all its threads call.
THEOREM RingImplementsFifo == SafetySpec => ImplementsFifo
<1>1. Init => Fifo!Init
  <2> SUFFICES ASSUME Init PROVE Fifo!Init
    OBVIOUS
  <2>1. Content = ContentOf(items, head, 0)
    BY DEF Init, Content, ContentOf
  <2>2. Content = <<>>
    BY <2>1, ContentEmpty
  <2> QED BY <2>2 DEF Init, Fifo!Init
<1>2. SafetySpec => []Window
  BY OneWindow
<1>3. Window /\ Window' /\ [Next]_vars => [Fifo!Next]_(Fifo!fvars)
  BY FifoStep
<1> QED BY <1>1, <1>2, <1>3, PTL DEF SafetySpec, ImplementsFifo, Fifo!Spec
=============================================================================
