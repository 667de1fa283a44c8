------------------------- MODULE AudioBuffer_proofs --------------------------
(***************************************************************************)
(* The audio ring for every capacity, every word size its positions wrap   *)
(* at and every length of a call, as long as nobody resets it beside the   *)
(* consumer: the positions stay within a capacity of each other, producer  *)
(* and consumer never have the same slot open, and the ring implements a   *)
(* bounded stream of samples.                                              *)
(***************************************************************************)
EXTENDS AudioBuffer, Integers, SequenceTheorems, TLAPS

(* Arithmetic of the wrapping positions.                                   *)

LEMMA Sizes == Capacity \in Nat \ {0} /\ Modulus \in Nat \ {0} /\ 2 * Capacity <= Modulus
BY SizeAssumption

LEMMA DivMod ==
  ASSUME NEW c \in Nat \ {0}, NEW a \in Nat
  PROVE  /\ a = c * (a \div c) + (a % c)
         /\ a \div c \in Nat /\ a % c \in 0 .. c - 1
OBVIOUS

LEMMA ModUnique ==
  ASSUME NEW c \in Nat \ {0}, NEW q \in Int, NEW r \in 0 .. c - 1, c * q + r \in Nat
  PROVE  (c * q + r) % c = r
OBVIOUS

\* A word size that is a multiple of the capacity does not show in a slot.
LEMMA DropMultiple ==
  ASSUME NEW c \in Nat \ {0}, NEW m \in Nat, m % c = 0, NEW a \in Nat, m <= a
  PROVE  (a - m) % c = a % c
<1> DEFINE q == (a \div c) - (m \div c)
<1>1. m = c * (m \div c) /\ m \div c \in Nat
  BY DivMod
<1>2. a = c * (a \div c) + (a % c) /\ a \div c \in Nat /\ a % c \in 0 .. c - 1
  BY DivMod
<1>3. a - m = c * q + (a % c) /\ q \in Int /\ a - m \in Nat
  BY <1>1, <1>2
<1> HIDE DEF q
<1>4. (c * q + (a % c)) % c = a % c
  BY <1>2, <1>3, ModUnique
<1> QED BY <1>3, <1>4

\* Numbers less than c apart differ modulo c.
LEMMA ModApart ==
  ASSUME NEW c \in Nat \ {0}, NEW a \in Nat, NEW b \in Nat, a < b, b < a + c
  PROVE  a % c # b % c
<1> DEFINE p == a \div c
<1> DEFINE q == b \div c
<1> SUFFICES ASSUME a % c = b % c PROVE FALSE
  OBVIOUS
<1>1. a = c * p + (a % c) /\ p \in Nat
  BY DivMod
<1>2. b = c * q + (b % c) /\ q \in Nat
  BY DivMod
<1> HIDE DEF p, q
<1>3. CASE q <= p
  <2>1. c * q <= c * p
    BY <1>1, <1>2, <1>3
  <2> QED BY <2>1, <1>1, <1>2
<1>4. CASE p + 1 <= q
  <2>1. c * p + c <= c * q
    BY <1>1, <1>2, <1>4
  <2> QED BY <2>1, <1>1, <1>2
<1> QED BY <1>1, <1>2, <1>3, <1>4

LEMMA ModOnce ==
  ASSUME NEW m \in Nat \ {0}, NEW a \in Nat, a < 2 * m
  PROVE  a % m = IF a < m THEN a ELSE a - m
OBVIOUS

LEMMA PlusIs ==
  ASSUME NEW p \in Positions, NEW n \in 0 .. Capacity
  PROVE  /\ Plus(p, n) = IF p + n < Modulus THEN p + n ELSE p + n - Modulus
         /\ Plus(p, n) \in Positions
<1>1. p + n \in Nat /\ p + n < 2 * Modulus
  BY Sizes DEF Positions
<1> DEFINE a == p + n
<1>2. a % Modulus = IF a < Modulus THEN a ELSE a - Modulus
  <2> HIDE DEF a
  <2> QED BY <1>1, Sizes, ModOnce DEF a
<1> QED BY <1>1, <1>2, Sizes DEF Plus, Positions

LEMMA MinusIs ==
  ASSUME NEW p \in Positions, NEW q \in Positions
  PROVE  /\ Minus(p, q) = IF q <= p THEN p - q ELSE p + Modulus - q
         /\ Minus(p, q) \in Positions
<1>1. p + Modulus - q \in Nat /\ p + Modulus - q < 2 * Modulus
  BY Sizes DEF Positions
<1> DEFINE d == p + Modulus - q
<1>2. d % Modulus = IF d < Modulus THEN d ELSE d - Modulus
  <2> HIDE DEF d
  <2> QED BY <1>1, Sizes, ModOnce DEF d
<1> QED BY <1>2, Sizes DEF Minus, Positions

LEMMA SlotOf == ASSUME NEW p \in Positions PROVE Slot(p) \in Slots
BY Sizes DEF Slot, Slots, Positions

\* Going on from a position in two moves or in one.
LEMMA PlusPlus ==
  ASSUME NEW p \in Positions, NEW m \in 0 .. Capacity, NEW n \in 0 .. Capacity, m + n <= Capacity
  PROVE  Plus(Plus(p, m), n) = Plus(p, m + n)
<1>1. m + n \in 0 .. Capacity
  BY Sizes
<1> DEFINE r == Plus(p, m)
<1>2. r \in Positions /\ r = IF p + m < Modulus THEN p + m ELSE p + m - Modulus
  BY PlusIs
<1>3. Plus(p, m + n) = IF p + (m + n) < Modulus THEN p + (m + n) ELSE p + (m + n) - Modulus
  BY <1>1, PlusIs
<1> HIDE DEF r
<1>4. Plus(r, n) = IF r + n < Modulus THEN r + n ELSE r + n - Modulus
  BY <1>2, PlusIs
<1>5. Plus(r, n) = Plus(p, m + n)
  BY <1>1, <1>2, <1>3, <1>4, Sizes DEF Positions
<1> QED BY <1>5 DEF r

\* What the distance of two positions becomes when either moves on.
LEMMA Distance ==
  ASSUME NEW w \in Positions, NEW r \in Positions, Minus(w, r) <= Capacity
  PROVE  /\ Minus(w, r) \in 0 .. Capacity /\ Plus(r, Minus(w, r)) = w
         /\ \A n \in 0 .. Capacity - Minus(w, r) : Minus(Plus(w, n), r) = Minus(w, r) + n
         /\ \A n \in 0 .. Minus(w, r) : Minus(w, Plus(r, n)) = Minus(w, r) - n
<1> DEFINE d == Minus(w, r)
<1>1. d \in 0 .. Capacity /\ d = IF r <= w THEN w - r ELSE w + Modulus - r
  BY MinusIs, Sizes DEF Positions
<1> HIDE DEF d
<1>2. Plus(r, d) = w
  <2>1. Plus(r, d) = IF r + d < Modulus THEN r + d ELSE r + d - Modulus
    BY <1>1, PlusIs
  <2> QED BY <2>1, <1>1, Sizes DEF Positions
<1>3. ASSUME NEW n \in 0 .. Capacity - d
      PROVE  Minus(Plus(w, n), r) = d + n
  <2> DEFINE p == Plus(w, n)
  <2>1. n \in 0 .. Capacity
    BY <1>1, Sizes
  <2>2. p \in Positions /\ p = IF w + n < Modulus THEN w + n ELSE w + n - Modulus
    BY <2>1, PlusIs
  <2> HIDE DEF p
  <2>3. Minus(p, r) = IF r <= p THEN p - r ELSE p + Modulus - r
    BY <2>2, MinusIs
  <2>4. Minus(p, r) = d + n
    BY <1>1, <2>1, <2>2, <2>3, Sizes DEF Positions
  <2> QED BY <2>4 DEF p
<1>4. ASSUME NEW n \in 0 .. d
      PROVE  Minus(w, Plus(r, n)) = d - n
  <2> DEFINE p == Plus(r, n)
  <2>1. n \in 0 .. Capacity
    BY <1>1, Sizes
  <2>2. p \in Positions /\ p = IF r + n < Modulus THEN r + n ELSE r + n - Modulus
    BY <2>1, PlusIs
  <2> HIDE DEF p
  <2>3. Minus(w, p) = IF p <= w THEN w - p ELSE w + Modulus - p
    BY <2>2, MinusIs
  <2>4. Minus(w, p) = d - n
    BY <1>1, <2>1, <2>2, <2>3, Sizes DEF Positions
  <2> QED BY <2>4 DEF p
<1> QED BY <1>1, <1>2, <1>3, <1>4 DEF d

\* A capacity's worth of consecutive positions has as many slots.
LEMMA SlotsApart ==
  ASSUME NEW p \in Positions, NEW i \in 0 .. Capacity - 1, NEW j \in 0 .. Capacity - 1, i # j
  PROVE  Slot(Plus(p, i)) # Slot(Plus(p, j))
<1>1. \A k \in 0 .. Capacity - 1 : Slot(Plus(p, k)) = (p + k) % Capacity
  <2> SUFFICES ASSUME NEW k \in 0 .. Capacity - 1 PROVE Slot(Plus(p, k)) = (p + k) % Capacity
    OBVIOUS
  <2>1. p + k \in Nat /\ k \in 0 .. Capacity
    BY Sizes DEF Positions
  <2>2. CASE p + k < Modulus
    BY <2>1, <2>2, PlusIs DEF Slot
  <2>3. CASE Modulus <= p + k
    <3>1. Plus(p, k) = p + k - Modulus
      BY <2>1, <2>3, PlusIs, Sizes DEF Positions
    <3>2. Modulus % Capacity = 0
      BY SizeAssumption
    <3> DEFINE a == p + k
    <3> HIDE DEF a
    <3>3. a \in Nat /\ Modulus <= a
      BY <2>1, <2>3 DEF a
    <3>4. (a - Modulus) % Capacity = a % Capacity
      BY <3>2, <3>3, DropMultiple, Sizes
    <3>5. Plus(p, k) = a - Modulus
      BY <3>1, <2>1, Sizes DEF a, Positions
    <3>6. Slot(Plus(p, k)) = a % Capacity
      BY <3>4, <3>5 DEF Slot
    <3> QED BY <3>6 DEF a
  <2> QED BY <2>1, <2>2, <2>3, Sizes
<1> DEFINE a == p + i
<1> DEFINE b == p + j
<1>2. a \in Nat /\ b \in Nat /\ a # b /\ a < b + Capacity /\ b < a + Capacity
  BY Sizes DEF Positions
<1> HIDE DEF a, b
<1>3. a % Capacity # b % Capacity
  <2>1. CASE a < b
    BY <1>2, <2>1, ModApart, Sizes
  <2>2. CASE b < a
    BY <1>2, <2>2, ModApart, Sizes
  <2> QED BY <1>2, <2>1, <2>2
<1> QED BY <1>1, <1>3 DEF a, b

-----------------------------------------------------------------------------
\* The n samples from position p on.
Run(d, p, n) == [i \in 1 .. n |-> d[Slot(Plus(p, i - 1))]]

LEMMA RunIs ==
  ASSUME NEW d \in [Slots -> Samples], NEW p \in Positions, NEW n \in 0 .. Capacity
  PROVE  /\ Run(d, p, n) \in Seq(Samples) /\ Len(Run(d, p, n)) = n
         /\ DOMAIN Run(d, p, n) = 1 .. n
         /\ \A i \in 1 .. n : Run(d, p, n)[i] = d[Slot(Plus(p, i - 1))]
<1>1. \A i \in 1 .. n : d[Slot(Plus(p, i - 1))] \in Samples
  <2> TAKE i \in 1 .. n
  <2>1. i - 1 \in 0 .. Capacity
    BY Sizes
  <2> QED BY <2>1, PlusIs, SlotOf
<1>2. Run(d, p, n) \in [1 .. n -> Samples] /\ n \in Nat
  BY <1>1, Sizes DEF Run
<1> QED BY <1>2 DEF Run

\* A run of m + n samples is one of m, and one of n behind it.
LEMMA RunConcat ==
  ASSUME NEW d \in [Slots -> Samples], NEW p \in Positions,
         NEW m \in 0 .. Capacity, NEW n \in 0 .. Capacity, m + n <= Capacity
  PROVE  Run(d, p, m + n) = Run(d, p, m) \o Run(d, Plus(p, m), n)
<1> DEFINE s == Run(d, p, m + n)
<1> DEFINE t == Run(d, p, m)
<1> DEFINE u == Run(d, Plus(p, m), n)
<1>0. m + n \in 0 .. Capacity /\ m \in Nat /\ n \in Nat
  BY Sizes
<1>1. Plus(p, m) \in Positions
  BY PlusIs
<1>2. /\ s \in Seq(Samples) /\ Len(s) = m + n
      /\ \A i \in 1 .. m + n : s[i] = d[Slot(Plus(p, i - 1))]
  BY <1>0, RunIs
<1>3. /\ t \in Seq(Samples) /\ Len(t) = m
      /\ \A i \in 1 .. m : t[i] = d[Slot(Plus(p, i - 1))]
  BY RunIs
<1>4. /\ u \in Seq(Samples) /\ Len(u) = n
      /\ \A i \in 1 .. n : u[i] = d[Slot(Plus(Plus(p, m), i - 1))]
  BY <1>1, RunIs
<1> HIDE DEF s, t, u
<1>5. \A i \in 1 .. n : u[i] = d[Slot(Plus(p, m + i - 1))]
  <2> TAKE i \in 1 .. n
  <2>1. i - 1 \in 0 .. Capacity /\ m + (i - 1) <= Capacity /\ m + (i - 1) = m + i - 1
    BY <1>0, Sizes
  <2> QED BY <1>4, <2>1, PlusPlus
<1>6. /\ t \o u \in Seq(Samples) /\ Len(t \o u) = m + n
      /\ \A i \in 1 .. m + n : (t \o u)[i] = IF i <= m THEN t[i] ELSE u[i - m]
  <2>1. /\ t \o u \in Seq(Samples) /\ Len(t \o u) = Len(t) + Len(u)
        /\ \A i \in 1 .. Len(t) + Len(u) :
             (t \o u)[i] = IF i <= Len(t) THEN t[i] ELSE u[i - Len(t)]
    BY <1>3, <1>4, ConcatProperties
  <2>. QED BY <1>3, <1>4, <2>1
<1>7. \A i \in 1 .. m + n : s[i] = (t \o u)[i]
  <2> SUFFICES ASSUME NEW i \in 1 .. m + n PROVE s[i] = (t \o u)[i]
    OBVIOUS
  <2>1. CASE i <= m
    <3>1. i \in 1 .. m
      BY <1>0, <2>1
    <3> QED BY <1>2, <1>3, <1>6, <2>1, <3>1
  <2>2. CASE m < i
    <3>1. i - m \in 1 .. n /\ m + (i - m) - 1 = i - 1
      BY <1>0, <2>2
    <3>2. u[i - m] = d[Slot(Plus(p, i - 1))]
      BY <1>5, <3>1
    <3>3. (t \o u)[i] = u[i - m]
      BY <1>0, <1>6, <2>2
    <3> QED BY <1>2, <3>2, <3>3
  <2>3. i <= m \/ m < i
    BY <1>0
  <2> QED BY <2>1, <2>2, <2>3
<1>8. s = t \o u
  BY <1>2, <1>6, <1>7, SeqEqual
<1> QED BY <1>8 DEF s, t, u

\* Writing behind a run leaves the run alone.
LEMMA RunKept ==
  ASSUME NEW d \in [Slots -> Samples], NEW p \in Positions, NEW n \in 0 .. Capacity,
         NEW k \in n .. Capacity - 1, NEW x
  PROVE  Run([d EXCEPT ![Slot(Plus(p, k))] = x], p, n) = Run(d, p, n)
<1> DEFINE e == [d EXCEPT ![Slot(Plus(p, k))] = x]
<1>1. \A i \in 1 .. n : e[Slot(Plus(p, i - 1))] = d[Slot(Plus(p, i - 1))]
  <2> SUFFICES ASSUME NEW i \in 1 .. n
               PROVE  e[Slot(Plus(p, i - 1))] = d[Slot(Plus(p, i - 1))]
    OBVIOUS
  <2>1. i - 1 \in 0 .. Capacity - 1 /\ k \in 0 .. Capacity - 1 /\ i - 1 # k
        /\ i - 1 \in 0 .. Capacity
    BY Sizes
  <2>2. Slot(Plus(p, k)) # Slot(Plus(p, i - 1))
    BY <2>1, SlotsApart
  <2>3. Slot(Plus(p, i - 1)) \in Slots
    BY <2>1, PlusIs, SlotOf
  <2> QED BY <2>2, <2>3
<1> QED BY <1>1 DEF Run

-----------------------------------------------------------------------------
(* The inductive invariant.                                                *)

\* The types of TypeOK without what FilledBounded says.
Shape ==
  /\ data \in [Slots -> Samples]
  /\ write_pos \in Positions /\ read_pos \in Positions
  /\ w_pc \in {"idle", "copy", "reset_read", "reset_data"}
  /\ w_samples \in Seq(Samples) /\ Len(w_samples) <= MaxCount
  /\ w_write \in Positions /\ w_count \in 0 .. MaxCount /\ w_done \in 0 .. MaxCount
  /\ r_pc \in {"idle", "copy"}
  /\ r_read \in Positions /\ r_count \in 0 .. MaxCount /\ r_out \in Seq(Samples)

\* During a write the producer's copy of the position is the position, what it
\* will publish fits, and the slots it has filled hold what it was given.
Producing ==
  w_pc = "copy" =>
    /\ w_write = write_pos /\ w_done <= w_count /\ w_count <= Len(w_samples)
    /\ Filled + w_count <= Capacity
    /\ \A i \in 0 .. w_done - 1 : data[Slot(Plus(write_pos, i))] = w_samples[i + 1]

\* During a read the consumer's copy of the position is the position, what it
\* will take is there, and it has copied what the slots still hold.
Consuming ==
  r_pc = "copy" =>
    /\ ~Resetting /\ r_read = read_pos /\ Len(r_out) <= r_count /\ r_count <= Filled
    /\ \A i \in 1 .. Len(r_out) : r_out[i] = data[Slot(Plus(read_pos, i - 1))]

\* A reset has stored what it has stored.
ResetSoFar ==
  /\ w_pc \in {"reset_read", "reset_data"} => write_pos = 0
  /\ w_pc = "reset_data" => read_pos = 0

IInv == Shape /\ FilledBounded /\ Producing /\ Consuming /\ ResetSoFar

LEMMA ShapeIs == TypeOK <=> Shape /\ FilledBounded
BY DEF TypeOK, Shape

\* What the positions' distance allows, whenever no reset is under way.
LEMMA FilledIs ==
  ASSUME Shape, FilledBounded, ~Resetting
  PROVE  /\ Filled \in 0 .. Capacity /\ Filled \in Nat
         /\ Plus(read_pos, Filled) = write_pos
         /\ \A n \in 0 .. Capacity - Filled : Minus(Plus(write_pos, n), read_pos) = Filled + n
         /\ \A n \in 0 .. Filled : Minus(write_pos, Plus(read_pos, n)) = Filled - n
<1>1. Filled <= Capacity /\ write_pos \in Positions /\ read_pos \in Positions
  BY DEF FilledBounded, Shape
<1>2. /\ Filled \in 0 .. Capacity
      /\ Plus(read_pos, Filled) = write_pos
      /\ \A n \in 0 .. Capacity - Filled : Minus(Plus(write_pos, n), read_pos) = Filled + n
      /\ \A n \in 0 .. Filled : Minus(write_pos, Plus(read_pos, n)) = Filled - n
  BY <1>1, Distance DEF Filled
<1> QED BY <1>2, Sizes

\* The room a write finds: the unsigned subtraction does not wrap.
LEMMA AvailIs ==
  ASSUME Shape, FilledBounded, ~Resetting
  PROVE  Avail = Capacity - Filled
<1>1. Filled \in 0 .. Capacity
  BY FilledIs
<1>2. Capacity \in Positions /\ Filled \in Positions
  BY <1>1, Sizes DEF Positions
<1>3. Minus(Capacity, Filled) = Capacity - Filled
  BY <1>1, <1>2, MinusIs, Sizes
<1> QED BY <1>3 DEF Avail, Filled

\* The slot of a position that a write has open lies behind the whole content.
LEMMA WriteSlotIs ==
  ASSUME IInv, w_pc = "copy", NEW k \in 0 .. w_count - 1
  PROVE  /\ Filled + k \in Filled .. Capacity - 1 /\ k \in 0 .. Capacity
         /\ Plus(w_write, k) = Plus(read_pos, Filled + k)
<1> USE DEF IInv
<1>1. /\ Filled \in 0 .. Capacity /\ Plus(read_pos, Filled) = write_pos
      /\ w_write = write_pos /\ Filled + w_count <= Capacity /\ w_count \in Nat
  BY FilledIs DEF Producing, Resetting, Shape
<1>2. Filled + k \in Filled .. Capacity - 1 /\ k \in 0 .. Capacity /\ Filled + k <= Capacity
  BY <1>1, Sizes
<1>3. Plus(Plus(read_pos, Filled), k) = Plus(read_pos, Filled + k)
  BY <1>1, <1>2, PlusPlus DEF Shape
<1> QED BY <1>1, <1>2, <1>3

LEMMA InitIInv == Init => IInv
<1> SUFFICES ASSUME Init PROVE IInv
  OBVIOUS
<1>1. Shape
  <2>1. 0 \in Positions
    BY Sizes DEF Positions
  <2>2. Len(w_samples) = 0 /\ w_samples \in Seq(Samples) /\ r_out \in Seq(Samples)
    BY DEF Init
  <2> QED BY <2>1, <2>2, SampleAssumption, CountAssumption DEF Init, Shape
<1>2. Filled = 0
  <2>1. 0 \in Positions
    BY Sizes DEF Positions
  <2> QED BY <2>1, MinusIs DEF Init, Filled
<1>3. FilledBounded
  BY <1>2, Sizes DEF FilledBounded
<1> QED BY <1>1, <1>3 DEF IInv, Init, Producing, Consuming, ResetSoFar

LEMMA WriteLoadStep ==
  ASSUME IInv, NEW n \in 1 .. MaxCount, NEW samples \in [1 .. n -> Samples], WriteLoad(samples)
  PROVE  IInv'
<1> USE DEF IInv
<1>1. ~Resetting /\ ~Resetting' /\ Filled' = Filled
  BY DEF WriteLoad, Resetting, Filled, Minus
<1>2. Avail = Capacity - Filled /\ Filled \in 0 .. Capacity
  BY <1>1, AvailIs, FilledIs
<1>3. samples \in Seq(Samples) /\ Len(samples) = n /\ n \in Nat /\ n <= MaxCount
  BY CountAssumption
<1>4. /\ w_count' \in 0 .. MaxCount /\ w_count' <= Len(samples)
      /\ Filled + w_count' <= Capacity
  BY <1>2, <1>3, CountAssumption, Sizes DEF WriteLoad, Least
<1>5. Shape'
  BY <1>3, <1>4, CountAssumption DEF WriteLoad, Shape, rvars
<1>6. FilledBounded'
  BY <1>1 DEF FilledBounded
<1>7. Producing'
  BY <1>1, <1>4, CountAssumption DEF WriteLoad, Producing
<1>8. Consuming' /\ ResetSoFar'
  BY <1>1 DEF WriteLoad, Consuming, ResetSoFar, rvars
<1> QED BY <1>5, <1>6, <1>7, <1>8

\* The copy of a sample touches neither the content nor what was copied before.
LEMMA WriteCopyStep == ASSUME IInv, WriteCopy PROVE IInv'
<1> USE DEF IInv
<1>0. /\ w_pc = "copy" /\ w_done \in 0 .. w_count - 1 /\ w_write = write_pos
      /\ w_count <= Len(w_samples) /\ w_done + 1 \in 0 .. MaxCount
      /\ data' = [data EXCEPT ![Slot(Plus(w_write, w_done))] = w_samples[w_done + 1]]
      /\ w_done' = w_done + 1
      /\ UNCHANGED <<write_pos, read_pos, w_pc, w_samples, w_write, w_count, rvars>>
  BY CountAssumption DEF WriteCopy, Producing, Shape
<1>1. ~Resetting /\ ~Resetting' /\ Filled' = Filled /\ Filled \in 0 .. Capacity
  BY <1>0, FilledIs DEF Resetting, Filled, Minus
<1>2. /\ Filled + w_done \in Filled .. Capacity - 1 /\ w_done \in 0 .. Capacity
      /\ Plus(w_write, w_done) = Plus(read_pos, Filled + w_done)
  BY <1>0, WriteSlotIs
<1>3. w_samples[w_done + 1] \in Samples
  BY <1>0 DEF Shape
<1>4. Shape'
  BY <1>0, <1>3 DEF Shape, rvars
<1>5. FilledBounded'
  BY <1>1 DEF FilledBounded
<1>6. Producing'
  <2>1. \A i \in 0 .. w_done : data'[Slot(Plus(write_pos, i))] = w_samples[i + 1]
    <3> SUFFICES ASSUME NEW i \in 0 .. w_done
                 PROVE  data'[Slot(Plus(write_pos, i))] = w_samples[i + 1]
      OBVIOUS
    <3>0. i \in 0 .. Capacity /\ i \in 0 .. Capacity - 1 /\ w_done \in 0 .. Capacity - 1
      BY <1>0, <1>1, <1>2, Sizes
    <3>1. Slot(Plus(write_pos, i)) \in Slots
      BY <3>0, PlusIs, SlotOf DEF Shape
    <3>2. CASE i = w_done
      BY <1>0, <3>1, <3>2 DEF Shape
    <3>3. CASE i # w_done
      <4>1. i \in 0 .. w_done - 1
        BY <3>3, <3>0
      <4>2. Slot(Plus(write_pos, i)) # Slot(Plus(write_pos, w_done))
        BY <3>0, <3>3, SlotsApart DEF Shape
      <4> QED BY <1>0, <3>1, <4>1, <4>2 DEF Producing, Shape
    <3> QED BY <3>2, <3>3
  <2>2. w_done + 1 <= w_count /\ w_done' - 1 = w_done
    BY <1>0 DEF Shape
  <2> QED BY <1>0, <1>1, <2>1, <2>2 DEF Producing
<1>7. Consuming'
  <2> SUFFICES ASSUME r_pc = "copy", NEW i \in 1 .. Len(r_out)
               PROVE  data'[Slot(Plus(read_pos, i - 1))] = data[Slot(Plus(read_pos, i - 1))]
    BY <1>0, <1>1 DEF Consuming, rvars
  <2>1. Len(r_out) <= r_count /\ r_count <= Filled /\ r_count \in Nat /\ Len(r_out) \in Nat
    BY CountAssumption DEF Consuming, Shape
  <2>2. /\ i - 1 \in 0 .. Capacity - 1 /\ Filled + w_done \in 0 .. Capacity - 1
        /\ i - 1 # Filled + w_done /\ i - 1 \in 0 .. Capacity
    BY <1>1, <1>2, <2>1, Sizes
  <2>3. Slot(Plus(read_pos, i - 1)) # Slot(Plus(w_write, w_done))
    BY <1>2, <2>2, SlotsApart DEF Shape
  <2>4. Slot(Plus(read_pos, i - 1)) \in Slots
    BY <2>2, PlusIs, SlotOf DEF Shape
  <2> QED BY <1>0, <2>3, <2>4 DEF Shape
<1>8. ResetSoFar'
  BY <1>0 DEF ResetSoFar
<1> QED BY <1>4, <1>5, <1>6, <1>7, <1>8

\* The new write position, and the content it publishes.
LEMMA Published ==
  ASSUME IInv, WritePublish
  PROVE  /\ ~Resetting /\ ~Resetting' /\ Filled \in 0 .. Capacity /\ w_count \in 0 .. Capacity
         /\ w_write = write_pos /\ w_count <= Len(w_samples) /\ w_done = w_count
         /\ write_pos' \in Positions /\ Filled' = Filled + w_count /\ Filled' \in 0 .. Capacity
<1> USE DEF IInv
<1>1. /\ w_pc = "copy" /\ w_write = write_pos /\ w_count <= Len(w_samples) /\ w_done = w_count
      /\ Filled + w_count <= Capacity /\ w_count \in Nat
      /\ write_pos' = Plus(write_pos, w_count) /\ read_pos' = read_pos
      /\ ~Resetting /\ ~Resetting'
  BY CountAssumption DEF WritePublish, Producing, Shape, Resetting
<1>2. /\ Filled \in 0 .. Capacity
      /\ \A n \in 0 .. Capacity - Filled : Minus(Plus(write_pos, n), read_pos) = Filled + n
  BY <1>1, FilledIs
<1>3. w_count \in 0 .. Capacity - Filled /\ w_count \in 0 .. Capacity
  BY <1>1, <1>2, Sizes
<1>4. write_pos' \in Positions
  BY <1>1, <1>3, PlusIs DEF Shape
<1>5. Filled' = Filled + w_count
  <2>1. Filled' = Minus(write_pos', read_pos')
    BY DEF Filled, Minus
  <2> QED BY <2>1, <1>1, <1>2, <1>3
<1> QED BY <1>1, <1>2, <1>3, <1>4, <1>5

LEMMA WritePublishStep == ASSUME IInv, WritePublish PROVE IInv'
<1> USE DEF IInv
<1>1. Shape'
  BY Published DEF WritePublish, Shape, rvars
<1>2. FilledBounded'
  BY Published, Sizes DEF FilledBounded
<1>3. Producing' /\ ResetSoFar'
  BY DEF WritePublish, Producing, ResetSoFar
<1>4. Consuming'
  <2> SUFFICES ASSUME r_pc = "copy" PROVE r_count <= Filled'
    BY Published DEF WritePublish, Consuming, rvars
  <2>1. r_count <= Filled /\ r_count \in Nat
    BY CountAssumption DEF Consuming, Shape
  <2> QED BY <2>1, Published, Sizes
<1> QED BY <1>1, <1>2, <1>3, <1>4

LEMMA ReadLoadStep ==
  ASSUME IInv, ConcurrentReset = FALSE, NEW n \in 1 .. MaxCount, ReadLoad(n) PROVE IInv'
<1> USE DEF IInv
<1>1. ~Resetting /\ ~Resetting' /\ Filled' = Filled
  BY DEF ReadLoad, Resetting, Filled, Minus, wvars
<1>2. Filled \in 0 .. Capacity
  BY <1>1, FilledIs
<1>3. r_count' \in 0 .. MaxCount /\ r_count' <= Filled
  <2>1. r_count' = Least(n, Filled)
    BY DEF ReadLoad, Filled
  <2> QED BY <2>1, <1>2, CountAssumption, Sizes DEF Least
<1>4. r_out' = <<>> /\ r_out' \in Seq(Samples) /\ Len(r_out') = 0
  BY DEF ReadLoad
<1>5. Shape'
  BY <1>3, <1>4 DEF ReadLoad, Shape, wvars
<1>6. FilledBounded'
  BY <1>1 DEF FilledBounded
<1>7. Producing' /\ ResetSoFar'
  BY <1>1 DEF ReadLoad, Producing, ResetSoFar, wvars
<1>8. Consuming'
  BY <1>1, <1>3, <1>4, CountAssumption DEF ReadLoad, Consuming
<1> QED BY <1>5, <1>6, <1>7, <1>8

LEMMA ReadCopyStep == ASSUME IInv, ReadCopy PROVE IInv'
<1> USE DEF IInv
<1> DEFINE x == data[Slot(Plus(r_read, Len(r_out)))]
<1>0. /\ r_pc = "copy" /\ ~Resetting /\ r_read = read_pos /\ Len(r_out) < r_count
      /\ r_count <= Filled /\ Len(r_out) \in Nat /\ r_count \in Nat
      /\ r_out' = Append(r_out, x)
      /\ UNCHANGED <<data, write_pos, read_pos, wvars, r_pc, r_read, r_count>>
  BY CountAssumption DEF ReadCopy, Consuming, Shape
<1>1. ~Resetting' /\ Filled' = Filled /\ Filled \in 0 .. Capacity
  BY <1>0, FilledIs DEF Resetting, Filled, Minus, wvars
<1>2. Len(r_out) \in 0 .. Capacity
  BY <1>0, <1>1, Sizes
<1>3. x \in Samples
  BY <1>0, <1>2, PlusIs, SlotOf DEF Shape
<1> HIDE DEF x
<1>4. /\ r_out' \in Seq(Samples) /\ Len(r_out') = Len(r_out) + 1
      /\ \A i \in 1 .. Len(r_out) : r_out'[i] = r_out[i]
      /\ r_out'[Len(r_out) + 1] = x
  BY <1>0, <1>3 DEF Shape
<1>5. Shape'
  BY <1>0, <1>4 DEF Shape, wvars
<1>6. FilledBounded'
  BY <1>1 DEF FilledBounded
<1>7. Producing' /\ ResetSoFar'
  BY <1>0, <1>1 DEF Producing, ResetSoFar, wvars
<1>8. Consuming'
  <2>1. \A i \in 1 .. Len(r_out') : r_out'[i] = data[Slot(Plus(read_pos, i - 1))]
    <3> SUFFICES ASSUME NEW i \in 1 .. Len(r_out')
                 PROVE  r_out'[i] = data[Slot(Plus(read_pos, i - 1))]
      OBVIOUS
    <3>1. CASE i \in 1 .. Len(r_out)
      BY <1>0, <1>4, <3>1 DEF Consuming
    <3>2. CASE i = Len(r_out) + 1
      <4>1. i - 1 = Len(r_out)
        BY <3>2, <1>0
      <4> QED BY <1>0, <1>4, <3>2, <4>1 DEF x
    <3>3. i \in 1 .. Len(r_out) \/ i = Len(r_out) + 1
      BY <1>0, <1>4
    <3> QED BY <3>1, <3>2, <3>3
  <2>2. Len(r_out') <= r_count
    BY <1>0, <1>4
  <2> QED BY <1>0, <1>1, <2>1, <2>2 DEF Consuming
<1> QED BY <1>5, <1>6, <1>7, <1>8

\* The new read position, and the content it leaves.
LEMMA Released ==
  ASSUME IInv, ReadPublish
  PROVE  /\ ~Resetting /\ ~Resetting' /\ Filled \in 0 .. Capacity /\ r_count \in 0 .. Filled
         /\ r_read = read_pos /\ Len(r_out) = r_count
         /\ read_pos' = Plus(read_pos, r_count)
         /\ read_pos' \in Positions /\ Filled' = Filled - r_count /\ Filled' \in 0 .. Capacity
<1> USE DEF IInv
<1>1. /\ r_pc = "copy" /\ r_read = read_pos /\ Len(r_out) = r_count
      /\ r_count <= Filled /\ r_count \in Nat
      /\ read_pos' = Plus(read_pos, r_count) /\ write_pos' = write_pos
      /\ ~Resetting /\ ~Resetting'
  BY CountAssumption DEF ReadPublish, Consuming, Shape, Resetting, wvars
<1>2. /\ Filled \in 0 .. Capacity
      /\ \A n \in 0 .. Filled : Minus(write_pos, Plus(read_pos, n)) = Filled - n
  BY <1>1, FilledIs
<1>3. r_count \in 0 .. Filled /\ r_count \in 0 .. Capacity
  BY <1>1, <1>2, Sizes
<1>4. read_pos' \in Positions
  BY <1>1, <1>3, PlusIs DEF Shape
<1>5. Filled' = Filled - r_count
  <2>1. Filled' = Minus(write_pos', read_pos')
    BY DEF Filled, Minus
  <2> QED BY <2>1, <1>1, <1>2, <1>3
<1>6. Filled' \in 0 .. Capacity
  BY <1>2, <1>3, <1>5, Sizes
<1> QED BY <1>1, <1>2, <1>3, <1>4, <1>5, <1>6

LEMMA ReadPublishStep == ASSUME IInv, ReadPublish PROVE IInv'
<1> USE DEF IInv
<1>1. Shape'
  BY Released DEF ReadPublish, Shape, wvars
<1>2. FilledBounded'
  BY Released, Sizes DEF FilledBounded
<1>3. Consuming' /\ ResetSoFar'
  BY Released DEF ReadPublish, Consuming, ResetSoFar, Resetting, wvars
<1>4. Producing'
  <2> SUFFICES ASSUME w_pc = "copy" PROVE Filled' + w_count <= Capacity
    BY DEF ReadPublish, Producing, wvars
  <2>1. Filled + w_count <= Capacity /\ w_count \in Nat
    BY CountAssumption DEF Producing, Shape
  <2> QED BY <2>1, Released, Sizes
<1> QED BY <1>1, <1>2, <1>3, <1>4

LEMMA ResetWriteStep == ASSUME IInv, ConcurrentReset = FALSE, ResetWrite PROVE IInv'
<1> USE DEF IInv
<1>0. 0 \in Positions
  BY Sizes DEF Positions
<1>1. Shape' /\ FilledBounded'
  BY <1>0 DEF ResetWrite, Shape, FilledBounded, Resetting, rvars
<1>2. Producing' /\ Consuming' /\ ResetSoFar'
  BY DEF ResetWrite, Producing, Consuming, ResetSoFar, rvars
<1> QED BY <1>1, <1>2

LEMMA ResetReadStep == ASSUME IInv, ResetRead PROVE IInv'
<1> USE DEF IInv
<1>0. 0 \in Positions
  BY Sizes DEF Positions
<1>1. Shape' /\ FilledBounded'
  BY <1>0 DEF ResetRead, Shape, FilledBounded, Resetting, rvars
<1>2. Producing' /\ Consuming' /\ ResetSoFar'
  BY DEF ResetRead, Producing, Consuming, ResetSoFar, Resetting, rvars
<1> QED BY <1>1, <1>2

LEMMA ResetDataStep == ASSUME IInv, ResetData PROVE IInv'
<1> USE DEF IInv
<1>0. 0 \in Positions /\ write_pos' = 0 /\ read_pos' = 0
  BY Sizes DEF Positions, ResetData, ResetSoFar
<1>1. Filled' = 0
  <2>1. Filled' = Minus(write_pos', read_pos')
    BY DEF Filled, Minus
  <2> QED BY <2>1, <1>0, MinusIs
<1>2. Shape'
  BY SampleAssumption DEF ResetData, Shape, rvars
<1>3. FilledBounded'
  BY <1>1, Sizes DEF FilledBounded
<1>4. Producing' /\ Consuming' /\ ResetSoFar'
  BY DEF ResetData, Producing, Consuming, ResetSoFar, Resetting, rvars
<1> QED BY <1>2, <1>3, <1>4

LEMMA Stutter == ASSUME IInv, UNCHANGED vars PROVE IInv'
<1>1. Filled' = Filled /\ Resetting' = Resetting
  BY DEF vars, wvars, Filled, Minus, Resetting
<1> QED BY <1>1 DEF IInv, vars, wvars, rvars, Shape, FilledBounded, Producing, Consuming,
                    ResetSoFar

LEMMA NextIInv == ASSUME ConcurrentReset = FALSE PROVE IInv /\ [Next]_vars => IInv'
BY WriteLoadStep, WriteCopyStep, WritePublishStep, ReadLoadStep, ReadCopyStep, ReadPublishStep,
   ResetWriteStep, ResetReadStep, ResetDataStep, Stutter
   DEF Next, Producer, Consumer

-----------------------------------------------------------------------------
\* Slots, positions and the threads' copies of them keep their kinds, and the
\* ring never holds more than its capacity, so that available_write in
\* audio_buffer_write does not wrap - if audio_buffer_reset is only called
\* while the consumer is stopped.
THEOREM TypeCorrect == ASSUME ConcurrentReset = FALSE PROVE Spec => []TypeOK
<1>1. IInv => TypeOK
  BY ShapeIs DEF IInv
<1>2. IInv /\ [Next]_vars => IInv'
  BY NextIInv
<1> QED BY InitIInv, <1>1, <1>2, PTL DEF Spec

LEMMA OpenSlotsDiffer == IInv => DataRaceFree
<1> SUFFICES ASSUME IInv, w_pc = "copy", r_pc = "copy",
                    NEW i \in w_done .. w_count - 1, NEW j \in Len(r_out) .. r_count - 1
             PROVE  Slot(Plus(w_write, i)) # Slot(Plus(r_read, j))
  BY DEF DataRaceFree, WriteSlots, ReadSlots
<1> USE DEF IInv
<1>1. /\ r_read = read_pos /\ r_count <= Filled /\ r_count \in Nat /\ Len(r_out) \in Nat
      /\ w_done \in Nat /\ w_count \in Nat
  BY CountAssumption DEF Consuming, Shape
<1>2. i \in 0 .. w_count - 1
  BY <1>1
<1>3. /\ Filled + i \in Filled .. Capacity - 1
      /\ Plus(w_write, i) = Plus(read_pos, Filled + i)
  BY <1>2, WriteSlotIs
<1>4. Filled \in 0 .. Capacity
  BY FilledIs DEF Resetting
<1>5. Filled + i \in 0 .. Capacity - 1 /\ j \in 0 .. Capacity - 1 /\ Filled + i # j
  BY <1>1, <1>2, <1>3, <1>4, Sizes
<1> QED BY <1>1, <1>3, <1>5, SlotsApart DEF Shape

\* Without a lock between them, audio_buffer_write and audio_buffer_read never
\* have the same element of the non-atomic data[] open.
THEOREM RaceFree == ASSUME ConcurrentReset = FALSE PROVE Spec => []DataRaceFree
<1>1. IInv /\ [Next]_vars => IInv'
  BY NextIInv
<1> QED BY InitIInv, OpenSlotsDiffer, <1>1, PTL DEF Spec

-----------------------------------------------------------------------------
(* The ring implements the bounded stream of SampleStream.                 *)

LEMMA ContentIs ==
  /\ ~Resetting => Content = Run(data, read_pos, Filled)
  /\ Resetting => Content = <<>>
BY DEF Content, Run

LEMMA ContentNextIs ==
  /\ ~Resetting' => Content' = Run(data', read_pos', Filled')
  /\ Resetting' => Content' = <<>>
BY DEF Content, Run, Slot, Plus, Filled, Minus, Resetting

LEMMA InitRefines == Init => Stream!Init
<1> SUFFICES ASSUME Init PROVE Stream!Init
  OBVIOUS
<1>1. Filled = 0 /\ ~Resetting
  <2>1. 0 \in Positions
    BY Sizes DEF Positions
  <2> QED BY <2>1, MinusIs DEF Init, Filled, Resetting
<1>2. Content = <<>>
  BY <1>1 DEF Content
<1> QED BY <1>2 DEF Init, Stream!Init, Delivered

LEMMA WriteLoadRefines ==
  ASSUME NEW n \in 1 .. MaxCount, NEW samples \in [1 .. n -> Samples], WriteLoad(samples)
  PROVE  Stream!BeginWrite
<1>1. Content' = Content /\ Delivered' = Delivered
  BY DEF WriteLoad, Content, Resetting, Filled, Minus, Delivered, rvars
<1>2. w_samples' \in Seq(Samples)
  BY CountAssumption DEF WriteLoad
<1> QED BY <1>1, <1>2 DEF Stream!BeginWrite

LEMMA WriteCopyRefines ==
  ASSUME IInv, WriteCopy PROVE UNCHANGED Stream!svars
<1> USE DEF IInv
<1>0. /\ w_pc = "copy" /\ w_done \in 0 .. w_count - 1
      /\ data' = [data EXCEPT ![Slot(Plus(w_write, w_done))] = w_samples[w_done + 1]]
      /\ UNCHANGED <<write_pos, read_pos, w_pc, w_samples, rvars>>
  BY CountAssumption DEF WriteCopy, Shape
<1>1. ~Resetting /\ ~Resetting' /\ Filled' = Filled /\ Filled \in 0 .. Capacity
  BY <1>0, FilledIs DEF Resetting, Filled, Minus
<1>2. /\ Filled + w_done \in Filled .. Capacity - 1
      /\ Plus(w_write, w_done) = Plus(read_pos, Filled + w_done)
  BY <1>0, WriteSlotIs
<1>3. Run(data', read_pos, Filled) = Run(data, read_pos, Filled)
  <2> DEFINE k == Filled + w_done
  <2>1. data' = [data EXCEPT ![Slot(Plus(read_pos, k))] = w_samples[w_done + 1]]
    BY <1>0, <1>2
  <2>2. k \in Filled .. Capacity - 1
    BY <1>2
  <2>3. data \in [Slots -> Samples] /\ read_pos \in Positions
    BY DEF Shape
  <2> HIDE DEF k
  <2>4. Run([data EXCEPT ![Slot(Plus(read_pos, k))] = w_samples[w_done + 1]], read_pos, Filled)
          = Run(data, read_pos, Filled)
    BY <1>1, <2>2, <2>3, RunKept
  <2> QED BY <2>1, <2>4
<1>4. Content' = Content
  BY <1>0, <1>1, <1>3, ContentIs, ContentNextIs
<1> QED BY <1>0, <1>4 DEF Stream!svars, Delivered, rvars

LEMMA WritePublishRefines ==
  ASSUME IInv, WritePublish PROVE Stream!Write
<1> USE DEF IInv
<1>0. /\ ~Resetting /\ ~Resetting' /\ Filled \in 0 .. Capacity /\ w_count \in 0 .. Capacity
      /\ w_write = write_pos /\ w_count <= Len(w_samples) /\ w_done = w_count
      /\ Filled' = Filled + w_count /\ Filled' \in 0 .. Capacity
      /\ w_pc = "copy" /\ UNCHANGED <<data, read_pos, w_samples, rvars>>
  BY Published DEF WritePublish
<1>1. Plus(read_pos, Filled) = write_pos
  BY <1>0, FilledIs
<1> DEFINE t == Run(data, write_pos, w_count)
<1> DEFINE u == SubSeq(w_samples, 1, w_count)
<1>2. Run(data, read_pos, Filled + w_count) = Run(data, read_pos, Filled) \o t
  <2>1. data \in [Slots -> Samples] /\ read_pos \in Positions /\ Filled + w_count <= Capacity
    BY <1>0, Sizes DEF Shape
  <2> QED BY <1>0, <1>1, <2>1, RunConcat
<1>3. t = u
  <2>1. /\ t \in Seq(Samples) /\ Len(t) = w_count
        /\ \A i \in 1 .. w_count : t[i] = data[Slot(Plus(write_pos, i - 1))]
    BY <1>0, RunIs DEF Shape
  <2>2. \A i \in 1 .. w_count : w_samples[i] \in Samples
    BY <1>0 DEF Shape
  <2>3. /\ u \in Seq(Samples) /\ Len(u) = w_count
        /\ \A i \in 1 .. w_count : u[i] = w_samples[i]
    BY <1>0, <2>2, SubSeqProperties, Sizes
  <2>4. \A i \in 1 .. w_count : data[Slot(Plus(write_pos, i - 1))] = w_samples[i]
    <3> TAKE i \in 1 .. w_count
    <3>1. i - 1 \in 0 .. w_done - 1 /\ (i - 1) + 1 = i
      BY <1>0, Sizes
    <3> QED BY <1>0, <3>1 DEF Producing
  <2> HIDE DEF t, u
  <2>5. \A i \in 1 .. Len(t) : t[i] = u[i]
    BY <2>1, <2>3, <2>4
  <2> QED BY <2>1, <2>3, <2>5, SeqEqual
<1>4. Content' = Content \o u
  BY <1>0, <1>2, <1>3, ContentIs, ContentNextIs
<1>5. Len(Content) = Filled
  BY <1>0, RunIs, ContentIs DEF Shape
<1>6. w_count \in 0 .. Len(w_samples) /\ Len(Content) + w_count <= Capacity
  BY <1>0, <1>5, Sizes DEF Shape
<1>7. Delivered' = Delivered
  BY <1>0 DEF Delivered, rvars
<1> QED BY <1>0, <1>4, <1>6, <1>7 DEF Stream!Write

LEMMA ReadLoadRefines ==
  ASSUME NEW n \in 1 .. MaxCount, ReadLoad(n) PROVE Stream!BeginRead
<1>1. Content' = Content /\ w_samples' = w_samples
  BY DEF ReadLoad, Content, Resetting, Filled, Minus, wvars
<1>2. Delivered' = <<>>
  BY DEF ReadLoad, Delivered
<1> QED BY <1>1, <1>2 DEF Stream!BeginRead

LEMMA ReadCopyRefines == ASSUME ReadCopy PROVE UNCHANGED Stream!svars
<1>1. Content' = Content /\ w_samples' = w_samples
  BY DEF ReadCopy, Content, Resetting, Filled, Minus, wvars
<1>2. Delivered' = Delivered
  BY DEF ReadCopy, Delivered
<1> QED BY <1>1, <1>2 DEF Stream!svars

LEMMA ReadPublishRefines == ASSUME IInv, ReadPublish PROVE Stream!Read
<1> USE DEF IInv
<1>0. /\ ~Resetting /\ ~Resetting' /\ Filled \in 0 .. Capacity /\ r_count \in 0 .. Filled
      /\ r_read = read_pos /\ Len(r_out) = r_count
      /\ read_pos' = Plus(read_pos, r_count) /\ Filled' = Filled - r_count
      /\ r_pc = "copy" /\ r_pc' = "idle" /\ UNCHANGED <<data, w_samples, r_out>>
  BY Released DEF ReadPublish, wvars
<1>1. /\ r_count \in 0 .. Capacity /\ Filled - r_count \in 0 .. Capacity
      /\ r_count + (Filled - r_count) = Filled /\ Filled <= Capacity
  BY <1>0, Sizes
<1> DEFINE t == Run(data, read_pos, r_count)
<1>2. Run(data, read_pos, r_count + (Filled - r_count))
        = t \o Run(data, Plus(read_pos, r_count), Filled - r_count)
  BY <1>1, RunConcat DEF Shape
<1>3. t = r_out
  <2>1. /\ t \in Seq(Samples) /\ Len(t) = r_count
        /\ \A i \in 1 .. r_count : t[i] = data[Slot(Plus(read_pos, i - 1))]
    BY <1>1, RunIs DEF Shape
  <2> HIDE DEF t
  <2>2. \A i \in 1 .. Len(t) : t[i] = r_out[i]
    BY <1>0, <2>1 DEF Consuming
  <2> QED BY <1>0, <2>1, <2>2, SeqEqual DEF Shape
<1>4. Content = r_out \o Content'
  BY <1>0, <1>1, <1>2, <1>3, ContentIs, ContentNextIs
<1>5. Delivered' = r_out
  BY <1>0 DEF Delivered
<1> QED BY <1>0, <1>4, <1>5 DEF Stream!Read

LEMMA ResetRefines ==
  ASSUME IInv, ResetWrite \/ ResetRead \/ ResetData PROVE Stream!Reset
<1>1. Content' = <<>>
  <2>1. CASE ResetWrite \/ ResetRead
    BY <2>1, ContentNextIs DEF ResetWrite, ResetRead, Resetting
  <2>2. CASE ResetData
    <3>1. 0 \in Positions /\ write_pos' = 0 /\ read_pos' = 0
      BY <2>2, Sizes DEF Positions, ResetData, IInv, ResetSoFar
    <3>2. Filled' = 0
      <4>1. Filled' = Minus(write_pos', read_pos')
        BY DEF Filled, Minus
      <4> QED BY <4>1, <3>1, MinusIs
    <3>3. Run(data', read_pos', 0) = <<>>
      BY DEF Run
    <3> QED BY <3>2, <3>3, ContentNextIs
  <2> QED BY <2>1, <2>2
<1>2. Delivered' = Delivered /\ w_samples' = w_samples
  BY DEF ResetWrite, ResetRead, ResetData, Delivered, rvars
<1> QED BY <1>1, <1>2 DEF Stream!Reset

LEMMA StutterRefines == ASSUME UNCHANGED vars PROVE UNCHANGED Stream!svars
BY DEF vars, wvars, rvars, Stream!svars, Content, Delivered, Filled, Minus, Resetting

LEMMA NextRefines == IInv /\ [Next]_vars => [Stream!Next]_(Stream!svars)
BY WriteLoadRefines, WriteCopyRefines, WritePublishRefines, ReadLoadRefines, ReadCopyRefines,
   ReadPublishRefines, ResetRefines, StutterRefines
   DEF Next, Producer, Consumer, Stream!Next

\* The ring is a bounded stream of samples: audio_buffer_write appends a prefix
\* of what it was given when it stores write_pos, audio_buffer_read removes
\* exactly what it returns, in order and unaltered, across every wrap of the
\* positions - if audio_buffer_reset is only called while the consumer is
\* stopped.
THEOREM RefinesStream == ASSUME ConcurrentReset = FALSE PROVE Spec => ImplementsStream
<1>1. IInv /\ [Next]_vars => IInv'
  BY NextIInv
<1> QED BY InitIInv, InitRefines, NextRefines, <1>1, PTL DEF Spec, ImplementsStream, Stream!Spec
==============================================================================
