----------------------------- MODULE AudioBuffer -----------------------------
(***************************************************************************)
(* shell/util/audio_buffer.c: the lock-free single-producer single-        *)
(* consumer ring between a runtime worker (audio_buffer_write) and the SDL *)
(* audio callback (audio_buffer_read).  Positions are free-running         *)
(* uint32_t counters, reduced modulo Modulus here; a slot is a position    *)
(* masked by capacity - 1.  Every access to shared state that the other    *)
(* thread can observe is a step of its own: loading the two positions,     *)
(* copying one sample, storing a position.  Both positions are loaded in   *)
(* one step: each thread's own position can only be changed by itself (or  *)
(* by a reset), so one of the two loads commutes with everything else.     *)
(***************************************************************************)
EXTENDS Naturals, Sequences, FiniteSets

CONSTANTS Samples,     \* sample values
          Silence,     \* the 0.0f memset writes
          Capacity,    \* buf->capacity, a power of two
          Modulus,     \* 2^32 in the build
          MaxCount,    \* bound on the count argument of read and write
          ConcurrentReset
            \* FALSE: audio_buffer_reset is only called while the consumer is
            \* stopped, as audio_buffer.h demands (and a2m, which never resets).
            \* TRUE: the c64m worker's use, which resets beside the callback.

ASSUME SizeAssumption ==
  /\ Capacity \in Nat \ {0}
  /\ Modulus \in Nat \ {0}
  /\ 2 * Capacity <= Modulus       \* audio_buffer_create: capacity <= 2^30
  /\ Modulus % Capacity = 0        \* both are powers of two
ASSUME SampleAssumption == Silence \in Samples
ASSUME CountAssumption == MaxCount \in Nat
ASSUME ResetAssumption == ConcurrentReset \in BOOLEAN

VARIABLES data,                    \* buf->data
          write_pos, read_pos,     \* the two atomics
          w_pc, w_samples, w_write, w_count, w_done,  \* producer: samples, write, count, i
          r_pc, r_read, r_count, r_out      \* consumer: read, actual, out[0..i)

wvars == <<w_pc, w_samples, w_write, w_count, w_done>>
rvars == <<r_pc, r_read, r_count, r_out>>
vars == <<data, write_pos, read_pos, wvars, rvars>>

Slots == 0 .. Capacity - 1
Positions == 0 .. Modulus - 1

\* Mutant of Plus: the position does not wrap.
PlusUnwrapped(pos, n) == pos + n

Slot(pos) == pos % Capacity
Plus(pos, n) == (pos + n) % Modulus          \* uint32_t addition
Minus(pos, n) == (pos + Modulus - n) % Modulus  \* uint32_t subtraction

Filled == Minus(write_pos, read_pos)
Resetting == w_pc \in {"reset_read", "reset_data"}

\* "filled = write_pos - read_pos, available_write = capacity - filled": the
\* ring never holds more than its capacity, across every wrap of the uint32_t
\* positions, so the subtraction in available_write never wraps.
FilledBounded == Resetting \/ Filled <= Capacity

\* Slots, positions and the threads' local copies of them hold values of their
\* kinds, and the positions are never further apart than FilledBounded says.
TypeOK ==
  /\ data \in [Slots -> Samples]
  /\ write_pos \in Positions /\ read_pos \in Positions
  /\ w_pc \in {"idle", "copy", "reset_read", "reset_data"}
  /\ w_samples \in Seq(Samples) /\ Len(w_samples) <= MaxCount
  /\ w_write \in Positions /\ w_count \in 0 .. MaxCount /\ w_done \in 0 .. MaxCount
  /\ r_pc \in {"idle", "copy"}
  /\ r_read \in Positions /\ r_count \in 0 .. MaxCount /\ r_out \in Seq(Samples)
  /\ FilledBounded

Init ==
  /\ data = [s \in Slots |-> Silence]
  /\ write_pos = 0 /\ read_pos = 0
  /\ w_pc = "idle" /\ w_samples = <<>> /\ w_write = 0 /\ w_count = 0 /\ w_done = 0
  /\ r_pc = "idle" /\ r_read = 0 /\ r_count = 0 /\ r_out = <<>>

Least(m, n) == IF m < n THEN m ELSE n

-----------------------------------------------------------------------------
\* Producer.
Avail == Minus(Capacity, Minus(write_pos, read_pos))

\* audio_buffer_write up to the copy loop.  With no room the call returns 0.
WriteLoad(samples) ==
  /\ w_pc = "idle"
  /\ Avail > 0
  /\ w_samples' = samples
  /\ w_write' = write_pos
  /\ w_count' = Least(Len(samples), Avail)
  /\ w_done' = 0
  /\ w_pc' = "copy"
  /\ UNCHANGED <<data, write_pos, read_pos, rvars>>

WriteCopy ==
  /\ w_pc = "copy"
  /\ w_done < w_count
  /\ data' = [data EXCEPT ![Slot(Plus(w_write, w_done))] = w_samples[w_done + 1]]
  /\ w_done' = w_done + 1
  /\ UNCHANGED <<write_pos, read_pos, w_pc, w_samples, w_write, w_count, rvars>>

\* Mutant of WritePublish: the position is released before the last sample.
WritePublishEarly ==
  /\ w_pc = "copy"
  /\ w_done + 1 >= w_count
  /\ write_pos' = Plus(w_write, w_count)
  /\ w_pc' = "idle"
  /\ UNCHANGED <<data, read_pos, w_samples, w_write, w_count, w_done, rvars>>

WritePublish ==
  /\ w_pc = "copy"
  /\ w_done = w_count
  /\ write_pos' = Plus(w_write, w_count)
  /\ w_pc' = "idle"
  /\ UNCHANGED <<data, read_pos, w_samples, w_write, w_count, w_done, rvars>>

-----------------------------------------------------------------------------
\* audio_buffer_reset, called by the producer's thread: three stores.
ResetWrite ==
  /\ w_pc = "idle"
  /\ ConcurrentReset \/ r_pc = "idle"
  /\ write_pos' = 0
  /\ w_pc' = "reset_read"
  /\ UNCHANGED <<data, read_pos, w_samples, w_write, w_count, w_done, rvars>>

ResetRead ==
  /\ w_pc = "reset_read"
  /\ read_pos' = 0
  /\ w_pc' = "reset_data"
  /\ UNCHANGED <<data, write_pos, w_samples, w_write, w_count, w_done, rvars>>

ResetData ==
  /\ w_pc = "reset_data"
  /\ data' = [s \in Slots |-> Silence]
  /\ w_pc' = "idle"
  /\ UNCHANGED <<write_pos, read_pos, w_samples, w_write, w_count, w_done, rvars>>

-----------------------------------------------------------------------------
\* Consumer: audio_buffer_read(count = n).
ReadLoad(n) ==
  /\ r_pc = "idle"
  /\ ConcurrentReset \/ ~Resetting
  /\ r_read' = read_pos
  /\ r_count' = Least(n, Minus(write_pos, read_pos))
  /\ r_out' = <<>>
  /\ r_pc' = "copy"
  /\ UNCHANGED <<data, write_pos, read_pos, wvars>>

ReadCopy ==
  /\ r_pc = "copy"
  /\ Len(r_out) < r_count
  /\ r_out' = Append(r_out, data[Slot(Plus(r_read, Len(r_out)))])
  /\ UNCHANGED <<data, write_pos, read_pos, wvars, r_pc, r_read, r_count>>

\* Mutant of ReadPublish: the slots are given back before they are copied.
ReadPublishEarly ==
  /\ r_pc = "copy"
  /\ read_pos' = Plus(r_read, r_count)
  /\ r_pc' = IF Len(r_out) = r_count THEN "idle" ELSE "copy"
  /\ UNCHANGED <<data, write_pos, wvars, r_read, r_count, r_out>>

ReadPublish ==
  /\ r_pc = "copy"
  /\ Len(r_out) = r_count
  /\ read_pos' = Plus(r_read, r_count)
  /\ r_pc' = "idle"
  /\ UNCHANGED <<data, write_pos, wvars, r_read, r_count, r_out>>

-----------------------------------------------------------------------------
Producer ==
  \/ \E n \in 1 .. MaxCount : \E samples \in [1 .. n -> Samples] : WriteLoad(samples)
  \/ WriteCopy
  \/ WritePublish
  \/ ResetWrite \/ ResetRead \/ ResetData

Consumer ==
  \/ \E n \in 1 .. MaxCount : ReadLoad(n)
  \/ ReadCopy
  \/ ReadPublish

Next == Producer \/ Consumer

Spec == Init /\ [][Next]_vars

-----------------------------------------------------------------------------
\* The slots the producer has still to write and those the consumer has still
\* to read, in this call.
WriteSlots == {Slot(Plus(w_write, i)) : i \in IF w_pc = "copy" THEN w_done .. w_count - 1 ELSE {}}
ReadSlots  == {Slot(Plus(r_read, i)) : i \in IF r_pc = "copy" THEN Len(r_out) .. r_count - 1 ELSE {}}

\* data[] is not atomic: producer and consumer never have the same slot open.
DataRaceFree == WriteSlots \cap ReadSlots = {}

\* What the consumer can read, oldest first.
Content ==
  IF Resetting THEN <<>>
  ELSE [i \in 1 .. Filled |-> data[Slot(Plus(read_pos, i - 1))]]
Delivered == IF r_pc = "idle" THEN r_out ELSE <<>>

Stream == INSTANCE SampleStream
            WITH stream <- Content, delivered <- Delivered, offered <- w_samples

\* The ring behaves as a bounded sample stream: a write appends the samples it
\* was given, or a prefix of them, when it stores write_pos; a read removes
\* exactly the samples it returns when it stores read_pos, in order and
\* unaltered.
ImplementsStream == Stream!Spec
=============================================================================
