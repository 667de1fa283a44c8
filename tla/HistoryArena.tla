---------------------------- MODULE HistoryArena -----------------------------
(***************************************************************************)
(* HST1, the CPU flight recorder: shell/runtime/runtime_history.c, driven  *)
(* the way c64/runtime/runtime_thread.c and runtime_inspector.c drive it.  *)
(* An arena of fixed-size blocks is filled in ring order with records of   *)
(* variable size; a record's id, cycle and timeline are not stored but     *)
(* derived from its block, so they are right only as long as the block's   *)
(* bookkeeping is.  Everything runs on the worker thread; what makes it    *)
(* hard is the order of the calls.                                         *)
(* The arena is one record, h, because the worker composes its operations: *)
(* an operator here maps an arena to the arena after a call.               *)
(* Left out: record payloads, seal flags (written, never read), telemetry  *)
(* counters, the opcode-pattern and access filters of a query.             *)
(***************************************************************************)
EXTENDS Integers, Sequences, FiniteSets, FiniteSetsExt

CONSTANTS BlockCount, BlockSize,
          HeaderSize, AccessSize,    \* HISTORY_EXEC_HEADER_SIZE, _ACCESS_SIZE
          MaxAccesses,               \* RUNTIME_HISTORY_MAX_ACCESSES_PER_RECORD
          MaxDelta,                  \* UINT32_MAX, the largest cycle delta
          MaxClock, MaxRecords,      \* bounds: machine cycle, records an epoch
          MaxEpoch, MaxTimeline,     \* bounds
          MediaWhileStopped
            \* whether the Inspector may be recording (and so report media
            \* writes) while HST1 is stopped; the two are independent toggles

MaxRecordSize == HeaderSize + MaxAccesses * AccessSize

\* runtime_history_create_ex leaves a smaller arena unavailable.
ASSUME SizeAssumption ==
  /\ BlockCount \in Nat \ {0} /\ BlockSize \in Nat
  /\ HeaderSize \in Nat \ {0} /\ AccessSize \in Nat \ {0} /\ MaxAccesses \in Nat
  /\ MaxRecordSize <= BlockSize
ASSUME BoundsAssumption ==
  /\ MaxDelta \in Nat /\ MaxClock \in Nat /\ MaxRecords \in Nat \ {0}
  /\ MaxEpoch \in Nat \ {0} /\ MaxTimeline \in Nat \ {0}
  /\ MediaWhileStopped \in BOOLEAN

VARIABLES h,              \* struct runtime_history
          clock,          \* machine.clock.cycle
          pending_trap,   \* rt->pending_history_trap
          log             \* history: what each retained record was told to be

vars == <<h, clock, pending_trap, log>>

Blocks == 0 .. BlockCount - 1
NoBlock == -1             \* has_current_block = 0; no active record; not found
AnyTimeline == -1         \* has_timeline = false

EmptyBlock == [occupied |-> FALSE, epoch |-> 0, timeline |-> 0, base_cycle |-> 0,
               first_id |-> 0, last_id |-> 0, used |-> 0, partial_count |-> 0,
               records |-> <<>>]

RecordType == [delta : 0 .. MaxDelta, accesses : 0 .. MaxAccesses,
               truncated : BOOLEAN, partial : BOOLEAN, marker : BOOLEAN]
BlockType  == [occupied : BOOLEAN, epoch : 0 .. MaxEpoch, timeline : 0 .. MaxTimeline,
               base_cycle : 0 .. MaxClock, first_id : 0 .. MaxRecords,
               last_id : 0 .. MaxRecords, used : 0 .. BlockSize,
               partial_count : 0 .. MaxRecords, records : Seq(RecordType)]

TypeOK ==
  /\ h.blocks \in [Blocks -> BlockType]
  /\ h.current \in Blocks \cup {NoBlock} /\ h.active \in Blocks \cup {NoBlock}
  /\ h.epoch \in 1 .. MaxEpoch /\ h.next_id \in 1 .. MaxRecords + 1
  /\ h.timeline \in 0 .. MaxTimeline /\ h.recording \in BOOLEAN
  /\ h.retain_oldest_id \in 0 .. MaxRecords
  /\ clock \in 0 .. MaxClock /\ pending_trap \in BOOLEAN
  /\ DOMAIN log \subseteq 1 .. MaxRecords
  /\ \A id \in DOMAIN log :
       log[id] \in [cycle : 0 .. MaxClock, timeline : 0 .. MaxTimeline,
                   marker : BOOLEAN, accesses : 0 .. MaxAccesses + 1, complete : BOOLEAN]

Init ==
  /\ h = [blocks |-> [b \in Blocks |-> EmptyBlock], current |-> NoBlock,
          active |-> NoBlock, epoch |-> 1, next_id |-> 1, timeline |-> 0,
          recording |-> TRUE, retain_oldest_id |-> 0]
  /\ clock = 0 /\ pending_trap = FALSE /\ log = <<>>

-----------------------------------------------------------------------------
(* Operations of runtime_history.c.                                        *)

\* history_advance_block: the oldest block of a full ring is overwritten.
AdvanceBlock(a, cycle) ==
  LET next == IF a.current = NoBlock THEN 0 ELSE (a.current + 1) % BlockCount
  IN [a EXCEPT !.current = next,
               !.blocks[next] = [EmptyBlock EXCEPT !.occupied = TRUE,
                                   !.epoch = a.epoch, !.timeline = a.timeline,
                                   !.base_cycle = cycle]]

\* Mutants of Fits: the space left, or the 32-bit delta, is not looked at.
FitsUnmeasured(a, cycle, required) ==
  /\ a.current # NoBlock
  /\ LET b == a.blocks[a.current] IN
       /\ b.epoch = a.epoch /\ b.timeline = a.timeline
       /\ cycle >= b.base_cycle /\ cycle - b.base_cycle <= MaxDelta
FitsAnyDelta(a, cycle, required) ==
  /\ a.current # NoBlock
  /\ LET b == a.blocks[a.current] IN
       /\ b.epoch = a.epoch /\ b.timeline = a.timeline
       /\ cycle >= b.base_cycle
       /\ required <= BlockSize - b.used

\* The current block can take a record of this size at this cycle.
Fits(a, cycle, required) ==
  /\ a.current # NoBlock
  /\ LET b == a.blocks[a.current] IN
       /\ b.epoch = a.epoch /\ b.timeline = a.timeline
       /\ cycle >= b.base_cycle /\ cycle - b.base_cycle <= MaxDelta
       /\ required <= BlockSize - b.used

EnsureSpace(a, cycle, required) ==
  IF Fits(a, cycle, required) THEN a ELSE AdvanceBlock(a, cycle)

\* The common tail of begin_record and append_marker: a header is written at
\* the end of the current block and gets the next id.
PutRecord(a, cycle, isMarker) ==
  LET b == a.blocks[a.current]
      r == [delta |-> (cycle - b.base_cycle) % (MaxDelta + 1), accesses |-> 0,
            truncated |-> FALSE, partial |-> ~isMarker, marker |-> isMarker]
  IN [a EXCEPT !.next_id = @ + 1,
               !.active = IF isMarker THEN NoBlock ELSE a.current,
               !.blocks[a.current] =
                 [b EXCEPT !.records = Append(@, r),
                           !.used = @ + HeaderSize,
                           !.partial_count = IF isMarker THEN @ ELSE @ + 1,
                           !.first_id = IF b.records = <<>> THEN a.next_id ELSE @,
                           !.last_id = a.next_id]]

\* Mutant of BeginRecord: room for the header only.
BeginReservesHeader(a, cycle) ==
  IF ~a.recording \/ a.active # NoBlock THEN a
  ELSE PutRecord(EnsureSpace(a, cycle, HeaderSize), cycle, FALSE)

\* The largest record is reserved, so that append_observed_access need not
\* test for room.
BeginRecord(a, cycle) ==
  IF ~a.recording \/ a.active # NoBlock THEN a
  ELSE PutRecord(EnsureSpace(a, cycle, MaxRecordSize), cycle, FALSE)

\* runtime_history_append_observed_access, for accesses that take a slot.
AppendAccess(a) ==
  IF a.active = NoBlock THEN a
  ELSE LET b == a.blocks[a.active]
           n == Len(b.records)
           full == b.records[n].accesses >= MaxAccesses
       IN [a EXCEPT !.blocks[a.active] =
             IF full THEN [b EXCEPT !.records[n].truncated = TRUE]
             ELSE [b EXCEPT !.records[n].accesses = @ + 1, !.used = @ + AccessSize]]

CompleteRecord(a) ==
  IF a.active = NoBlock THEN a
  ELSE LET b == a.blocks[a.active]
           n == Len(b.records)
           counted == b.records[n].partial /\ b.partial_count > 0
       IN [a EXCEPT !.active = NoBlock,
                    !.blocks[a.active] =
                      [b EXCEPT !.records[n].partial = FALSE,
                                !.partial_count = IF counted THEN @ - 1 ELSE @]]

SealPartial(a) == [a EXCEPT !.active = NoBlock]

AppendMarker(a, cycle) ==
  IF ~a.recording \/ a.active # NoBlock THEN a
  ELSE PutRecord(EnsureSpace(a, cycle, HeaderSize), cycle, TRUE)

StopRecording(a, cycle) ==
  IF ~a.recording THEN a
  ELSE [AppendMarker(SealPartial(a), cycle) EXCEPT !.recording = FALSE]

ResumeRecording(a, cycle) ==
  IF a.recording THEN a ELSE AppendMarker([a EXCEPT !.recording = TRUE], cycle)

\* Mutant of ClearEpoch: the retain floor survives.
ClearKeepsFloor(a, cycle, timeline) ==
  AppendMarker([a EXCEPT !.blocks = [b \in Blocks |-> EmptyBlock],
                         !.current = NoBlock, !.active = NoBlock,
                         !.epoch = @ + 1, !.next_id = 1, !.timeline = timeline], cycle)

\* history_clear_epoch; its first record is a marker if HST1 is recording.
ClearEpoch(a, cycle, timeline) ==
  AppendMarker([a EXCEPT !.blocks = [b \in Blocks |-> EmptyBlock],
                         !.current = NoBlock, !.active = NoBlock,
                         !.epoch = @ + 1, !.next_id = 1, !.retain_oldest_id = 0,
                         !.timeline = timeline], cycle)

TransitionTimeline(a) == [SealPartial(a) EXCEPT !.timeline = @ + 1]

ForceNewBlock(a, cycle) == AdvanceBlock(SealPartial(a), cycle)

-----------------------------------------------------------------------------
(* Queries.                                                                *)

\* history_find_record, which trusts the blocks' id ranges.
FindRecord(a, id) ==
  LET holds == {b \in Blocks : /\ a.blocks[b].occupied /\ a.blocks[b].epoch = a.epoch
                               /\ a.blocks[b].first_id <= id /\ id <= a.blocks[b].last_id}
  IN IF id = 0 \/ holds = {} THEN NoBlock
     ELSE LET b == Min(holds) IN
          IF id - a.blocks[b].first_id < Len(a.blocks[b].records) THEN b ELSE NoBlock

\* history_decode_at: id, timeline and cycle come from the block.
Decode(a, id) ==
  LET b == a.blocks[FindRecord(a, id)]
      r == b.records[id - b.first_id + 1]
  IN [cycle |-> b.base_cycle + r.delta, timeline |-> b.timeline, marker |-> r.marker,
      accesses |-> r.accesses, truncated |-> r.truncated, partial |-> r.partial]

Retained(a) == {id \in 1 .. a.next_id - 1 : FindRecord(a, id) # NoBlock}

Least(ids) == IF ids = {} THEN 0 ELSE Min(ids)
Greatest(ids) == IF ids = {} THEN 0 ELSE Max(ids)

\* runtime_history_get_status: blocks are folded in index order, and a block
\* without records (first_id = 0) makes the minimum start again behind it.
StatusOldest(a) ==
  LET here == {b \in Blocks : a.blocks[b].occupied /\ a.blocks[b].epoch = a.epoch}
      bare == {b \in here : a.blocks[b].first_id = 0}
      behind == {b \in here : \A e \in bare : e < b}
      oldest == Least({a.blocks[b].first_id : b \in behind})
      newest == Greatest({a.blocks[b].last_id : b \in here})
      floor == a.retain_oldest_id
  IN IF floor > oldest /\ (newest = 0 \/ floor <= newest) THEN floor ELSE oldest

\* history_retained_bounds.
RetainedBounds(a) ==
  LET filled == {b \in Blocks : /\ a.blocks[b].occupied /\ a.blocks[b].epoch = a.epoch
                                /\ a.blocks[b].records # <<>>}
  IN [oldest |-> Least({a.blocks[b].first_id : b \in filled}),
      newest |-> Greatest({a.blocks[b].last_id : b \in filled})]

\* Mutant of RetainFrom: the block that holds the record goes too.
RetainAfter(a, id) ==
  IF FindRecord(a, id) = NoBlock THEN a
  ELSE [a EXCEPT !.retain_oldest_id = id,
                 !.blocks = [b \in Blocks |->
                   IF @[b].occupied /\ @[b].epoch = a.epoch /\ @[b].last_id <= id
                   THEN EmptyBlock ELSE @[b]]]

RetainFrom(a, id) ==
  IF FindRecord(a, id) = NoBlock THEN a
  ELSE [a EXCEPT !.retain_oldest_id = id,
                 !.blocks = [b \in Blocks |->
                   IF @[b].occupied /\ @[b].epoch = a.epoch /\ @[b].last_id < id
                   THEN EmptyBlock ELSE @[b]]]

\* history_record_size, summed over the records of a block.
SizeOf(records) ==
  LET slots == {s \in (DOMAIN records) \X (1 .. MaxAccesses) : s[2] <= records[s[1]].accesses}
  IN Len(records) * HeaderSize + Cardinality(slots) * AccessSize

Page(status, ids, next) == [status |-> status, ids |-> ids, next |-> next]

\* The ids nearest to where a scan in this direction starts.
Take(direction, ids, limit) ==
  {id \in ids : LET before == {j \in ids : IF direction = "forward" THEN j < id ELSE j > id}
                IN Cardinality(before) < limit}

\* Where the next page starts: behind the last record of a full page.
NextId(direction, page, oldest, newest) ==
  IF direction = "forward"
  THEN IF Max(page) < newest THEN Max(page) + 1 ELSE 0
  ELSE IF Min(page) > oldest THEN Min(page) - 1 ELSE 0

\* Mutant of Neighbour: the ring is walked the same way in both directions.
NeighbourForward(direction, b, k) == (b + k) % BlockCount

\* The block k steps from b in the direction of the scan.
Neighbour(direction, b, k) ==
  (IF direction = "forward" THEN b + k ELSE b + BlockCount - k) % BlockCount

\* runtime_history_find with a timeline filter: the k-th block visited must
\* continue exactly where the one before it ended, or the query fails.
Find(a, direction, from, timeline, limit) ==
  LET bounds == RetainedBounds(a)
      start == FindRecord(a, from)
      forward == direction = "forward"
      block(k) == a.blocks[Neighbour(direction, start, k)]
      scan(k) == IF k = 0 THEN from
                 ELSE IF forward THEN block(k - 1).last_id + 1 ELSE block(k - 1).first_id - 1
      sound(k) == /\ block(k).occupied /\ block(k).epoch = a.epoch
                  /\ block(k).records # <<>>
                  /\ block(k).first_id <= scan(k) /\ scan(k) <= block(k).last_id
                  /\ SizeOf(block(k).records) = block(k).used
      ends(k) == IF forward THEN block(k).last_id >= bounds.newest
                            ELSE block(k).first_id <= bounds.oldest
      ids(k) == IF forward THEN scan(k) .. block(k).last_id ELSE block(k).first_id .. scan(k)
      stops == {k \in 0 .. BlockCount - 1 : ~sound(k) \/ ends(k)}
      stop == IF stops = {} THEN BlockCount ELSE Min(stops)
      failed == stop = BlockCount \/ ~sound(stop)
      visited == 0 .. IF failed THEN stop - 1 ELSE stop
      hits == UNION {ids(k) : k \in {j \in visited : timeline \in {AnyTimeline, block(j).timeline}}}
      page == Take(direction, hits, limit)
  IN IF start = NoBlock \/ from < bounds.oldest \/ from > bounds.newest
     THEN Page("not-retained", {}, 0)
     ELSE IF Cardinality(hits) >= limit
     THEN Page("ok", page, NextId(direction, page, bounds.oldest, bounds.newest))
     ELSE IF failed THEN Page("failed", {}, 0) ELSE Page("ok", hits, 0)

-----------------------------------------------------------------------------
(* What the worker does with it.                                           *)

\* The log once the arena is a: records that are new were put at this cycle.
Logged(told, a, cycle, isMarker) ==
  [id \in Retained(a) |->
     IF id \in DOMAIN told THEN told[id]
     ELSE [cycle |-> cycle, timeline |-> a.timeline, marker |-> isMarker,
           accesses |-> 0, complete |-> isMarker]]

\* runtime_history_flush_pending_trap, runtime_history_prepare_discontinuity.
FlushTrap(a, cycle) == IF pending_trap THEN AppendMarker(a, cycle) ELSE a
PrepareDiscontinuity(a, cycle) == FlushTrap(SealPartial(a), cycle)

\* The bound on ids leaves room for the n records a step may append.
MayRecord(n) == h.next_id + n <= MaxRecords + 1

\* Time passes between two calls.
Now == clock .. MaxClock

Newest == h.next_id - 1

\* runtime_history_observer_begin; the observer is installed while recording.
ObserverBegin ==
  /\ h.recording /\ h.active = NoBlock /\ MayRecord(1)
  /\ clock' \in Now
  /\ h' = BeginRecord(h, clock')
  /\ log' = Logged(log, h', clock', FALSE)
  /\ UNCHANGED pending_trap

\* runtime_history_observer_access.
ObserverAccess ==
  /\ h.active # NoBlock
  /\ log[Newest].accesses <= MaxAccesses          \* one too many is enough
  /\ h' = AppendAccess(h)
  /\ log' = [log EXCEPT ![Newest].accesses = @ + 1]
  /\ UNCHANGED <<clock, pending_trap>>

\* runtime_history_observer_complete.  A media write inside the instruction may
\* have sealed its record; a trap is flushed all the same.
ObserverComplete ==
  /\ h.active # NoBlock \/ (h.recording /\ pending_trap)
  /\ MayRecord(1)
  /\ clock' \in Now
  /\ h' = FlushTrap(CompleteRecord(h), clock')
  /\ LET told == IF h.active = NoBlock THEN log ELSE [log EXCEPT ![Newest].complete = TRUE]
     IN log' = Logged(told, h', clock', TRUE)
  /\ pending_trap' = FALSE

\* runtime_history_observer_host_trap: a second trap before the flush is lost.
HostTrap ==
  /\ h.recording /\ ~pending_trap /\ MayRecord(1)
  /\ clock' \in Now
  /\ IF h.active = NoBlock THEN h' = AppendMarker(h, clock') ELSE UNCHANGED h
  /\ pending_trap' = (h.active # NoBlock)
  /\ log' = Logged(log, h', clock', TRUE)

\* runtime_history_append_commit_marker: program inject, direct write...
CommitMarker ==
  /\ MayRecord(2)
  /\ clock' \in Now
  /\ h' = AppendMarker(PrepareDiscontinuity(h, clock'), clock')
  /\ log' = Logged(log, h', clock', TRUE)
  /\ pending_trap' = FALSE

\* runtime_reset_machine: the clock starts again on a new timeline.
ResetMachine ==
  /\ MayRecord(2) /\ h.timeline < MaxTimeline
  /\ clock' = 0
  /\ LET sealed == PrepareDiscontinuity(h, clock) IN
       /\ h' = AppendMarker(TransitionTimeline(sealed), 0)
       /\ log' = Logged(Logged(log, sealed, clock, TRUE), h', 0, TRUE)
  /\ pending_trap' = FALSE

\* RUNTIME_COMMAND_HISTORY_RECORD, and runtime_history_apply_max_policy.  While
\* the machine runs free and history_off_on_max is set, recording stays off.
HistoryRecord(enabled, offOnMax) ==
  /\ MayRecord(2)
  /\ clock' \in Now
  /\ LET resumed == IF enabled THEN ResumeRecording(h, clock') ELSE h
     IN h' = IF enabled /\ ~offOnMax THEN resumed ELSE StopRecording(resumed, clock')
  /\ log' = Logged(log, h', clock', TRUE)
  /\ UNCHANGED pending_trap

\* A new epoch: the command, or a loaded state with its own clock.
NewEpoch(a, timeline) ==
  /\ h.epoch < MaxEpoch
  /\ h' = ClearEpoch(a, clock', timeline)
  /\ log' = Logged(<<>>, h', clock', TRUE)
  /\ pending_trap' = FALSE
HistoryClear == MayRecord(1) /\ clock' \in Now /\ NewEpoch(PrepareDiscontinuity(h, clock'), 0)
LoadState == clock' \in 0 .. MaxClock /\ NewEpoch(h, 1)

\* runtime_inspector_on_media_event: a guest write to a disk starts a new
\* Inspector window, and HST1 is cut at its marker - if there is a marker.
MediaEvent ==
  /\ MayRecord(1) /\ (h.recording \/ MediaWhileStopped)
  /\ clock' \in Now
  /\ LET cut == AppendMarker(ForceNewBlock(h, clock'), clock')
     IN h' = IF h.recording THEN RetainFrom(cut, cut.next_id - 1) ELSE cut
  /\ log' = Logged(log, h', clock', TRUE)
  /\ UNCHANGED pending_trap

Next ==
  \/ ObserverBegin \/ ObserverAccess \/ ObserverComplete \/ HostTrap
  \/ CommitMarker \/ ResetMachine \/ HistoryClear \/ LoadState \/ MediaEvent
  \/ \E enabled, offOnMax \in BOOLEAN : HistoryRecord(enabled, offOnMax)

Spec == Init /\ [][Next]_vars

-----------------------------------------------------------------------------
(* Properties.                                                             *)

\* What can be looked up is the latest stretch of the epoch without a gap:
\* ids are neither lost in the middle nor kept beyond an evicted one, and the
\* newest record of an arena nobody cut is always there.
RetainedIsSuffix ==
  /\ Retained(h) = {} \/ Retained(h) = Min(Retained(h)) .. h.next_id - 1
  /\ (h.recording /\ h.next_id > 1) => h.next_id - 1 \in Retained(h)

\* The O(blocks) telemetry: partial_count is the number of partial records.
PartialCounted ==
  \A b \in Blocks : h.blocks[b].partial_count =
    Cardinality({i \in DOMAIN h.blocks[b].records : h.blocks[b].records[i].partial})

\* An id finds the record that was given that id, with the cycle, timeline and
\* accesses it was recorded with, although all of these are reconstructed; and
\* the blocks' counts of partial records, which status sums, are right.
LookupFaithful ==
  /\ \A id \in Retained(h) :
       LET r == Decode(h, id) IN
         /\ r.cycle = log[id].cycle /\ r.timeline = log[id].timeline
         /\ r.marker = log[id].marker /\ r.partial = ~log[id].complete
         /\ r.accesses = Min({MaxAccesses, log[id].accesses})
         /\ r.truncated = (log[id].accesses > MaxAccesses)
  /\ PartialCounted

\* append_observed_access writes without a bounds check: the block of the
\* active record has room for all the accesses it may still take, and the
\* record is the last of that block.
SpaceReserved ==
  h.active # NoBlock =>
    LET b == h.blocks[h.active] IN
      /\ h.active = h.current /\ b.last_id = h.next_id - 1
      /\ b.used + (MaxAccesses - b.records[Len(b.records)].accesses) * AccessSize <= BlockSize

\* The oldest id that status reports, and runtime_history_first returns, is
\* the oldest record there is.
FirstIsOldest == StatusOldest(h) = Least(Retained(h))

\* FIND returns the first records of the scan that match, in either direction
\* and from any retained record, and tells where the next page starts.
FindCorrect ==
  LET retained == Retained(h)
      right(direction, from, timeline, limit) ==
        LET ahead == {id \in retained :
                        /\ IF direction = "forward" THEN id >= from ELSE id <= from
                        /\ timeline = AnyTimeline \/ log[id].timeline = timeline}
            page == Take(direction, ahead, limit)
        IN Page("ok", page, IF Cardinality(ahead) < limit THEN 0
                            ELSE NextId(direction, page, Min(retained), h.next_id - 1))
  IN \A from \in retained, direction \in {"forward", "backward"},
        timeline \in {AnyTimeline, h.timeline}, limit \in 1 .. 2 :
       Find(h, direction, from, timeline, limit) = right(direction, from, timeline, limit)

\* A stopped recorder keeps what it has recorded until it is resumed or its
\* records are cleared.
StoppedKeepsRecords ==
  [][(~h.recording /\ h'.epoch = h.epoch) => Retained(h) \subseteq Retained(h')]_vars
=============================================================================
