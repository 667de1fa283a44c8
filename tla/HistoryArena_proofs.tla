------------------------- MODULE HistoryArena_proofs -------------------------
(***************************************************************************)
(* The history arena for every number and size of blocks, every record     *)
(* size and every order of calls: what is retained is a gap-free suffix of *)
(* the epoch, it decodes to what was recorded, an access always finds the  *)
(* room that its record reserved, and, unless a block was forced while     *)
(* nothing recorded, status reports the oldest record there is and FIND    *)
(* returns the records it should, whichever way it walks the ring.         *)
(***************************************************************************)
EXTENDS HistoryArena, FiniteSetTheorems, SequenceTheorems, TLAPS

-----------------------------------------------------------------------------
(* The invariant of an arena.                                              *)

\* Types; the bounds on ids follow from WellFormed and the bound on next_id.
BlockKind == [occupied : BOOLEAN, epoch : 0 .. MaxEpoch, timeline : 0 .. MaxTimeline,
              base_cycle : 0 .. MaxClock, first_id : Nat, last_id : Nat,
              used : 0 .. BlockSize, partial_count : Nat, records : Seq(RecordType)]
Arenas == [blocks : [Blocks -> BlockKind], current : Blocks \cup {NoBlock},
           active : Blocks \cup {NoBlock}, epoch : 1 .. MaxEpoch, next_id : Nat \ {0},
           timeline : 0 .. MaxTimeline, recording : BOOLEAN, retain_oldest_id : Nat]

Full(a, b) == a.blocks[b].records # <<>>
Holds(a, b, id) == Full(a, b) /\ a.blocks[b].first_id <= id /\ id <= a.blocks[b].last_id
Held(a, id) == \E b \in Blocks : Holds(a, b, id)
Partials(records) == {i \in DOMAIN records : records[i].partial}

\* A block's ids are those of its records, and all of this epoch.
WellFormed(a) ==
  /\ a.retain_oldest_id < a.next_id
  /\ a.current = NoBlock => \A b \in Blocks : ~Full(a, b)
  /\ \A b \in Blocks :
       LET k == a.blocks[b] IN
         /\ ~Full(a, b) => k.first_id = 0 /\ k.last_id = 0
         /\ Full(a, b) => /\ k.occupied /\ k.epoch = a.epoch /\ k.first_id >= 1
                          /\ k.last_id = k.first_id + Len(k.records) - 1
                          /\ k.last_id < a.next_id
         /\ k.epoch = a.epoch => k.occupied
         /\ k.partial_count = Cardinality(Partials(k.records))

\* How many blocks ago block b was entered.
Age(a, b) == IF b <= a.current THEN a.current - b ELSE a.current - b + BlockCount

\* Older blocks hold smaller ids.
Ordered(a) ==
  \A b, c \in Blocks :
    (Full(a, b) /\ Full(a, c) /\ Age(a, b) < Age(a, c))
      => a.blocks[c].last_id < a.blocks[b].first_id

\* From some id on everything is held, and nothing below it.
CoveredFrom(a, lo) ==
  /\ \A id \in Nat : lo <= id /\ id < a.next_id => Held(a, id)
  /\ \A b \in Blocks : Full(a, b) => lo <= a.blocks[b].first_id
Covered(a) == \E lo \in Nat \ {0} : CoveredFrom(a, lo)

\* The active record is the last of the current block and has its room.
Reserved(a) ==
  a.active # NoBlock =>
    LET k == a.blocks[a.active]
        r == k.records[Len(k.records)]
    IN /\ a.active = a.current /\ Full(a, a.active)
       /\ k.last_id = a.next_id - 1
       /\ k.used + (MaxAccesses - r.accesses) * AccessSize <= BlockSize
       /\ r.partial = TRUE

\* Every record decodes to what the log says of its id.
Entry(cycle, timeline, isMarker) ==
  [cycle |-> cycle, timeline |-> timeline, marker |-> isMarker, accesses |-> 0,
   complete |-> isMarker]
Entries == [cycle : 0 .. MaxClock, timeline : 0 .. MaxTimeline, marker : BOOLEAN,
            accesses : 0 .. MaxAccesses + 1, complete : BOOLEAN]
Tells(k, r, l) ==
  /\ l \in Entries
  /\ l.cycle = k.base_cycle + r.delta /\ l.timeline = k.timeline
  /\ r.marker = l.marker /\ r.partial = ~l.complete
  /\ r.accesses = (IF l.accesses <= MaxAccesses THEN l.accesses ELSE MaxAccesses)
  /\ r.truncated = (l.accesses > MaxAccesses)
Faithful(a, told) ==
  \A b \in Blocks : \A i \in DOMAIN a.blocks[b].records :
    LET id == a.blocks[b].first_id + i - 1 IN
      id \in DOMAIN told /\ Tells(a.blocks[b], a.blocks[b].records[i], told[id])

Sound(a) == a \in Arenas /\ WellFormed(a) /\ Ordered(a) /\ Covered(a) /\ Reserved(a)

-----------------------------------------------------------------------------
(* Blocks and ages.                                                        *)

Following(a) == IF a.current = NoBlock THEN 0 ELSE (a.current + 1) % BlockCount

\* The parts of a block that the arithmetic of ids uses.
LEMMA BlockFacts ==
  ASSUME NEW k \in BlockKind
  PROVE  /\ k.records \in Seq(RecordType) /\ Len(k.records) \in Nat
         /\ DOMAIN k.records = 1 .. Len(k.records)
         /\ k.first_id \in Nat /\ k.last_id \in Nat
         /\ k.records # <<>> => Len(k.records) >= 1
<1>1. k.records \in Seq(RecordType) /\ k.first_id \in Nat /\ k.last_id \in Nat
  BY DEF BlockKind
<1>2. \A s \in Seq(RecordType) : /\ Len(s) \in Nat /\ DOMAIN s = 1 .. Len(s)
                                 /\ s # <<>> => Len(s) >= 1
  OBVIOUS
<1>. QED BY <1>1, <1>2

LEMMA Span ==
  \A f, l, n \in Int : l = f + n - 1 => /\ n >= 1 => f <= l
                                       /\ \A x \in Int : f <= x /\ x <= l => x - f < n
  OBVIOUS

LEMMA ZeroBlock == 0 \in Blocks
BY SizeAssumption DEF Blocks

LEMMA FollowingIs ==
  ASSUME NEW a \in Arenas
  PROVE  /\ Following(a) \in Blocks
         /\ a.current # NoBlock =>
              Following(a) = IF a.current + 1 < BlockCount THEN a.current + 1 ELSE 0
<1>1. CASE a.current = NoBlock
  BY <1>1, ZeroBlock DEF Following
<1>2. CASE a.current # NoBlock
  <2>1. a.current \in Blocks
    BY <1>2 DEF Arenas
  <2>2. (a.current + 1) % BlockCount = IF a.current + 1 < BlockCount THEN a.current + 1 ELSE 0
    <3>1. CASE a.current + 1 < BlockCount
      BY <2>1, <3>1, SizeAssumption DEF Blocks
    <3>2. CASE a.current + 1 = BlockCount
      BY <2>1, <3>2, SizeAssumption DEF Blocks
    <3>. QED BY <2>1, <3>1, <3>2, SizeAssumption DEF Blocks
  <2>. QED BY <1>2, <2>1, <2>2, SizeAssumption DEF Following, Blocks
<1>. QED BY <1>1, <1>2

\* Entering the next block makes every other one a block older, and the one
\* entered was the oldest.
LEMMA Ageing ==
  ASSUME NEW a \in Arenas, NEW n \in Arenas, a.current # NoBlock, n.current = Following(a),
         NEW b \in Blocks
  PROVE  /\ Age(a, b) \in 0 .. BlockCount - 1 /\ Age(n, b) \in 0 .. BlockCount - 1
         /\ b # Following(a) => Age(n, b) = Age(a, b) + 1
         /\ Age(a, Following(a)) = BlockCount - 1
<1>1. a.current \in Blocks /\ n.current \in Blocks
  BY FollowingIs DEF Arenas
<1>2. n.current = IF a.current + 1 < BlockCount THEN a.current + 1 ELSE 0
  BY FollowingIs
<1>3. b \in 0 .. BlockCount - 1 /\ a.current \in 0 .. BlockCount - 1
      /\ n.current \in 0 .. BlockCount - 1 /\ BlockCount \in Nat
  BY <1>1, SizeAssumption DEF Blocks
<1>. QED BY <1>2, <1>3 DEF Age

LEMMA AgeZero ==
  ASSUME NEW a \in Arenas, a.current # NoBlock, NEW b \in Blocks
  PROVE  Age(a, a.current) = 0 /\ Age(a, b) >= 0 /\ (Age(a, b) = 0 => b = a.current)
<1>1. b \in 0 .. BlockCount - 1 /\ a.current \in 0 .. BlockCount - 1 /\ BlockCount \in Nat
  BY SizeAssumption DEF Blocks, Arenas
<1>. QED BY <1>1 DEF Age

\* Two blocks never hold the same id.
LEMMA Apart ==
  ASSUME NEW a, Sound(a), NEW b \in Blocks, NEW c \in Blocks, NEW id \in Nat,
         Holds(a, b, id), Holds(a, c, id)
  PROVE  b = c
<1>1. a \in Arenas /\ Ordered(a) /\ a.current # NoBlock
  BY DEF Sound, WellFormed, Holds
<1>2. a.blocks[b] \in BlockKind /\ a.blocks[c] \in BlockKind
  BY <1>1 DEF Arenas
<1>3. ~(Age(a, b) < Age(a, c)) /\ ~(Age(a, c) < Age(a, b))
  <2>1. /\ a.blocks[b].first_id \in Nat /\ a.blocks[b].last_id \in Nat
        /\ a.blocks[c].first_id \in Nat /\ a.blocks[c].last_id \in Nat
    BY <1>2 DEF BlockKind
  <2>2. ~(a.blocks[c].last_id < a.blocks[b].first_id) /\ ~(a.blocks[b].last_id < a.blocks[c].first_id)
    BY <2>1 DEF Holds
  <2>3. Full(a, b) /\ Full(a, c)
    BY DEF Holds
  <2>. QED BY <1>1, <2>2, <2>3 DEF Ordered
<1>4. b \in 0 .. BlockCount - 1 /\ c \in 0 .. BlockCount - 1 /\ a.current \in 0 .. BlockCount - 1
      /\ BlockCount \in Nat
  BY <1>1, SizeAssumption DEF Blocks, Arenas
<1>. QED BY <1>3, <1>4 DEF Age

-----------------------------------------------------------------------------
(* Looking up.                                                             *)

LEMMA MinPair == \A x, y \in Int : Min({x, y}) = IF y <= x THEN y ELSE x
<1>. TAKE x \in Int, y \in Int
<1>. DEFINE m == IF y <= x THEN y ELSE x
            P(v) == v \in {x, y} /\ \A w \in {x, y} : v <= w
<1>1. P(m) /\ \A v : P(v) => v = m
  OBVIOUS
<1>2. Min({x, y}) = CHOOSE v \in {x, y} : \A w \in {x, y} : v <= w
  BY DEF Min
<1>. QED BY <1>1, <1>2

LEMMA MinInterval == \A x, y \in Int : x <= y => Min(x .. y) = x
<1>. TAKE x \in Int, y \in Int
<1>. HAVE x <= y
<1>1. x \in x .. y /\ \A w \in x .. y : x <= w
  OBVIOUS
<1>2. \A v \in x .. y : (\A w \in x .. y : v <= w) => v = x
  OBVIOUS
<1>. QED BY <1>1, <1>2 DEF Min

LEMMA MinOne == \A b \in Int : Min({b}) = b
BY DEF Min

\* history_find_record finds the block that holds an id.
LEMMA FindIs ==
  ASSUME NEW a, Sound(a), NEW id \in Nat \ {0}
  PROVE  /\ FindRecord(a, id) # NoBlock <=> Held(a, id)
         /\ \A b \in Blocks : Holds(a, b, id) => FindRecord(a, id) = b
<1>. DEFINE holds == {b \in Blocks : /\ a.blocks[b].occupied /\ a.blocks[b].epoch = a.epoch
                                     /\ a.blocks[b].first_id <= id /\ id <= a.blocks[b].last_id}
<1>1. a \in Arenas /\ WellFormed(a)
  BY DEF Sound
<1>2. \A b \in Blocks : b \in holds <=> Holds(a, b, id)
  <2>. SUFFICES ASSUME NEW b \in Blocks PROVE b \in holds <=> Holds(a, b, id)
    OBVIOUS
  <2>1. a.blocks[b] \in BlockKind
    BY <1>1 DEF Arenas
  <2>. QED BY <1>1, <2>1 DEF WellFormed, Holds, BlockKind
<1>3. ASSUME NEW b \in Blocks, Holds(a, b, id)
      PROVE  FindRecord(a, id) = b
  <2>1. holds = {b}
    BY <1>2, <1>3, Apart
  <2>2. b \in Int /\ Min(holds) = b
    BY <2>1, MinOne, SizeAssumption DEF Blocks
  <2>3. id - a.blocks[b].first_id < Len(a.blocks[b].records)
    <3>1. a.blocks[b] \in BlockKind
      BY <1>1 DEF Arenas
    <3>2. a.blocks[b].last_id = a.blocks[b].first_id + Len(a.blocks[b].records) - 1
      BY <1>1, <1>3 DEF WellFormed, Holds
    <3>3. a.blocks[b].first_id <= id /\ id <= a.blocks[b].last_id
      BY <1>3 DEF Holds
    <3>4. /\ Len(a.blocks[b].records) \in Int /\ a.blocks[b].first_id \in Int
          /\ a.blocks[b].last_id \in Int
      BY <3>1, BlockFacts
    <3>. QED BY <3>2, <3>3, <3>4, Span
  <2>. QED BY <2>1, <2>2, <2>3 DEF FindRecord
<1>4. ASSUME ~Held(a, id)
      PROVE  FindRecord(a, id) = NoBlock
  <2>1. holds = {}
    BY <1>2, <1>4 DEF Held
  <2>. QED BY <2>1 DEF FindRecord
<1>5. NoBlock \notin Blocks
  BY SizeAssumption DEF NoBlock, Blocks
<1>. QED BY <1>3, <1>4, <1>5 DEF Held

LEMMA RetainedIs ==
  ASSUME NEW a, Sound(a)
  PROVE  Retained(a) = {id \in 1 .. a.next_id - 1 : Held(a, id)}
<1>1. a.next_id \in Nat
  BY DEF Sound, Arenas
<1>2. \A id \in 1 .. a.next_id - 1 : id \in Nat \ {0}
  BY <1>1
<1>. QED BY <1>2, FindIs DEF Retained

-----------------------------------------------------------------------------
(* The operations.                                                         *)

Fresh(a, cycle) == [EmptyBlock EXCEPT !.occupied = TRUE, !.epoch = a.epoch,
                                      !.timeline = a.timeline, !.base_cycle = cycle]

LEMMA NoPartials == Cardinality(Partials(<<>>)) = 0
<1>1. Partials(<<>>) = {}
  BY DEF Partials
<1>. QED BY <1>1, FS_EmptySet

LEMMA EmptyKind == EmptyBlock \in BlockKind /\ EmptyBlock.records = <<>>
                   /\ EmptyBlock.first_id = 0 /\ EmptyBlock.last_id = 0
                   /\ EmptyBlock.partial_count = 0 /\ EmptyBlock.used = 0
BY SizeAssumption, BoundsAssumption DEF EmptyBlock, BlockKind

LEMMA FreshKind ==
  ASSUME NEW a \in Arenas, NEW cycle \in 0 .. MaxClock
  PROVE  /\ Fresh(a, cycle) \in BlockKind /\ Fresh(a, cycle).records = <<>>
         /\ Fresh(a, cycle).first_id = 0 /\ Fresh(a, cycle).last_id = 0
         /\ Fresh(a, cycle).partial_count = 0 /\ Fresh(a, cycle).used = 0
         /\ Fresh(a, cycle).epoch = a.epoch /\ Fresh(a, cycle).timeline = a.timeline
         /\ Fresh(a, cycle).base_cycle = cycle
<1>1. a.epoch \in 0 .. MaxEpoch /\ a.timeline \in 0 .. MaxTimeline
  BY BoundsAssumption DEF Arenas
<1>. DEFINE e == EmptyBlock
<1>2. /\ e \in BlockKind /\ e.records = <<>> /\ e.first_id = 0 /\ e.last_id = 0
      /\ e.partial_count = 0 /\ e.used = 0
  BY EmptyKind
<1>3. Fresh(a, cycle) = [e EXCEPT !.occupied = TRUE, !.epoch = a.epoch,
                                  !.timeline = a.timeline, !.base_cycle = cycle]
  BY DEF Fresh
<1>. HIDE DEF e
<1>. QED BY <1>1, <1>2, <1>3 DEF BlockKind

LEMMA AdvanceIs ==
  ASSUME NEW a \in Arenas, NEW cycle \in 0 .. MaxClock
  PROVE  /\ AdvanceBlock(a, cycle) \in Arenas
         /\ AdvanceBlock(a, cycle) =
              [a EXCEPT !.current = Following(a),
                        !.blocks = [a.blocks EXCEPT ![Following(a)] = Fresh(a, cycle)]]
<1>. DEFINE f == Following(a)
            k == Fresh(a, cycle)
            bs == [a.blocks EXCEPT ![f] = k]
<1>1. f \in Blocks /\ k \in BlockKind
  BY FollowingIs, FreshKind
<1>2. AdvanceBlock(a, cycle) = [a EXCEPT !.current = f, !.blocks = bs]
  BY DEF AdvanceBlock, Following, Fresh, Arenas
<1>. HIDE DEF f, k
<1>3. bs \in [Blocks -> BlockKind]
  BY <1>1 DEF Arenas
<1>. HIDE DEF bs
<1>4. [a EXCEPT !.current = f, !.blocks = bs] \in Arenas
  BY <1>1, <1>3 DEF Arenas
<1>. QED BY <1>2, <1>4 DEF f, k, bs

LEMMA AdvanceSound ==
  ASSUME NEW a, Sound(a), a.active = NoBlock, NEW cycle \in 0 .. MaxClock
  PROVE  Sound(AdvanceBlock(a, cycle))
<1>. DEFINE n == AdvanceBlock(a, cycle)
            f == Following(a)
            k == Fresh(a, cycle)
<1>1. a \in Arenas /\ WellFormed(a) /\ Ordered(a) /\ Covered(a)
  BY DEF Sound
<1>2. f \in Blocks /\ k \in BlockKind /\ n \in Arenas
  BY <1>1, FollowingIs, FreshKind, AdvanceIs
<1>3. /\ n.current = f /\ n.active = NoBlock /\ n.epoch = a.epoch /\ n.next_id = a.next_id
      /\ n.retain_oldest_id = a.retain_oldest_id
      /\ n.blocks = [a.blocks EXCEPT ![f] = k]
  <2>. DEFINE bs == [a.blocks EXCEPT ![f] = k]
  <2>1. n = [a EXCEPT !.current = f, !.blocks = bs]
    BY <1>1, AdvanceIs
  <2>. HIDE DEF bs, n
  <2>2. n.blocks = bs /\ n.current = f /\ n.active = a.active /\ n.epoch = a.epoch
        /\ n.next_id = a.next_id /\ n.retain_oldest_id = a.retain_oldest_id
    BY <1>1, <2>1 DEF Arenas
  <2>. QED BY <2>2 DEF bs
<1>. HIDE DEF n, f, k
<1>4. n.blocks[f] = k /\ \A b \in Blocks : b # f => n.blocks[b] = a.blocks[b]
  BY <1>1, <1>2, <1>3 DEF Arenas
<1>5. ~Full(n, f) /\ k.first_id = 0 /\ k.last_id = 0 /\ k.partial_count = 0 /\ k.records = <<>>
  BY <1>1, <1>4, FreshKind DEF Full, k
<1>11. k.occupied = TRUE
  BY DEF k, Fresh, EmptyBlock
<1>6. \A b \in Blocks : Full(n, b) => b # f /\ Full(a, b) /\ n.blocks[b] = a.blocks[b]
  BY <1>4, <1>5 DEF Full
<1>7. WellFormed(n)
  <2>1. n.current # NoBlock
    BY <1>2, <1>3, SizeAssumption DEF Blocks, NoBlock
  <2>2. ASSUME NEW b \in Blocks
        PROVE  LET q == n.blocks[b] IN
                 /\ ~Full(n, b) => q.first_id = 0 /\ q.last_id = 0
                 /\ Full(n, b) => /\ q.occupied /\ q.epoch = n.epoch /\ q.first_id >= 1
                                  /\ q.last_id = q.first_id + Len(q.records) - 1
                                  /\ q.last_id < n.next_id
                 /\ q.epoch = n.epoch => q.occupied
                 /\ q.partial_count = Cardinality(Partials(q.records))
    <3>1. CASE b = f
      BY <1>4, <1>5, <1>11, <3>1, NoPartials
    <3>2. CASE b # f
      <4>1. n.blocks[b] = a.blocks[b] /\ (Full(n, b) <=> Full(a, b))
        BY <1>4, <3>2 DEF Full
      <4>. QED BY <1>1, <1>3, <4>1 DEF WellFormed
    <3>. QED BY <3>1, <3>2
  <2>. QED BY <1>1, <1>3, <2>1, <2>2 DEF WellFormed
<1>8. Ordered(n)
  <2>. SUFFICES ASSUME NEW b \in Blocks, NEW c \in Blocks, Full(n, b), Full(n, c),
                       Age(n, b) < Age(n, c)
                PROVE  n.blocks[c].last_id < n.blocks[b].first_id
    BY DEF Ordered
  <2>1. Full(a, b) /\ Full(a, c) /\ b # f /\ c # f
    BY <1>6
  <2>2. a.current # NoBlock
    BY <1>1, <2>1 DEF WellFormed
  <2>3. Age(a, b) < Age(a, c)
    BY <1>1, <1>2, <1>3, <2>1, <2>2, Ageing DEF f
  <2>. QED BY <1>1, <1>6, <2>1, <2>3 DEF Ordered
<1>9. Covered(n)
  <2>1. PICK lo \in Nat \ {0} : CoveredFrom(a, lo)
    BY <1>1 DEF Covered
  <2>2. CASE ~Full(a, f)
    <3>1. \A id : Held(a, id) => Held(n, id)
      BY <1>4, <2>2 DEF Held, Holds, Full
    <3>2. CoveredFrom(n, lo)
      BY <1>3, <1>6, <2>1, <3>1 DEF CoveredFrom
    <3>. QED BY <3>2 DEF Covered
  <2>3. CASE Full(a, f)
    <3>. DEFINE hi == a.blocks[f].last_id + 1
    <3>1. a.blocks[f] \in BlockKind /\ a.current # NoBlock
      BY <1>1, <1>2, <2>3 DEF Arenas, WellFormed
    <3>2. hi \in Nat \ {0} /\ hi >= lo
      <4>1. lo <= a.blocks[f].first_id /\ a.blocks[f].first_id <= a.blocks[f].last_id
        <5>1. Len(a.blocks[f].records) >= 1
          BY <2>3, <3>1, BlockFacts DEF Full
        <5>2. lo <= a.blocks[f].first_id
          BY <1>2, <2>1, <2>3 DEF CoveredFrom
        <5>3. a.blocks[f].last_id = a.blocks[f].first_id + Len(a.blocks[f].records) - 1
          BY <1>1, <1>2, <2>3 DEF WellFormed
        <5>4. /\ Len(a.blocks[f].records) \in Int /\ a.blocks[f].first_id \in Int
              /\ a.blocks[f].last_id \in Int
          BY <3>1, BlockFacts
        <5>. QED BY <5>1, <5>2, <5>3, <5>4, Span
      <4>2. a.blocks[f].last_id \in Nat /\ a.blocks[f].first_id \in Nat
        BY <3>1 DEF BlockKind
      <4>. QED BY <4>1, <4>2
    <3>3. ASSUME NEW id \in Nat, hi <= id, id < n.next_id
          PROVE  Held(n, id)
      <4>1. lo <= id /\ id < a.next_id
        BY <1>3, <3>2, <3>3
      <4>2. PICK b \in Blocks : Holds(a, b, id)
        BY <2>1, <4>1 DEF CoveredFrom, Held
      <4>3. b # f
        BY <3>1, <3>3, <4>2 DEF Holds, BlockKind
      <4>. QED BY <1>4, <4>2, <4>3 DEF Held, Holds, Full
    <3>4. ASSUME NEW b \in Blocks, Full(n, b)
          PROVE  hi <= n.blocks[b].first_id
      <4>1. Full(a, b) /\ b # f /\ n.blocks[b] = a.blocks[b]
        BY <1>6, <3>4
      <4>2. Age(a, b) < Age(a, f)
        <5>1. /\ Age(a, b) \in 0 .. BlockCount - 1 /\ Age(n, b) \in 0 .. BlockCount - 1
              /\ Age(n, b) = Age(a, b) + 1 /\ Age(a, f) = BlockCount - 1
          BY <1>1, <1>2, <1>3, <3>1, <4>1, Ageing DEF f
        <5>. QED BY <5>1, SizeAssumption
      <4>3. a.blocks[f].last_id < a.blocks[b].first_id
        BY <1>1, <1>2, <2>3, <4>1, <4>2 DEF Ordered
      <4>4. a.blocks[b] \in BlockKind
        BY <1>1 DEF Arenas
      <4>5. a.blocks[f].last_id \in Nat /\ a.blocks[b].first_id \in Nat
        BY <3>1, <4>4 DEF BlockKind
      <4>. QED BY <4>1, <4>3, <4>5
    <3>5. CoveredFrom(n, hi)
      BY <3>3, <3>4 DEF CoveredFrom
    <3>. QED BY <3>2, <3>5 DEF Covered
  <2>. QED BY <2>2, <2>3
<1>10. Reserved(n)
  BY <1>3 DEF Reserved
<1>. QED BY <1>2, <1>7, <1>8, <1>9, <1>10 DEF Sound, n

LEMMA PartialsFinite ==
  ASSUME NEW q \in Seq(RecordType)
  PROVE  /\ IsFiniteSet(Partials(q)) /\ Cardinality(Partials(q)) \in Nat
         /\ Cardinality(Partials(q)) <= Len(q)
<1>1. Len(q) \in Nat /\ DOMAIN q = 1 .. Len(q)
  OBVIOUS
<1>2. IsFiniteSet(1 .. Len(q)) /\ Cardinality(1 .. Len(q)) = Len(q)
  <2>1. /\ IsFiniteSet(1 .. Len(q))
        /\ Cardinality(1 .. Len(q)) = IF 1 > Len(q) THEN 0 ELSE Len(q) - 1 + 1
    BY <1>1, FS_Interval
  <2>. QED BY <1>1, <2>1
<1>3. Partials(q) \subseteq 1 .. Len(q)
  BY <1>1 DEF Partials
<1>. QED BY <1>2, <1>3, FS_Subset, FS_CardinalityType

LEMMA PartialsAppend ==
  ASSUME NEW q \in Seq(RecordType), NEW r \in RecordType
  PROVE  Cardinality(Partials(Append(q, r))) =
           IF r.partial THEN Cardinality(Partials(q)) + 1 ELSE Cardinality(Partials(q))
<1>. DEFINE z == Append(q, r)
<1>1. /\ z \in Seq(RecordType) /\ Len(q) \in Nat /\ DOMAIN q = 1 .. Len(q)
      /\ DOMAIN z = 1 .. Len(q) + 1 /\ z[Len(q) + 1] = r
      /\ \A i \in 1 .. Len(q) : z[i] = q[i]
  OBVIOUS
<1>. HIDE DEF z
<1>2. CASE r.partial
  <2>1. Partials(z) = Partials(q) \cup {Len(q) + 1}
    BY <1>1, <1>2 DEF Partials
  <2>2. Len(q) + 1 \notin Partials(q)
    BY <1>1 DEF Partials
  <2>. QED BY <1>2, <2>1, <2>2, PartialsFinite, FS_AddElement DEF z
<1>3. CASE ~r.partial
  <2>1. Partials(z) = Partials(q)
    BY <1>1, <1>3 DEF Partials
  <2>. QED BY <1>3, <2>1 DEF z
<1>. QED BY <1>2, <1>3

\* The record that PutRecord writes; its 32-bit delta is not truncated.
Header(delta, isMarker) == [delta |-> delta, accesses |-> 0, truncated |-> FALSE,
                            partial |-> ~isMarker, marker |-> isMarker]

LEMMA DeltaKept == \A x \in 0 .. MaxDelta : x % (MaxDelta + 1) = x
BY BoundsAssumption

LEMMA HeaderKind ==
  ASSUME NEW delta \in 0 .. MaxDelta, NEW isMarker \in BOOLEAN
  PROVE  /\ Header(delta, isMarker) \in RecordType
         /\ Header(delta, isMarker).partial = ~isMarker
         /\ Header(delta, isMarker).accesses = 0 /\ Header(delta, isMarker).delta = delta
         /\ Header(delta, isMarker).marker = isMarker
         /\ Header(delta, isMarker).truncated = FALSE
<1>1. (~isMarker) \in BOOLEAN
  OBVIOUS
<1>. QED BY <1>1, SizeAssumption DEF Header, RecordType

Delta(a, cycle) == cycle - a.blocks[a.current].base_cycle
Grown(a, cycle, isMarker) ==
  LET k == a.blocks[a.current] IN
    [k EXCEPT !.records = Append(k.records, Header(Delta(a, cycle), isMarker)),
              !.used = k.used + HeaderSize,
              !.partial_count = IF isMarker THEN k.partial_count ELSE k.partial_count + 1,
              !.first_id = IF k.records = <<>> THEN a.next_id ELSE k.first_id,
              !.last_id = a.next_id]

LEMMA FitsGives ==
  ASSUME NEW a \in Arenas, NEW cycle \in 0 .. MaxClock, NEW required \in Nat,
         Fits(a, cycle, required)
  PROVE  LET k == a.blocks[a.current] IN
         /\ a.current \in Blocks /\ a.current # NoBlock /\ k \in BlockKind
         /\ k.epoch = a.epoch /\ k.timeline = a.timeline
         /\ Delta(a, cycle) \in 0 .. MaxDelta /\ cycle = k.base_cycle + Delta(a, cycle)
         /\ k.used + required <= BlockSize
<1>1. a.current \in Blocks /\ a.current # NoBlock
  BY DEF Fits, Arenas
<1>. DEFINE k == a.blocks[a.current]
<1>2. k \in BlockKind
  BY <1>1 DEF Arenas
<1>3. k.base_cycle \in 0 .. MaxClock /\ k.used \in 0 .. BlockSize
  BY <1>2 DEF BlockKind
<1>4. /\ k.epoch = a.epoch /\ k.timeline = a.timeline
      /\ cycle >= k.base_cycle /\ cycle - k.base_cycle <= MaxDelta
      /\ required <= BlockSize - k.used
  BY DEF Fits
<1>. QED BY <1>1, <1>2, <1>3, <1>4, SizeAssumption, BoundsAssumption DEF Delta

LEMMA GrownIs ==
  ASSUME NEW a \in Arenas, NEW cycle \in 0 .. MaxClock, NEW required \in Nat,
         Fits(a, cycle, required), HeaderSize <= required, NEW isMarker \in BOOLEAN
  PROVE  LET k == a.blocks[a.current]
             g == Grown(a, cycle, isMarker)
         IN /\ g \in BlockKind
            /\ g.records = Append(k.records, Header(Delta(a, cycle), isMarker))
            /\ g.records # <<>> /\ g.records \in Seq(RecordType)
            /\ Len(g.records) = Len(k.records) + 1
            /\ g.used = k.used + HeaderSize
            /\ g.partial_count = (IF isMarker THEN k.partial_count ELSE k.partial_count + 1)
            /\ g.first_id = (IF k.records = <<>> THEN a.next_id ELSE k.first_id)
            /\ g.last_id = a.next_id
            /\ g.occupied = k.occupied /\ g.epoch = k.epoch /\ g.timeline = k.timeline
            /\ g.base_cycle = k.base_cycle
<1>. DEFINE k == a.blocks[a.current]
            r == Header(Delta(a, cycle), isMarker)
            z == Append(k.records, r)
            u == k.used + HeaderSize
            pc == IF isMarker THEN k.partial_count ELSE k.partial_count + 1
            fi == IF k.records = <<>> THEN a.next_id ELSE k.first_id
            g == Grown(a, cycle, isMarker)
<1>1. k \in BlockKind /\ k.used + required <= BlockSize /\ Delta(a, cycle) \in 0 .. MaxDelta
  BY FitsGives
<1>2. r \in RecordType
  BY <1>1, HeaderKind
<1>3. /\ k.records \in Seq(RecordType) /\ k.used \in 0 .. BlockSize /\ k.partial_count \in Nat
      /\ k.first_id \in Nat /\ a.next_id \in Nat
  BY <1>1 DEF BlockKind, Arenas
<1>4. g = [k EXCEPT !.records = z, !.used = u, !.partial_count = pc, !.first_id = fi,
                    !.last_id = a.next_id]
  BY DEF Grown
<1>. HIDE DEF r, k, g
<1>5. z \in Seq(RecordType) /\ z # <<>> /\ Len(z) = Len(k.records) + 1
  BY <1>2, <1>3
<1>6. u \in 0 .. BlockSize /\ pc \in Nat /\ fi \in Nat
  <2>1. HeaderSize \in Nat /\ BlockSize \in Nat /\ k.used \in Nat
    BY <1>3, SizeAssumption
  <2>2. u \in 0 .. BlockSize
    BY <1>1, <2>1
  <2>3. pc \in Nat
    BY <1>3
  <2>4. fi \in Nat
    BY <1>3
  <2>. QED BY <2>2, <2>3, <2>4
<1>. HIDE DEF z, u, pc, fi
<1>7. /\ g \in BlockKind /\ g.records = z /\ g.used = u /\ g.partial_count = pc
      /\ g.first_id = fi /\ g.last_id = a.next_id
      /\ g.occupied = k.occupied /\ g.epoch = k.epoch /\ g.timeline = k.timeline
      /\ g.base_cycle = k.base_cycle
  BY <1>1, <1>3, <1>4, <1>5, <1>6 DEF BlockKind
<1>. QED BY <1>5, <1>7 DEF g, k, r, z, u, pc, fi

LEMMA PutIs ==
  ASSUME NEW a \in Arenas, NEW cycle \in 0 .. MaxClock, NEW required \in Nat,
         Fits(a, cycle, required), HeaderSize <= required, NEW isMarker \in BOOLEAN
  PROVE  LET n == PutRecord(a, cycle, isMarker) IN
         /\ n \in Arenas /\ n.next_id = a.next_id + 1
         /\ n.active = (IF isMarker THEN NoBlock ELSE a.current)
         /\ n.blocks = [a.blocks EXCEPT ![a.current] = Grown(a, cycle, isMarker)]
         /\ n.current = a.current /\ n.epoch = a.epoch /\ n.timeline = a.timeline
         /\ n.recording = a.recording /\ n.retain_oldest_id = a.retain_oldest_id
<1>. DEFINE g == Grown(a, cycle, isMarker)
            bs == [a.blocks EXCEPT ![a.current] = g]
            act == IF isMarker THEN NoBlock ELSE a.current
            n == PutRecord(a, cycle, isMarker)
<1>1. a.current \in Blocks /\ Delta(a, cycle) \in 0 .. MaxDelta /\ g \in BlockKind
  BY FitsGives, GrownIs
<1>2. Delta(a, cycle) % (MaxDelta + 1) = Delta(a, cycle)
  BY <1>1, DeltaKept
<1>3. n = [a EXCEPT !.next_id = a.next_id + 1, !.active = act, !.blocks = bs]
  <2>1. PutRecord(a, cycle, isMarker) =
          [a EXCEPT !.next_id = @ + 1, !.active = act,
                    !.blocks[a.current] =
                      [a.blocks[a.current] EXCEPT
                         !.records = Append(@, Header(Delta(a, cycle) % (MaxDelta + 1), isMarker)),
                         !.used = @ + HeaderSize,
                         !.partial_count = IF isMarker THEN @ ELSE @ + 1,
                         !.first_id = IF a.blocks[a.current].records = <<>> THEN a.next_id ELSE @,
                         !.last_id = a.next_id]]
    BY DEF PutRecord, Header, Delta
  <2>2. g = [a.blocks[a.current] EXCEPT
                         !.records = Append(@, Header(Delta(a, cycle), isMarker)),
                         !.used = @ + HeaderSize,
                         !.partial_count = IF isMarker THEN @ ELSE @ + 1,
                         !.first_id = IF a.blocks[a.current].records = <<>> THEN a.next_id ELSE @,
                         !.last_id = a.next_id]
    BY DEF Grown
  <2>. HIDE DEF g, act
  <2>3. n = [a EXCEPT !.next_id = @ + 1, !.active = act, !.blocks[a.current] = g]
    BY <1>2, <2>1, <2>2
  <2>. QED BY <2>3 DEF Arenas
<1>. HIDE DEF g, n
<1>4. bs \in [Blocks -> BlockKind]
  BY <1>1 DEF Arenas
<1>5. act \in Blocks \cup {NoBlock}
  BY <1>1
<1>6. a.next_id + 1 \in Nat \ {0}
  BY DEF Arenas
<1>. HIDE DEF bs, act
<1>7. /\ n \in Arenas /\ n.next_id = a.next_id + 1 /\ n.active = act /\ n.blocks = bs
      /\ n.current = a.current /\ n.epoch = a.epoch /\ n.timeline = a.timeline
      /\ n.recording = a.recording /\ n.retain_oldest_id = a.retain_oldest_id
  BY <1>3, <1>4, <1>5, <1>6 DEF Arenas
<1>. QED BY <1>7 DEF n, bs, g, act

LEMMA PutSound ==
  ASSUME NEW a, Sound(a), NEW cycle \in 0 .. MaxClock, NEW required \in Nat,
         Fits(a, cycle, required), HeaderSize <= required, NEW isMarker \in BOOLEAN,
         isMarker \/ MaxRecordSize <= required
  PROVE  /\ Sound(PutRecord(a, cycle, isMarker))
         /\ Held(PutRecord(a, cycle, isMarker), a.next_id)
<1>. DEFINE n == PutRecord(a, cycle, isMarker)
            g == Grown(a, cycle, isMarker)
            f == a.current
            k == a.blocks[f]
<1>1. a \in Arenas /\ WellFormed(a) /\ Ordered(a) /\ Covered(a)
  BY DEF Sound
<1>2. /\ f \in Blocks /\ f # NoBlock /\ k \in BlockKind /\ k.epoch = a.epoch
      /\ k.used + required <= BlockSize /\ Delta(a, cycle) \in 0 .. MaxDelta
  BY <1>1, FitsGives
<1>3. /\ n \in Arenas /\ n.next_id = a.next_id + 1
      /\ n.active = (IF isMarker THEN NoBlock ELSE f)
      /\ n.blocks = [a.blocks EXCEPT ![f] = g]
      /\ n.current = f /\ n.epoch = a.epoch /\ n.retain_oldest_id = a.retain_oldest_id
  BY <1>1, PutIs
<1>4. /\ g \in BlockKind /\ g.records # <<>> /\ g.records \in Seq(RecordType)
      /\ g.records = Append(k.records, Header(Delta(a, cycle), isMarker))
      /\ Len(g.records) = Len(k.records) + 1 /\ g.used = k.used + HeaderSize
      /\ g.partial_count = (IF isMarker THEN k.partial_count ELSE k.partial_count + 1)
      /\ g.first_id = (IF k.records = <<>> THEN a.next_id ELSE k.first_id)
      /\ g.last_id = a.next_id /\ g.epoch = k.epoch
  BY <1>1, GrownIs
<1>5. g.occupied = k.occupied
  BY <1>1, GrownIs
<1>6. /\ k.records \in Seq(RecordType) /\ Len(k.records) \in Nat /\ a.next_id \in Nat \ {0}
      /\ k.first_id \in Nat /\ k.last_id \in Nat /\ k.used \in Nat /\ k.partial_count \in Nat
      /\ a.retain_oldest_id \in Nat
  <2>. HIDE DEF k
  <2>1. a.next_id \in Nat \ {0} /\ a.retain_oldest_id \in Nat
    BY <1>1 DEF Arenas
  <2>2. /\ k.records \in Seq(RecordType) /\ k.first_id \in Nat /\ k.last_id \in Nat
        /\ k.used \in 0 .. BlockSize /\ k.partial_count \in Nat
    BY <1>2 DEF BlockKind
  <2>3. Len(k.records) \in Nat
    BY <2>2
  <2>. QED BY <2>1, <2>2, <2>3, SizeAssumption
<1>. HIDE DEF n, g, f, k
<1>7. n.blocks[f] = g /\ \A b \in Blocks : b # f => n.blocks[b] = a.blocks[b]
  BY <1>1, <1>2, <1>3 DEF Arenas
<1>8. Full(n, f) /\ \A b \in Blocks : b # f => (Full(n, b) <=> Full(a, b))
  BY <1>4, <1>7 DEF Full
<1>9. Full(a, f) => /\ k.first_id >= 1 /\ k.last_id = k.first_id + Len(k.records) - 1
                    /\ k.last_id < a.next_id
  BY <1>1, <1>2 DEF WellFormed, k
<1>10. Full(a, f) <=> k.records # <<>>
  BY DEF Full, k
\* The current block was full of the newest ids, or nothing was held.
<1>11. Full(a, f) => k.last_id = a.next_id - 1
  <2>. SUFFICES ASSUME Full(a, f), k.last_id # a.next_id - 1 PROVE FALSE
    OBVIOUS
  <2>1. PICK lo \in Nat \ {0} : CoveredFrom(a, lo)
    BY <1>1 DEF Covered
  <2>2. lo <= k.first_id /\ k.first_id <= k.last_id
    <3>1. Len(k.records) >= 1
      BY <1>6, <1>10
    <3>2. lo <= k.first_id
      BY <1>2, <2>1 DEF CoveredFrom, k
    <3>. QED BY <1>6, <1>9, <3>1, <3>2
  <2>3. k.last_id + 1 \in Nat /\ lo <= k.last_id + 1 /\ k.last_id + 1 < a.next_id
    <3>1. k.last_id < a.next_id
      BY <1>9
    <3>2. k.last_id \in Nat /\ k.first_id \in Nat /\ a.next_id \in Nat
      BY <1>6
    <3>3. lo <= k.last_id
      BY <2>2, <3>2
    <3>4. k.last_id + 1 # a.next_id
      BY <3>2
    <3>5. k.last_id + 1 < a.next_id
      BY <3>1, <3>2, <3>4
    <3>6. k.last_id + 1 \in Nat /\ lo <= k.last_id + 1
      BY <3>2, <3>3
    <3>. QED BY <3>5, <3>6
  <2>4. PICK b \in Blocks : Holds(a, b, k.last_id + 1)
    BY <2>1, <2>3 DEF CoveredFrom, Held
  <2>5. b # f
    BY <1>6, <2>4 DEF Holds, k
  <2>6. Age(a, f) < Age(a, b)
    <3>1. Age(a, f) = 0 /\ Age(a, b) >= 0 /\ (Age(a, b) = 0 => b = f)
      BY <1>1, <1>2, AgeZero DEF f
    <3>2. Age(a, b) \in Int
      BY <1>1, <1>2, SizeAssumption DEF Age, Blocks, f
    <3>. QED BY <2>5, <3>1, <3>2
  <2>7. a.blocks[b].last_id < k.first_id
    BY <1>1, <1>2, <2>4, <2>6 DEF Ordered, Holds, k
  <2>8. a.blocks[b].last_id \in Nat /\ k.last_id + 1 <= a.blocks[b].last_id
    BY <1>1, <2>4 DEF Holds, Arenas, BlockKind
  <2>9. k.first_id \in Nat /\ k.last_id \in Nat
    BY <1>6
  <2>10. k.last_id < a.blocks[b].last_id
    BY <2>8, <2>9
  <2>11. k.last_id < k.first_id
    BY <2>7, <2>8, <2>9, <2>10
  <2>. QED BY <2>2, <2>9, <2>11
<1>12. WellFormed(n)
  <2>1. ASSUME NEW b \in Blocks
        PROVE  LET q == n.blocks[b] IN
                 /\ ~Full(n, b) => q.first_id = 0 /\ q.last_id = 0
                 /\ Full(n, b) => /\ q.occupied /\ q.epoch = n.epoch /\ q.first_id >= 1
                                  /\ q.last_id = q.first_id + Len(q.records) - 1
                                  /\ q.last_id < n.next_id
                 /\ q.epoch = n.epoch => q.occupied
                 /\ q.partial_count = Cardinality(Partials(q.records))
    <3>1. CASE b # f
      <4>1. n.blocks[b] = a.blocks[b] /\ (Full(n, b) <=> Full(a, b))
        BY <1>7, <1>8, <3>1
      <4>2. a.blocks[b].last_id \in Nat
        BY <1>1 DEF Arenas, BlockKind
      <4>3. Full(a, b) => a.blocks[b].last_id < n.next_id
        BY <1>1, <1>3, <1>6, <4>2 DEF WellFormed
      <4>. QED BY <1>1, <1>3, <4>1, <4>3 DEF WellFormed
    <3>2. CASE b = f
      <4>1. g.occupied
        BY <1>1, <1>2, <1>5 DEF WellFormed, k
      <4>2. g.first_id >= 1 /\ g.last_id = g.first_id + Len(g.records) - 1
        <5>1. CASE k.records = <<>>
          <6>1. Len(k.records) = 0
            BY <5>1
          <6>. QED BY <1>4, <1>6, <5>1, <6>1
        <5>2. CASE k.records # <<>>
          <6>1. /\ k.first_id >= 1 /\ k.last_id = k.first_id + Len(k.records) - 1
                /\ k.last_id = a.next_id - 1
            BY <1>9, <1>10, <1>11, <5>2
          <6>2. /\ g.first_id = k.first_id /\ g.last_id = a.next_id
                /\ Len(g.records) = Len(k.records) + 1
            BY <1>4, <5>2
          <6>3. k.first_id \in Int /\ Len(k.records) \in Int /\ a.next_id \in Int
            BY <1>6
          <6>4. a.next_id = k.first_id + (Len(k.records) + 1) - 1
            BY <6>1, <6>3
          <6>. QED BY <6>1, <6>2, <6>4
        <5>. QED BY <5>1, <5>2
      <4>3. g.last_id < n.next_id /\ g.epoch = n.epoch
        BY <1>2, <1>3, <1>4, <1>6
      <4>4. g.partial_count = Cardinality(Partials(g.records))
        <5>1. k.partial_count = Cardinality(Partials(k.records))
          BY <1>1, <1>2 DEF WellFormed, k
        <5>. DEFINE r == Header(Delta(a, cycle), isMarker)
        <5>2. r \in RecordType /\ r.partial = ~isMarker
          BY <1>2, HeaderKind
        <5>. HIDE DEF r
        <5>3. Cardinality(Partials(Append(k.records, r))) =
                IF r.partial THEN Cardinality(Partials(k.records)) + 1
                ELSE Cardinality(Partials(k.records))
          BY <1>6, <5>2, PartialsAppend
        <5>. QED BY <1>4, <5>1, <5>2, <5>3 DEF r
      <4>. QED BY <1>7, <1>8, <3>2, <4>1, <4>2, <4>3, <4>4
    <3>. QED BY <3>1, <3>2
  <2>2. n.retain_oldest_id < n.next_id
    BY <1>1, <1>3, <1>6 DEF WellFormed
  <2>. QED BY <1>2, <1>3, <2>1, <2>2 DEF WellFormed
<1>13. \A b \in Blocks : Age(n, b) = Age(a, b)
  BY <1>3 DEF Age, f
<1>14. Ordered(n)
  <2>. SUFFICES ASSUME NEW b \in Blocks, NEW c \in Blocks, Full(n, b), Full(n, c),
                       Age(n, b) < Age(n, c)
                PROVE  n.blocks[c].last_id < n.blocks[b].first_id
    BY DEF Ordered
  <2>1. c # f
    <3>1. Age(a, f) = 0 /\ Age(a, b) >= 0 /\ Age(a, b) < Age(a, c)
      BY <1>1, <1>2, <1>13, AgeZero DEF f
    <3>2. Age(a, b) \in Int /\ Age(a, c) \in Int
      BY <1>1, <1>2, SizeAssumption DEF Age, Blocks, f
    <3>. QED BY <3>1, <3>2
  <2>2. Full(a, c) /\ n.blocks[c] = a.blocks[c]
    BY <1>7, <1>8, <2>1
  <2>3. CASE Full(a, b)
    <3>1. a.blocks[c].last_id < a.blocks[b].first_id
      BY <1>1, <1>13, <2>2, <2>3 DEF Ordered
    <3>2. n.blocks[b].first_id = a.blocks[b].first_id
      BY <1>4, <1>7, <1>10, <2>3 DEF k
    <3>. QED BY <2>2, <3>1, <3>2
  <2>4. CASE ~Full(a, b)
    <3>1. b = f /\ n.blocks[b].first_id = a.next_id
      BY <1>4, <1>7, <1>8, <1>10, <2>4
    <3>. QED BY <1>1, <2>2, <3>1 DEF WellFormed
  <2>. QED BY <2>3, <2>4
<1>15. Holds(n, f, a.next_id)
  <2>1. g.first_id <= a.next_id
    BY <1>4, <1>6, <1>9, <1>10
  <2>. QED BY <1>4, <1>6, <1>7, <1>8, <2>1 DEF Holds
<1>16. Covered(n)
  <2>1. PICK lo \in Nat \ {0} : CoveredFrom(a, lo)
    BY <1>1 DEF Covered
  <2>2. \A id \in Nat : Held(a, id) => Held(n, id)
    <3>. SUFFICES ASSUME NEW id \in Nat, NEW b \in Blocks, Holds(a, b, id) PROVE Held(n, id)
      BY DEF Held
    <3>1. CASE b # f
      BY <1>7, <3>1 DEF Held, Holds, Full
    <3>2. CASE b = f
      <4>1. k.first_id <= id /\ id <= k.last_id /\ k.records # <<>>
        BY <3>2 DEF Holds, Full, k
      <4>2. g.first_id = k.first_id /\ g.last_id = k.last_id + 1
        BY <1>4, <1>6, <1>10, <1>11, <4>1
      <4>3. id <= g.last_id
        BY <1>6, <4>1, <4>2
      <4>. QED BY <1>2, <1>7, <1>8, <4>1, <4>2, <4>3 DEF Held, Holds
    <3>. QED BY <3>1, <3>2
  <2>3. CASE lo <= a.next_id
    <3>1. ASSUME NEW id \in Nat, lo <= id, id < n.next_id PROVE Held(n, id)
      <4>1. id < a.next_id \/ id = a.next_id
        BY <1>3, <1>6, <3>1
      <4>. QED BY <1>2, <1>15, <2>1, <2>2, <3>1, <4>1 DEF CoveredFrom, Held
    <3>2. ASSUME NEW b \in Blocks, Full(n, b) PROVE lo <= n.blocks[b].first_id
      <4>1. CASE Full(a, b)
        <5>1. n.blocks[b].first_id = a.blocks[b].first_id
          BY <1>4, <1>7, <1>10, <4>1 DEF k
        <5>. QED BY <2>1, <4>1, <5>1 DEF CoveredFrom
      <4>2. CASE ~Full(a, b)
        BY <1>4, <1>7, <1>8, <1>10, <2>3, <3>2, <4>2
      <4>. QED BY <4>1, <4>2
    <3>. QED BY <3>1, <3>2 DEF Covered, CoveredFrom
  <2>4. CASE lo > a.next_id
    \* Nothing was held: every block's first id is below next_id.
    <3>1. \A b \in Blocks : ~Full(a, b)
      <4>. SUFFICES ASSUME NEW b \in Blocks, Full(a, b) PROVE FALSE
        OBVIOUS
      <4>1. a.blocks[b] \in BlockKind
        BY <1>1 DEF Arenas
      <4>2. /\ a.blocks[b].last_id = a.blocks[b].first_id + Len(a.blocks[b].records) - 1
            /\ a.blocks[b].last_id < a.next_id /\ lo <= a.blocks[b].first_id
        BY <1>1, <2>1 DEF WellFormed, CoveredFrom
      <4>3. Len(a.blocks[b].records) >= 1
        BY <4>1, BlockFacts DEF Full
      <4>4. a.blocks[b].first_id \in Int /\ a.blocks[b].last_id \in Int
            /\ Len(a.blocks[b].records) \in Int
        BY <4>1, BlockFacts
      <4>5. a.blocks[b].first_id <= a.blocks[b].last_id
        BY <4>2, <4>3, <4>4, Span
      <4>6. lo < a.next_id
        BY <1>6, <4>2, <4>4, <4>5
      <4>. QED BY <1>6, <2>4, <4>6
    <3>2. \A b \in Blocks : Full(n, b) => n.blocks[b].first_id = a.next_id
      BY <1>2, <1>4, <1>7, <1>8, <1>10, <3>1
    <3>3. CoveredFrom(n, a.next_id)
      <4>1. ASSUME NEW id \in Nat, a.next_id <= id, id < n.next_id PROVE Held(n, id)
        <5>1. id = a.next_id
          BY <1>3, <1>6, <4>1
        <5>. QED BY <1>2, <1>15, <5>1 DEF Held
      <4>. QED BY <1>6, <3>2, <4>1 DEF CoveredFrom
    <3>. QED BY <1>6, <3>3 DEF Covered
  <2>. QED BY <1>6, <2>3, <2>4
<1>17. Reserved(n)
  <2>. SUFFICES ASSUME ~isMarker PROVE Reserved(n)
    BY <1>3 DEF Reserved
  <2>. DEFINE r == Header(Delta(a, cycle), isMarker)
  <2>1. r.accesses = 0 /\ r \in RecordType
    BY <1>2, HeaderKind
  <2>2. r.partial = TRUE
    BY <1>2, HeaderKind
  <2>. HIDE DEF r
  <2>3. g.records[Len(g.records)] = r
    BY <1>4, <1>6, <2>1 DEF r
  <2>4. g.used + (MaxAccesses - 0) * AccessSize <= BlockSize
    <3>1. MaxAccesses * AccessSize \in Nat
      BY SizeAssumption
    <3>2. MaxRecordSize = HeaderSize + MaxAccesses * AccessSize
      BY DEF MaxRecordSize
    <3>. QED BY <1>2, <1>4, <1>6, <3>1, <3>2, SizeAssumption
  <2>5. n.active = f /\ g.last_id = n.next_id - 1
    BY <1>3, <1>4, <1>6
  <2>. QED BY <1>3, <1>7, <1>8, <2>1, <2>2, <2>3, <2>4, <2>5 DEF Reserved
<1>. QED BY <1>2, <1>3, <1>12, <1>14, <1>15, <1>16, <1>17 DEF Sound, Held, n

\* Room is found or made; what remains of the arena is as it was.
SameHead(n, a) ==
  /\ n.epoch = a.epoch /\ n.timeline = a.timeline /\ n.recording = a.recording
  /\ n.retain_oldest_id = a.retain_oldest_id

LEMMA AdvanceMakesRoom ==
  ASSUME NEW a, Sound(a), a.active = NoBlock, NEW cycle \in 0 .. MaxClock,
         NEW required \in Nat, required <= MaxRecordSize
  PROVE  LET n == AdvanceBlock(a, cycle) IN
         /\ Sound(n) /\ Fits(n, cycle, required) /\ SameHead(n, a)
         /\ n.next_id = a.next_id /\ n.active = NoBlock /\ ~Full(n, n.current)
         /\ \A b \in Blocks : b # n.current => n.blocks[b] = a.blocks[b]
<1>. DEFINE n == AdvanceBlock(a, cycle)
            f == Following(a)
            k == Fresh(a, cycle)
            bs == [a.blocks EXCEPT ![f] = k]
<1>1. a \in Arenas /\ Sound(n)
  BY AdvanceSound DEF Sound
<1>2. n = [a EXCEPT !.current = f, !.blocks = bs]
  BY <1>1, AdvanceIs
<1>3. f \in Blocks
  BY <1>1, FollowingIs
<1>4. /\ k.records = <<>> /\ k.used = 0 /\ k.epoch = a.epoch /\ k.timeline = a.timeline
      /\ k.base_cycle = cycle
  BY <1>1, FreshKind
<1>. HIDE DEF n, f, k, bs
<1>5. /\ n.current = f /\ n.blocks = bs /\ SameHead(n, a)
      /\ n.next_id = a.next_id /\ n.active = NoBlock
  BY <1>1, <1>2 DEF Arenas, SameHead
<1>6. n.blocks[f] = k /\ \A b \in Blocks : b # f => n.blocks[b] = a.blocks[b]
  BY <1>1, <1>3, <1>5 DEF Arenas, bs
<1>7. Fits(n, cycle, required)
  <2>1. n.current # NoBlock
    BY <1>3, <1>5, SizeAssumption DEF Blocks, NoBlock
  <2>2. n.epoch = a.epoch /\ n.timeline = a.timeline
    BY <1>5 DEF SameHead
  <2>3. cycle - cycle <= MaxDelta /\ required <= BlockSize - 0
    BY SizeAssumption, BoundsAssumption DEF MaxRecordSize
  <2>. QED BY <1>4, <1>5, <1>6, <2>1, <2>2, <2>3, BoundsAssumption DEF Fits
<1>8. ~Full(n, n.current)
  BY <1>4, <1>5, <1>6 DEF Full
<1>. QED BY <1>1, <1>5, <1>6, <1>7, <1>8 DEF n

LEMMA EnsureSound ==
  ASSUME NEW a, Sound(a), a.active = NoBlock, NEW cycle \in 0 .. MaxClock,
         NEW required \in Nat, required <= MaxRecordSize
  PROVE  LET n == EnsureSpace(a, cycle, required) IN
         /\ Sound(n) /\ Fits(n, cycle, required) /\ SameHead(n, a)
         /\ n.next_id = a.next_id /\ n.active = NoBlock
         /\ \A b \in Blocks : Full(n, b) => n.blocks[b] = a.blocks[b]
         /\ \A b \in Blocks : b # n.current => n.blocks[b] = a.blocks[b]
<1>1. CASE Fits(a, cycle, required)
  BY <1>1 DEF EnsureSpace, SameHead
<1>2. CASE ~Fits(a, cycle, required)
  BY <1>2, AdvanceMakesRoom DEF EnsureSpace
<1>. QED BY <1>1, <1>2

LEMMA HeaderFits ==
  /\ HeaderSize \in Nat /\ MaxRecordSize \in Nat /\ HeaderSize <= MaxRecordSize
<1>1. MaxAccesses * AccessSize \in Nat
  BY SizeAssumption
<1>. QED BY <1>1, SizeAssumption DEF MaxRecordSize

LEMMA HeaderTells ==
  ASSUME NEW a \in Arenas, NEW cycle \in 0 .. MaxClock, NEW required \in Nat,
         Fits(a, cycle, required), NEW isMarker \in BOOLEAN, NEW k,
         k.base_cycle = a.blocks[a.current].base_cycle, k.timeline = a.timeline
  PROVE  Tells(k, Header(Delta(a, cycle), isMarker), Entry(cycle, a.timeline, isMarker))
<1>. DEFINE r == Header(Delta(a, cycle), isMarker)
            l == Entry(cycle, a.timeline, isMarker)
<1>1. Delta(a, cycle) \in 0 .. MaxDelta /\ cycle = k.base_cycle + Delta(a, cycle)
  BY FitsGives
<1>2. r.delta = Delta(a, cycle) /\ r.accesses = 0
  BY <1>1, HeaderKind
<1>3. r.partial = ~isMarker /\ r.marker = isMarker /\ r.truncated = FALSE
  BY <1>1, HeaderKind
<1>4. a.timeline \in 0 .. MaxTimeline
  BY DEF Arenas
<1>5. l \in Entries
  BY <1>4, SizeAssumption DEF Entry, Entries
<1>6. l.cycle = cycle /\ l.timeline = a.timeline /\ l.accesses = 0
  BY DEF Entry
<1>7. l.marker = isMarker /\ l.complete = isMarker
  BY DEF Entry
<1>. HIDE DEF r, l
<1>8. r.accesses = (IF l.accesses <= MaxAccesses THEN l.accesses ELSE MaxAccesses)
      /\ ~(l.accesses > MaxAccesses)
  BY <1>2, <1>6, SizeAssumption
<1>9. l.cycle = k.base_cycle + r.delta /\ l.timeline = k.timeline
  BY <1>1, <1>2, <1>6
<1>10. r.marker = l.marker /\ r.partial = ~l.complete /\ r.truncated = (l.accesses > MaxAccesses)
  <2>1. r.marker = l.marker
    BY <1>3, <1>7
  <2>2. r.partial = ~l.complete
    BY <1>3, <1>7
  <2>3. (l.accesses > MaxAccesses) = FALSE
    BY <1>8
  <2>. QED BY <1>3, <2>1, <2>2, <2>3
<1>. QED BY <1>5, <1>8, <1>9, <1>10 DEF Tells, r, l

\* A record appended to an arena without an active one.
LEMMA AppendGood ==
  ASSUME NEW a, Sound(a), a.active = NoBlock, NEW cycle \in 0 .. MaxClock,
         NEW isMarker \in BOOLEAN, NEW required \in Nat,
         required = IF isMarker THEN HeaderSize ELSE MaxRecordSize,
         NEW told, Faithful(a, told), a.next_id \in DOMAIN told,
         told[a.next_id] = Entry(cycle, a.timeline, isMarker)
  PROVE  LET n == PutRecord(EnsureSpace(a, cycle, required), cycle, isMarker) IN
         /\ Sound(n) /\ Faithful(n, told) /\ SameHead(n, a)
         /\ n.next_id = a.next_id + 1 /\ Held(n, a.next_id)
         /\ isMarker => n.active = NoBlock
<1>. DEFINE e == EnsureSpace(a, cycle, required)
            n == PutRecord(e, cycle, isMarker)
            f == e.current
            k == e.blocks[f]
            g == Grown(e, cycle, isMarker)
<1>1. required <= MaxRecordSize /\ HeaderSize <= required
  BY HeaderFits
<1>2. /\ Sound(e) /\ Fits(e, cycle, required) /\ SameHead(e, a)
      /\ e.next_id = a.next_id /\ e.active = NoBlock
      /\ \A b \in Blocks : Full(e, b) => e.blocks[b] = a.blocks[b]
  BY <1>1, EnsureSound
<1>3. e \in Arenas /\ WellFormed(e)
  BY <1>2 DEF Sound
<1>. HIDE DEF e
<1>4. Sound(n) /\ Held(n, a.next_id)
  BY <1>1, <1>2, HeaderFits, PutSound
<1>5. /\ n.next_id = a.next_id + 1 /\ n.active = (IF isMarker THEN NoBlock ELSE e.current)
      /\ n.blocks = [e.blocks EXCEPT ![f] = g] /\ SameHead(n, e)
  BY <1>1, <1>2, <1>3, PutIs DEF SameHead
<1>6. SameHead(n, a)
  BY <1>2, <1>5 DEF SameHead
<1>7. f \in Blocks /\ k \in BlockKind /\ k.timeline = e.timeline
      /\ Delta(e, cycle) \in 0 .. MaxDelta
  BY <1>2, <1>3, FitsGives
<1>8. /\ g.records = Append(k.records, Header(Delta(e, cycle), isMarker))
      /\ g.first_id = (IF k.records = <<>> THEN e.next_id ELSE k.first_id)
      /\ g.last_id = e.next_id /\ g.timeline = k.timeline /\ g.base_cycle = k.base_cycle
      /\ g.records \in Seq(RecordType) /\ Len(g.records) = Len(k.records) + 1
  BY <1>1, <1>2, <1>3, GrownIs
<1>9. k.records \in Seq(RecordType) /\ Len(k.records) \in Nat /\ k.first_id \in Nat
      /\ e.next_id \in Nat
  <2>1. k.records \in Seq(RecordType) /\ k.first_id \in Nat
    BY <1>7 DEF BlockKind
  <2>2. e.next_id \in Nat
    BY <1>3 DEF Arenas
  <2>. QED BY <2>1, <2>2
<1>10. \A b \in Blocks : b # f => n.blocks[b] = e.blocks[b]
  BY <1>3, <1>5, <1>7 DEF Arenas
<1>11. n.blocks[f] = g
  BY <1>3, <1>5, <1>7 DEF Arenas
<1>12. Header(Delta(e, cycle), isMarker) \in RecordType
  BY <1>7, HeaderKind
<1>. DEFINE r == Header(Delta(e, cycle), isMarker)
<1>13. ASSUME NEW b \in Blocks, NEW i \in DOMAIN e.blocks[b].records
       PROVE  LET id == e.blocks[b].first_id + i - 1 IN
                id \in DOMAIN told /\ Tells(e.blocks[b], e.blocks[b].records[i], told[id])
  <2>1. Full(e, b)
    BY <1>13 DEF Full
  <2>2. e.blocks[b] = a.blocks[b]
    BY <1>2, <2>1
  <2>. QED BY <1>13, <2>2 DEF Faithful
<1>14. WellFormed(n)
  BY <1>4 DEF Sound
<1>. HIDE DEF n, f, k, g, r
<1>15. Faithful(n, told)
  <2>. SUFFICES ASSUME NEW b \in Blocks, NEW i \in DOMAIN n.blocks[b].records
                PROVE  LET id == n.blocks[b].first_id + i - 1 IN
                         /\ id \in DOMAIN told
                         /\ Tells(n.blocks[b], n.blocks[b].records[i], told[id])
    BY DEF Faithful
  <2>1. CASE b # f
    BY <1>10, <1>13, <2>1
  <2>2. CASE b = f /\ i \in 1 .. Len(k.records)
    <3>1. i \in DOMAIN e.blocks[b].records /\ e.blocks[b] = k
      BY <1>9, <2>2 DEF k
    <3>2. k.records # <<>> /\ g.first_id = k.first_id /\ g.records[i] = k.records[i]
      BY <1>8, <1>9, <1>12, <2>2 DEF r
    <3>3. Tells(k, k.records[i], told[k.first_id + i - 1]) /\ k.first_id + i - 1 \in DOMAIN told
      BY <1>13, <3>1
    <3>4. Tells(g, k.records[i], told[k.first_id + i - 1])
      BY <1>8, <3>3 DEF Tells
    <3>. QED BY <1>11, <2>2, <3>2, <3>3, <3>4
  <2>3. CASE b = f /\ i \notin 1 .. Len(k.records)
    <3>1. i = Len(k.records) + 1 /\ i = Len(g.records) /\ g.records[i] = r
      BY <1>8, <1>9, <1>11, <1>12, <2>3 DEF r
    <3>2. Full(n, f)
      BY <1>11, <2>3 DEF Full
    <3>3. g.last_id = g.first_id + Len(g.records) - 1
      BY <1>7, <1>11, <1>14, <3>2 DEF WellFormed
    <3>4. g.first_id + i - 1 = a.next_id
      BY <1>2, <1>8, <3>1, <3>3
    <3>5. k.timeline = a.timeline /\ e.timeline = a.timeline
      BY <1>2, <1>7 DEF SameHead
    <3>6. Tells(g, r, Entry(cycle, a.timeline, isMarker))
      BY <1>2, <1>3, <1>7, <1>8, <3>5, HeaderTells DEF r, k, f
    <3>. QED BY <1>11, <2>3, <3>1, <3>4, <3>6
  <2>. QED BY <2>1, <2>2, <2>3
<1>. QED BY <1>4, <1>5, <1>6, <1>15 DEF n, e

-----------------------------------------------------------------------------
(* What the worker calls, each as a step from one good arena to another.   *)

Good(a, told) == Sound(a) /\ Faithful(a, told)

\* The invariant looks at blocks, current, active, epoch, next_id and the floor.
LEMMA GoodSame ==
  ASSUME NEW a, NEW n \in Arenas, NEW told, Good(a, told),
         n.blocks = a.blocks, n.current = a.current, n.active \in {a.active, NoBlock},
         n.epoch = a.epoch, n.next_id = a.next_id, n.retain_oldest_id = a.retain_oldest_id
  PROVE  Good(n, told)
<1>1. a \in Arenas /\ WellFormed(a) /\ Ordered(a) /\ Covered(a) /\ Reserved(a) /\ Faithful(a, told)
  BY DEF Good, Sound
<1>2. WellFormed(n) /\ Ordered(n)
  BY <1>1 DEF WellFormed, Ordered, Full, Age
<1>3. Covered(n)
  BY <1>1 DEF Covered, CoveredFrom, Held, Holds, Full
<1>4. Reserved(n)
  BY <1>1 DEF Reserved, Full
<1>5. Faithful(n, told)
  BY <1>1 DEF Faithful
<1>. QED BY <1>2, <1>3, <1>4, <1>5 DEF Good, Sound

LEMMA SealGood ==
  ASSUME NEW a, NEW told, Good(a, told)
  PROVE  LET n == SealPartial(a) IN
         /\ Good(n, told) /\ n.active = NoBlock /\ n.next_id = a.next_id /\ SameHead(n, a)
         /\ n.blocks = a.blocks
<1>. DEFINE n == SealPartial(a)
<1>1. a \in Arenas
  BY DEF Good, Sound
<1>2. /\ n \in Arenas /\ n.active = NoBlock /\ n.next_id = a.next_id /\ SameHead(n, a)
      /\ n.blocks = a.blocks /\ n.current = a.current /\ n.epoch = a.epoch
      /\ n.retain_oldest_id = a.retain_oldest_id
  BY <1>1 DEF SealPartial, Arenas, SameHead
<1>. HIDE DEF n
<1>. QED BY <1>2, GoodSame DEF n

\* The newest record of an arena with an active one is that one.
LEMMA ActiveHeld ==
  ASSUME NEW a, Sound(a), a.active # NoBlock
  PROVE  /\ Holds(a, a.active, a.next_id - 1) /\ a.active \in Blocks
         /\ a.next_id - 1 \in Nat \ {0}
<1>. DEFINE k == a.blocks[a.active]
<1>1. a \in Arenas /\ WellFormed(a) /\ Reserved(a) /\ a.active \in Blocks
  BY DEF Sound, Arenas
<1>2. Full(a, a.active) /\ k.last_id = a.next_id - 1 /\ k \in BlockKind
  BY <1>1 DEF Reserved, Arenas
<1>3. k.first_id >= 1 /\ k.last_id = k.first_id + Len(k.records) - 1
  BY <1>1, <1>2 DEF WellFormed
<1>. HIDE DEF k
<1>4. Len(k.records) \in Nat /\ Len(k.records) >= 1 /\ k.first_id \in Nat /\ k.last_id \in Nat
  <2>1. k.records # <<>>
    BY <1>2 DEF Full, k
  <2>. QED BY <1>2, <2>1, BlockFacts
<1>5. k.first_id <= k.last_id
  BY <1>3, <1>4
<1>. QED BY <1>1, <1>2, <1>3, <1>4, <1>5 DEF Holds, k

LEMMA MarkerGood ==
  ASSUME NEW a, NEW told, Good(a, told), NEW cycle \in 0 .. MaxClock,
         a.recording /\ a.active = NoBlock =>
           a.next_id \in DOMAIN told /\ told[a.next_id] = Entry(cycle, a.timeline, TRUE)
  PROVE  LET n == AppendMarker(a, cycle) IN
         /\ Good(n, told) /\ SameHead(n, a) /\ n.next_id \in {a.next_id, a.next_id + 1}
         /\ n.recording => Held(n, n.next_id - 1)
         /\ n.recording => n.next_id > 1
         /\ a.active = NoBlock => n.active = NoBlock
<1>. DEFINE n == AppendMarker(a, cycle)
<1>1. Sound(a) /\ Faithful(a, told) /\ a \in Arenas
  BY DEF Good, Sound
<1>2. a.next_id \in Nat \ {0} /\ a.recording \in BOOLEAN
  BY <1>1 DEF Arenas
<1>3. CASE a.recording /\ a.active = NoBlock
  <2>. DEFINE p == PutRecord(EnsureSpace(a, cycle, HeaderSize), cycle, TRUE)
  <2>1. n = p
    BY <1>3 DEF AppendMarker
  <2>2. /\ Sound(p) /\ Faithful(p, told) /\ SameHead(p, a)
        /\ p.next_id = a.next_id + 1 /\ Held(p, a.next_id) /\ p.active = NoBlock
    BY <1>1, <1>3, HeaderFits, AppendGood
  <2>. HIDE DEF p
  <2>3. p.next_id - 1 = a.next_id /\ p.next_id > 1
    BY <1>2, <2>2
  <2>. QED BY <2>1, <2>2, <2>3 DEF Good
<1>4. CASE ~(a.recording /\ a.active = NoBlock)
  <2>1. n = a
    BY <1>2, <1>4 DEF AppendMarker
  <2>2. a.recording => Held(a, a.next_id - 1) /\ a.next_id > 1
    <3>. SUFFICES ASSUME a.recording PROVE Held(a, a.next_id - 1) /\ a.next_id > 1
      OBVIOUS
    <3>1. Holds(a, a.active, a.next_id - 1) /\ a.active \in Blocks /\ a.next_id - 1 \in Nat \ {0}
      BY <1>1, <1>4, ActiveHeld
    <3>. QED BY <1>2, <3>1 DEF Held
  <2>. QED BY <2>1, <2>2 DEF SameHead
<1>. QED BY <1>3, <1>4

\* The same, for the log that the worker is about to have.
Extend(told, cycle, timeline, isMarker) ==
  [id \in Nat |-> IF id \in DOMAIN told THEN told[id] ELSE Entry(cycle, timeline, isMarker)]

LEMMA Extended ==
  ASSUME NEW a, NEW told, Good(a, told), NEW cycle, NEW timeline, NEW isMarker
  PROVE  Good(a, Extend(told, cycle, timeline, isMarker))
<1>. DEFINE x == Extend(told, cycle, timeline, isMarker)
<1>1. a \in Arenas /\ Faithful(a, told)
  BY DEF Good, Sound
<1>2. ASSUME NEW b \in Blocks, NEW i \in DOMAIN a.blocks[b].records
      PROVE  a.blocks[b].first_id + i - 1 \in Nat
  <2>1. a.blocks[b] \in BlockKind
    BY <1>1 DEF Arenas
  <2>2. a.blocks[b].first_id \in Nat /\ a.blocks[b].records \in Seq(RecordType)
    BY <2>1 DEF BlockKind
  <2>3. i \in Nat /\ i >= 1
    BY <1>2, <2>2
  <2>. QED BY <2>2, <2>3
<1>3. DOMAIN x = Nat /\ \A id \in Nat : id \in DOMAIN told => x[id] = told[id]
  BY DEF Extend
<1>. HIDE DEF x
<1>4. Faithful(a, x)
  BY <1>1, <1>2, <1>3 DEF Faithful
<1>. QED BY <1>4 DEF Good, x

LEMMA ExtendNew ==
  ASSUME NEW told, NEW cycle, NEW timeline, NEW isMarker, NEW id \in Nat, id \notin DOMAIN told
  PROVE  /\ id \in DOMAIN Extend(told, cycle, timeline, isMarker)
         /\ Extend(told, cycle, timeline, isMarker)[id] = Entry(cycle, timeline, isMarker)
BY DEF Extend

\* The id of a record is retained.
LEMMA RecordRetained ==
  ASSUME NEW a, Sound(a), NEW b \in Blocks, NEW i \in DOMAIN a.blocks[b].records
  PROVE  /\ a.blocks[b].first_id + i - 1 \in Retained(a)
         /\ Holds(a, b, a.blocks[b].first_id + i - 1)
<1>. DEFINE k == a.blocks[b]
            id == k.first_id + i - 1
<1>1. a \in Arenas /\ WellFormed(a) /\ k \in BlockKind
  BY DEF Sound, Arenas
<1>2. k.first_id \in Nat /\ k.last_id \in Nat /\ k.records \in Seq(RecordType) /\ a.next_id \in Nat
  BY <1>1 DEF BlockKind, Arenas
<1>3. i \in 1 .. Len(k.records) /\ Len(k.records) \in Nat
  BY <1>2
<1>4. Full(a, b)
  BY <1>2, <1>3 DEF Full
<1>5. k.first_id >= 1 /\ k.last_id = k.first_id + Len(k.records) - 1 /\ k.last_id < a.next_id
  BY <1>1, <1>4 DEF WellFormed
<1>6. id \in 1 .. a.next_id - 1 /\ k.first_id <= id /\ id <= k.last_id
  <2>. HIDE DEF k
  <2>1. i \in Int /\ 1 <= i /\ i <= Len(k.records)
    BY <1>3
  <2>2. id \in Int /\ 1 <= id /\ id < a.next_id
    BY <1>2, <1>3, <1>5, <2>1
  <2>3. k.first_id <= id /\ id <= k.last_id
    BY <1>2, <1>3, <1>5, <2>1
  <2>. QED BY <1>2, <2>2, <2>3
<1>7. Holds(a, b, id)
  BY <1>4, <1>6 DEF Holds
<1>. QED BY <1>6, <1>7, RetainedIs DEF Held

\* An id that a block holds is that of one of its records.
LEMMA RecordOf ==
  ASSUME NEW a, Sound(a), NEW b \in Blocks, NEW id \in Int, Holds(a, b, id)
  PROVE  LET i == id - a.blocks[b].first_id + 1 IN
         i \in DOMAIN a.blocks[b].records /\ a.blocks[b].first_id + i - 1 = id
<1>. DEFINE k == a.blocks[b]
            i == id - k.first_id + 1
<1>1. a \in Arenas /\ WellFormed(a) /\ k \in BlockKind
  BY DEF Sound, Arenas
<1>2. Full(a, b) /\ k.first_id <= id /\ id <= k.last_id
  BY DEF Holds
<1>3. k.first_id \in Nat /\ k.last_id \in Nat /\ k.records \in Seq(RecordType)
  BY <1>1 DEF BlockKind
<1>4. k.last_id = k.first_id + Len(k.records) - 1
  BY <1>1, <1>2 DEF WellFormed
<1>. HIDE DEF k
<1>5. Len(k.records) \in Nat /\ DOMAIN k.records = 1 .. Len(k.records)
  BY <1>3
<1>6. i \in Int /\ 1 <= i /\ i <= Len(k.records) /\ k.first_id + i - 1 = id
  <2>1. PICK p \in Int : p = k.first_id
    BY <1>3
  <2>2. PICK n \in Int : n = Len(k.records)
    BY <1>5
  <2>3. p <= id /\ id <= p + n - 1
    BY <1>2, <1>4, <2>1, <2>2
  <2>4. id - p + 1 \in Int /\ 1 <= id - p + 1 /\ id - p + 1 <= n /\ p + (id - p + 1) - 1 = id
    BY <2>3
  <2>. QED BY <2>1, <2>2, <2>4
<1>. QED BY <1>5, <1>6 DEF k

LEMMA Relogged ==
  ASSUME NEW n, NEW told, NEW cycle, NEW isMarker,
         Good(n, Extend(told, cycle, n.timeline, isMarker))
  PROVE  /\ Good(n, Logged(told, n, cycle, isMarker))
         /\ DOMAIN Logged(told, n, cycle, isMarker) = Retained(n)
<1>. DEFINE x == Extend(told, cycle, n.timeline, isMarker)
            l == Logged(told, n, cycle, isMarker)
<1>1. DOMAIN l = Retained(n)
  BY DEF Logged
<1>2. \A id \in Retained(n) : id \in Nat
  <2>1. Retained(n) \subseteq 1 .. n.next_id - 1 /\ n.next_id \in Nat
    BY DEF Retained, Good, Sound, Arenas
  <2>. QED BY <2>1
<1>3. \A id \in Retained(n) : l[id] = x[id]
  BY <1>2 DEF Logged, Extend, Entry
<1>. HIDE DEF x, l
<1>4. Sound(n) /\ Faithful(n, x)
  BY DEF Good, x
<1>5. Faithful(n, l)
  BY <1>1, <1>3, <1>4, RecordRetained DEF Faithful
<1>. QED BY <1>1, <1>4, <1>5 DEF Good, l

-----------------------------------------------------------------------------
(* The active record: an access, completion.                               *)

Block(a) == a.blocks[a.active]
Last(a) == Block(a).records[Len(Block(a).records)]
WithLast(a, r) == [Block(a).records EXCEPT ![Len(Block(a).records)] = r]
Changed(a, r, u, p) == [Block(a) EXCEPT !.records = WithLast(a, r), !.used = u,
                                        !.partial_count = p]

LEMMA BlockIs ==
  ASSUME NEW a, Sound(a), a.active # NoBlock
  PROVE  LET k == Block(a)
             m == Len(k.records)
         IN /\ a.active \in Blocks /\ k \in BlockKind /\ k.records \in Seq(RecordType)
            /\ m \in Nat \ {0} /\ m \in DOMAIN k.records /\ DOMAIN k.records = 1 .. m
            /\ Last(a) \in RecordType
            /\ k.first_id \in Nat /\ k.last_id \in Nat /\ k.first_id + m - 1 = a.next_id - 1
            /\ k.last_id = a.next_id - 1 /\ k.used \in 0 .. BlockSize
<1>. DEFINE k == Block(a)
            m == Len(k.records)
<1>1. a \in Arenas /\ WellFormed(a) /\ Reserved(a) /\ a.active \in Blocks
  BY DEF Sound, Arenas
<1>2. k \in BlockKind /\ Full(a, a.active) /\ k.last_id = a.next_id - 1
  BY <1>1 DEF Reserved, Arenas, Block
<1>3. k.last_id = k.first_id + Len(k.records) - 1 /\ k.records # <<>>
  BY <1>1, <1>2 DEF WellFormed, Full, Block
<1>. HIDE DEF k
<1>4. /\ k.records \in Seq(RecordType) /\ k.first_id \in Nat /\ k.last_id \in Nat
      /\ k.used \in 0 .. BlockSize
  BY <1>2 DEF BlockKind
<1>5. m \in Nat \ {0} /\ m \in DOMAIN k.records /\ DOMAIN k.records = 1 .. m
      /\ k.records[m] \in RecordType
  BY <1>3, <1>4
<1>. QED BY <1>1, <1>2, <1>3, <1>4, <1>5 DEF k, Last

Replaced(a, x, r, u, p) ==
  [a EXCEPT !.active = x, !.blocks = [a.blocks EXCEPT ![a.active] = Changed(a, r, u, p)]]
Retold(told, a, l) == [told EXCEPT ![a.next_id - 1] = l]

\* When the active record of a may become r, of which the log tells l ...
MayReplace(a, told, x, r, u, p, l) ==
  /\ Good(a, told) /\ a.active # NoBlock
  /\ r \in RecordType /\ u \in 0 .. BlockSize /\ p \in Nat /\ x \in {a.active, NoBlock}
  /\ p = Cardinality(Partials(WithLast(a, r)))
  /\ x # NoBlock => /\ u + (MaxAccesses - r.accesses) * AccessSize <= BlockSize
                    /\ r.partial = TRUE
  /\ Tells(Block(a), r, l)

\* ... and what the arena n and the log new are then.
SameRecords(n, new, a, told) ==
  /\ Good(n, new) /\ DOMAIN new = DOMAIN told
  /\ n.next_id = a.next_id /\ SameHead(n, a)
  /\ \A id : Held(n, id) <=> Held(a, id)

LEMMA LastReplaced ==
  ASSUME NEW a, NEW told, NEW x, NEW r, NEW u, NEW p, NEW l,
         MayReplace(a, told, x, r, u, p, l)
  PROVE  /\ SameRecords(Replaced(a, x, r, u, p), Retold(told, a, l), a, told)
         /\ Replaced(a, x, r, u, p).active = x
<1>. DEFINE f == a.active
            k == Block(a)
            m == Len(k.records)
            z == WithLast(a, r)
            g == Changed(a, r, u, p)
            n == Replaced(a, x, r, u, p)
            new == Retold(told, a, l)
<1>. USE DEF MayReplace
<1>1. Sound(a) /\ Faithful(a, told) /\ a \in Arenas
  BY DEF Good, Sound
<1>2. /\ f \in Blocks /\ k \in BlockKind /\ k.records \in Seq(RecordType)
      /\ m \in Nat \ {0} /\ m \in DOMAIN k.records /\ DOMAIN k.records = 1 .. m
      /\ k.first_id \in Nat /\ k.last_id \in Nat /\ k.first_id + m - 1 = a.next_id - 1
      /\ k.last_id = a.next_id - 1
  BY <1>1, BlockIs
<1>3. k = a.blocks[f]
  BY DEF Block
<1>4. /\ z \in Seq(RecordType) /\ Len(z) = m /\ DOMAIN z = 1 .. m /\ z[m] = r
      /\ \A i \in 1 .. m : i # m => z[i] = k.records[i]
  <2>1. z = [k.records EXCEPT ![m] = r]
    BY DEF WithLast
  <2>. HIDE DEF k, z
  <2>2. z \in [1 .. m -> RecordType] /\ z[m] = r /\ \A i \in 1 .. m : i # m => z[i] = k.records[i]
    BY <1>2, <2>1
  <2>. HIDE DEF m
  <2>3. \A s : s \in [1 .. m -> RecordType] =>
          s \in Seq(RecordType) /\ Len(s) = m /\ DOMAIN s = 1 .. m
    BY <1>2
  <2>. QED BY <2>2, <2>3
<1>5. g = [k EXCEPT !.records = z, !.used = u, !.partial_count = p]
  BY DEF Changed
<1>. HIDE DEF f, k, z, g, n
<1>6. /\ g \in BlockKind /\ g.records = z /\ g.used = u /\ g.partial_count = p
      /\ g.first_id = k.first_id /\ g.last_id = k.last_id /\ g.epoch = k.epoch
      /\ g.timeline = k.timeline /\ g.base_cycle = k.base_cycle /\ g.occupied = k.occupied
  BY <1>2, <1>4, <1>5 DEF BlockKind
<1>7. /\ n \in Arenas /\ n.active = x /\ n.next_id = a.next_id /\ SameHead(n, a)
      /\ n.current = a.current /\ n.epoch = a.epoch /\ n.retain_oldest_id = a.retain_oldest_id
      /\ n.blocks = [a.blocks EXCEPT ![f] = g]
  <2>. DEFINE bs == [a.blocks EXCEPT ![f] = g]
  <2>1. bs \in [Blocks -> BlockKind]
    BY <1>1, <1>2, <1>6 DEF Arenas
  <2>2. n = [a EXCEPT !.active = x, !.blocks = bs]
    BY DEF f, g, n, Replaced
  <2>3. x \in Blocks \cup {NoBlock}
    BY <1>2 DEF f
  <2>. HIDE DEF bs
  <2>4. /\ n \in Arenas /\ n.active = x /\ n.next_id = a.next_id /\ SameHead(n, a)
        /\ n.current = a.current /\ n.epoch = a.epoch /\ n.retain_oldest_id = a.retain_oldest_id
        /\ n.blocks = bs
    BY <1>1, <2>1, <2>2, <2>3 DEF Arenas, SameHead
  <2>. QED BY <2>4 DEF bs
<1>8. n.blocks[f] = g /\ \A b \in Blocks : b # f => n.blocks[b] = a.blocks[b]
  BY <1>1, <1>2, <1>7 DEF Arenas
<1>9. k.records # <<>> /\ z # <<>>
  BY <1>2, <1>4
<1>10. \A b \in Blocks : /\ n.blocks[b].first_id = a.blocks[b].first_id
                          /\ n.blocks[b].last_id = a.blocks[b].last_id
                          /\ Len(n.blocks[b].records) = Len(a.blocks[b].records)
                          /\ n.blocks[b].epoch = a.blocks[b].epoch
  <2>. TAKE b \in Blocks
  <2>1. CASE b = f
    BY <1>3, <1>4, <1>6, <1>8, <1>9, <2>1
  <2>2. CASE b # f
    BY <1>8, <2>2
  <2>. QED BY <2>1, <2>2
<1>20. \A b \in Blocks : Full(n, b) <=> Full(a, b)
  <2>. TAKE b \in Blocks
  <2>1. CASE b = f
    BY <1>3, <1>6, <1>8, <1>9, <2>1 DEF Full
  <2>2. CASE b # f
    BY <1>8, <2>2 DEF Full
  <2>. QED BY <2>1, <2>2
<1>21. \A b \in Blocks : n.blocks[b].occupied <=> a.blocks[b].occupied
  BY <1>3, <1>6, <1>8
<1>11. WellFormed(n)
  <2>0. WellFormed(a)
    BY <1>1 DEF Sound
  <2>1. \A b \in Blocks : n.blocks[b].partial_count = Cardinality(Partials(n.blocks[b].records))
    <3>. TAKE b \in Blocks
    <3>1. CASE b = f
      BY <1>6, <1>8, <3>1 DEF z
    <3>2. CASE b # f
      BY <1>8, <2>0, <3>2 DEF WellFormed
    <3>. QED BY <3>1, <3>2
  <2>2. ASSUME NEW b \in Blocks
        PROVE  LET q == n.blocks[b] IN
                 /\ ~Full(n, b) => q.first_id = 0 /\ q.last_id = 0
                 /\ Full(n, b) => /\ q.occupied /\ q.epoch = n.epoch /\ q.first_id >= 1
                                  /\ q.last_id = q.first_id + Len(q.records) - 1
                                  /\ q.last_id < n.next_id
                 /\ q.epoch = n.epoch => q.occupied
    <3>1. LET q == a.blocks[b] IN
            /\ ~Full(a, b) => q.first_id = 0 /\ q.last_id = 0
            /\ Full(a, b) => /\ q.occupied /\ q.epoch = a.epoch /\ q.first_id >= 1
                             /\ q.last_id = q.first_id + Len(q.records) - 1
                             /\ q.last_id < a.next_id
            /\ q.epoch = a.epoch => q.occupied
      BY <2>0 DEF WellFormed
    <3>2. n.blocks[b].occupied <=> a.blocks[b].occupied
      BY <1>21
    <3>3. Full(n, b) <=> Full(a, b)
      BY <1>20
    <3>4. /\ n.blocks[b].first_id = a.blocks[b].first_id
          /\ n.blocks[b].last_id = a.blocks[b].last_id
          /\ Len(n.blocks[b].records) = Len(a.blocks[b].records)
          /\ n.blocks[b].epoch = a.blocks[b].epoch
      BY <1>10
    <3>5. CASE Full(a, b)
      BY <1>7, <3>1, <3>2, <3>3, <3>4, <3>5
    <3>6. CASE ~Full(a, b)
      BY <1>7, <3>1, <3>2, <3>3, <3>4, <3>6
    <3>. QED BY <3>5, <3>6
  <2>3. n.retain_oldest_id < n.next_id /\ (n.current = NoBlock => \A b \in Blocks : ~Full(n, b))
    BY <1>7, <1>20, <2>0 DEF WellFormed
  <2>. QED BY <2>1, <2>2, <2>3 DEF WellFormed
<1>12. Ordered(n)
  <2>1. \A b \in Blocks : Age(n, b) = Age(a, b)
    BY <1>7 DEF Age
  <2>2. Ordered(a)
    BY <1>1 DEF Sound
  <2>. QED BY <1>10, <1>20, <2>1, <2>2 DEF Ordered
<1>13. \A id : Held(n, id) <=> Held(a, id)
  <2>1. \A b \in Blocks : \A id : Holds(n, b, id) <=> Holds(a, b, id)
    BY <1>10, <1>20, Zenon DEF Holds
  <2>. QED BY <2>1, Zenon DEF Held
<1>14. Covered(n)
  <2>1. PICK lo \in Nat \ {0} : CoveredFrom(a, lo)
    BY <1>1 DEF Sound, Covered
  <2>2. CoveredFrom(n, lo)
    BY <1>7, <1>10, <1>13, <1>20, <2>1 DEF CoveredFrom
  <2>. QED BY <2>2 DEF Covered
<1>15. Reserved(n)
  <2>. SUFFICES ASSUME x # NoBlock PROVE Reserved(n)
    BY <1>7 DEF Reserved
  <2>1. x = f /\ f = a.current /\ Full(a, f)
    BY <1>1 DEF Sound, Reserved, f
  <2>2. n.blocks[n.active] = g /\ g.records[Len(g.records)] = r
    BY <1>4, <1>6, <1>7, <1>8, <2>1
  <2>3. Full(n, n.active)
    BY <1>2, <1>7, <1>20, <2>1
  <2>4. g.last_id = n.next_id - 1 /\ n.active = n.current
    BY <1>2, <1>6, <1>7, <2>1
  <2>. QED BY <1>6, <2>2, <2>3, <2>4 DEF Reserved
<1>16. Holds(a, f, a.next_id - 1) /\ a.next_id - 1 \in Nat \ {0}
  BY <1>1, ActiveHeld DEF f
<1>17. a.next_id - 1 \in DOMAIN told
  <2>1. m \in DOMAIN a.blocks[f].records /\ a.blocks[f].first_id + m - 1 = a.next_id - 1
    BY <1>2, <1>3
  <2>2. \A i \in DOMAIN a.blocks[f].records : a.blocks[f].first_id + i - 1 \in DOMAIN told
    BY <1>1, <1>2 DEF Faithful
  <2>. QED BY <2>1, <2>2
<1>18. /\ DOMAIN new = DOMAIN told /\ new[a.next_id - 1] = l
       /\ \A id \in DOMAIN told : id # a.next_id - 1 => new[id] = told[id]
  BY <1>17 DEF Retold
<1>. HIDE DEF new
<1>19. Faithful(n, new)
  <2>. SUFFICES ASSUME NEW b \in Blocks, NEW i \in DOMAIN n.blocks[b].records
                PROVE  LET id == n.blocks[b].first_id + i - 1 IN
                         /\ id \in DOMAIN new
                         /\ Tells(n.blocks[b], n.blocks[b].records[i], new[id])
    BY DEF Faithful
  <2>1. CASE b # f
    <3>. DEFINE id == a.blocks[b].first_id + i - 1
    <3>1. n.blocks[b] = a.blocks[b] /\ i \in DOMAIN a.blocks[b].records
      BY <1>8, <2>1
    <3>2. id \in DOMAIN told /\ Tells(a.blocks[b], a.blocks[b].records[i], told[id])
      BY <1>1, <3>1 DEF Faithful
    <3>3. Holds(a, b, id)
      BY <1>1, <3>1, RecordRetained
    <3>4. id # a.next_id - 1
      BY <1>1, <1>2, <1>16, <2>1, <3>3, Apart
    <3>. QED BY <1>18, <3>1, <3>2, <3>4
  <2>2. CASE b = f /\ i # m
    <3>. DEFINE id == k.first_id + i - 1
    <3>1. i \in 1 .. m /\ g.records[i] = k.records[i] /\ i \in DOMAIN a.blocks[f].records
      BY <1>2, <1>3, <1>4, <1>6, <1>8, <2>2
    <3>2. id \in DOMAIN told /\ Tells(k, k.records[i], told[id])
      BY <1>1, <1>2, <1>3, <3>1 DEF Faithful
    <3>3. id # a.next_id - 1
      BY <1>2, <2>2, <3>1
    <3>4. Tells(g, k.records[i], told[id])
      BY <1>6, <3>2 DEF Tells
    <3>. QED BY <1>6, <1>8, <1>18, <2>2, <3>1, <3>2, <3>3, <3>4
  <2>3. CASE b = f /\ i = m
    <3>1. g.first_id + m - 1 = a.next_id - 1 /\ g.records[m] = r
      BY <1>2, <1>4, <1>6
    <3>2. Tells(k, r, l)
      BY DEF k
    <3>3. Tells(g, r, l)
      BY <1>6, <3>2 DEF Tells
    <3>. QED BY <1>8, <1>17, <1>18, <2>3, <3>1, <3>3
  <2>. QED BY <2>1, <2>2, <2>3
<1>. QED BY <1>7, <1>11, <1>12, <1>13, <1>14, <1>15, <1>18, <1>19 DEF Good, Sound, new, n, SameRecords

\* The newest record is the one the log has under the newest id.
LEMMA LastTold ==
  ASSUME NEW a, NEW told, Good(a, told), a.active # NoBlock
  PROVE  a.next_id - 1 \in DOMAIN told /\ Tells(Block(a), Last(a), told[a.next_id - 1])
<1>. DEFINE m == Len(Block(a).records)
<1>1. /\ a.active \in Blocks /\ m \in DOMAIN Block(a).records
      /\ Block(a).first_id + m - 1 = a.next_id - 1
  BY BlockIs DEF Good
<1>2. LET id == Block(a).first_id + m - 1 IN
        id \in DOMAIN told /\ Tells(Block(a), Block(a).records[m], told[id])
  BY <1>1 DEF Good, Faithful, Block
<1>. HIDE DEF m
<1>. QED BY <1>1, <1>2 DEF Last, m

\* What replacing the last record does to the partial ones.
LEMMA PartialsReplaced ==
  ASSUME NEW a, Sound(a), a.active # NoBlock, NEW r \in RecordType
  PROVE  LET k == Block(a)
             m == Len(k.records)
         IN /\ r.partial = Last(a).partial => Partials(WithLast(a, r)) = Partials(k.records)
            /\ r.partial = FALSE => Partials(WithLast(a, r)) = Partials(k.records) \ {m}
<1>. DEFINE q == Block(a).records
            m == Len(q)
            z == WithLast(a, r)
<1>1. q \in Seq(RecordType) /\ m \in DOMAIN q
  BY BlockIs
<1>2. z = [q EXCEPT ![m] = r] /\ Last(a) = q[m]
  BY DEF WithLast, Last
<1>. HIDE DEF q, z, m
<1>3. DOMAIN z = DOMAIN q /\ z[m] = r /\ \A i \in DOMAIN q : i # m => z[i] = q[i]
  BY <1>1, <1>2
<1>4. r.partial = Last(a).partial => Partials(z) = Partials(q)
  <2>. SUFFICES ASSUME r.partial = q[m].partial PROVE Partials(z) = Partials(q)
    BY <1>2
  <2>1. \A i \in DOMAIN q : z[i].partial = q[i].partial
    BY <1>3
  <2>. QED BY <1>3, <2>1 DEF Partials
<1>5. r.partial = FALSE => Partials(z) = Partials(q) \ {m}
  <2>. SUFFICES ASSUME r.partial = FALSE PROVE Partials(z) = Partials(q) \ {m}
    OBVIOUS
  <2>1. ~z[m].partial
    BY <1>3
  <2>. QED BY <1>1, <1>3, <2>1 DEF Partials
<1>. QED BY <1>4, <1>5 DEF q, z, m

LEMMA RestKept ==
  ASSUME NEW k \in BlockKind, NEW z \in Seq(RecordType), NEW u \in Nat
  PROVE  /\ [k EXCEPT !.records = z] =
              [k EXCEPT !.records = z, !.used = k.used, !.partial_count = k.partial_count]
         /\ [k EXCEPT !.records = z, !.used = u] =
              [k EXCEPT !.records = z, !.used = u, !.partial_count = k.partial_count]
BY DEF BlockKind

LEMMA AccessGood ==
  ASSUME NEW a, NEW told, Good(a, told), a.active # NoBlock,
         told[a.next_id - 1].accesses <= MaxAccesses
  PROVE  LET n == AppendAccess(a)
             new == [told EXCEPT ![a.next_id - 1].accesses = @ + 1]
         IN SameRecords(n, new, a, told) /\ n.active = a.active
<1>. DEFINE f == a.active
            k == Block(a)
            m == Len(k.records)
            v == Last(a)
            e == told[a.next_id - 1]
            l == [e EXCEPT !.accesses = @ + 1]
            full == v.accesses >= MaxAccesses
            r == IF full THEN [v EXCEPT !.truncated = TRUE] ELSE [v EXCEPT !.accesses = @ + 1]
            u == IF full THEN k.used ELSE k.used + AccessSize
            n == AppendAccess(a)
            new == [told EXCEPT ![a.next_id - 1].accesses = @ + 1]
<1>1. Sound(a) /\ a \in Arenas /\ WellFormed(a) /\ Reserved(a)
  BY DEF Good, Sound
<1>2. /\ f \in Blocks /\ k \in BlockKind /\ v \in RecordType /\ k.used \in 0 .. BlockSize
      /\ m \in DOMAIN k.records /\ k = a.blocks[f] /\ v = k.records[m]
  BY <1>1, BlockIs DEF Block, Last
<1>3. a.next_id - 1 \in DOMAIN told /\ Tells(k, v, e)
  BY LastTold
<1>4. new = [told EXCEPT ![a.next_id - 1] = l]
  BY <1>3
<1>6. /\ e \in Entries /\ e.accesses \in 0 .. MaxAccesses /\ v.accesses = e.accesses
      /\ MaxAccesses \in Nat /\ AccessSize \in Nat \ {0} /\ BlockSize \in Nat
  BY <1>3, SizeAssumption DEF Tells, Entries
<1>7. k.used + (MaxAccesses - v.accesses) * AccessSize <= BlockSize
  BY <1>1 DEF Reserved, Block, Last
<1>8. v.partial = TRUE
  BY <1>1 DEF Reserved, Block, Last
<1>9. r \in RecordType /\ r.partial = TRUE
  <2>. HIDE DEF v, e
  <2>1. CASE full
    BY <1>2, <1>8, <2>1 DEF RecordType
  <2>2. CASE ~full
    <3>. DEFINE y == v.accesses + 1
    <3>1. y \in 0 .. MaxAccesses
      BY <1>6, <2>2
    <3>2. r = [v EXCEPT !.accesses = y]
      BY <2>2
    <3>. HIDE DEF y, r
    <3>. QED BY <1>2, <1>8, <3>1, <3>2 DEF RecordType
  <2>. QED BY <2>1, <2>2
<1>10. u \in 0 .. BlockSize /\ u + (MaxAccesses - r.accesses) * AccessSize <= BlockSize
  <2>1. k.used \in Nat /\ v.accesses \in Nat
    BY <1>2, <1>6
  <2>2. CASE full
    <3>1. r.accesses = v.accesses /\ u = k.used
      BY <1>2, <2>2 DEF RecordType
    <3>. QED BY <1>2, <1>7, <3>1
  <2>3. CASE ~full
    <3>1. r.accesses = v.accesses + 1 /\ u = k.used + AccessSize
      BY <1>2, <2>3 DEF RecordType
    <3>. DEFINE w == MaxAccesses - v.accesses
    <3>2. w \in Nat \ {0} /\ MaxAccesses - r.accesses = w - 1
      BY <1>6, <2>1, <2>3, <3>1
    <3>. HIDE DEF w
    <3>3. w * AccessSize \in Nat /\ w * AccessSize >= AccessSize
          /\ (w - 1) * AccessSize = w * AccessSize - AccessSize
      BY <1>6, <3>2
    <3>4. k.used + w * AccessSize <= BlockSize
      BY <1>7 DEF w
    <3>5. u \in Nat /\ u <= BlockSize
      BY <1>6, <2>1, <3>1, <3>3, <3>4
    <3>6. u + (w - 1) * AccessSize <= BlockSize
      BY <1>6, <2>1, <3>1, <3>3, <3>4
    <3>. QED BY <1>6, <3>2, <3>5, <3>6
  <2>. QED BY <2>2, <2>3
<1>11. k.partial_count \in Nat /\ k.partial_count = Cardinality(Partials(WithLast(a, r)))
  <2>1. k.partial_count = Cardinality(Partials(k.records)) /\ k.partial_count \in Nat
    BY <1>1, <1>2 DEF WellFormed, BlockKind
  <2>. HIDE DEF r
  <2>2. Partials(WithLast(a, r)) = Partials(k.records)
    BY <1>1, <1>8, <1>9, PartialsReplaced
  <2>. QED BY <2>1, <2>2
<1>12. Tells(k, r, l)
  <2>. HIDE DEF k, v, e
  <2>1. l \in Entries /\ l.accesses = e.accesses + 1 /\ l.cycle = e.cycle /\ l.timeline = e.timeline
    BY <1>6 DEF Entries
  <2>2. l.marker = e.marker /\ l.complete = e.complete
    BY <1>6 DEF Entries
  <2>3. r.delta = v.delta
    BY <1>2 DEF RecordType
  <2>4. r.marker = v.marker /\ r.partial = v.partial
    BY <1>2 DEF RecordType
  <2>5. r.accesses = IF l.accesses <= MaxAccesses THEN l.accesses ELSE MaxAccesses
    BY <1>2, <1>6, <2>1 DEF RecordType
  <2>6. r.truncated = (l.accesses > MaxAccesses)
    <3>1. v.truncated = (e.accesses > MaxAccesses)
      BY <1>3 DEF Tells
    <3>2. CASE full
      <4>1. r.truncated = TRUE
        BY <1>2, <3>2 DEF RecordType
      <4>2. l.accesses > MaxAccesses
        BY <1>6, <2>1, <3>2
      <4>. QED BY <4>1, <4>2
    <3>3. CASE ~full
      <4>1. r.truncated = v.truncated
        BY <1>2, <3>3 DEF RecordType
      <4>2. (l.accesses > MaxAccesses) = FALSE /\ (e.accesses > MaxAccesses) = FALSE
        BY <1>6, <2>1, <3>3
      <4>. HIDE DEF l, r
      <4>. QED BY <3>1, <4>1, <4>2, Zenon
    <3>. QED BY <3>2, <3>3
  <2>. HIDE DEF l, r
  <2>7. v.marker = e.marker /\ v.partial = ~e.complete
    BY <1>3 DEF Tells
  <2>8. r.marker = l.marker /\ r.partial = ~l.complete
    BY <2>2, <2>4, <2>7
  <2>9. l.cycle = k.base_cycle + r.delta /\ l.timeline = k.timeline
    BY <1>3, <2>1, <2>3 DEF Tells
  <2>. QED BY <2>1, <2>5, <2>6, <2>8, <2>9 DEF Tells
<1>13. n = [a EXCEPT !.active = f, !.blocks = [a.blocks EXCEPT ![f] = Changed(a, r, u, k.partial_count)]]
  <2>. DEFINE c == Changed(a, r, u, k.partial_count)
              d == IF full THEN [k EXCEPT !.records[m].truncated = TRUE]
                   ELSE [k EXCEPT !.records[m].accesses = @ + 1, !.used = @ + AccessSize]
  <2>0. [k.records EXCEPT ![m] = r] \in Seq(RecordType)
    <3>. HIDE DEF r
    <3>1. k.records \in Seq(RecordType)
      BY <1>1, BlockIs
    <3>. HIDE DEF k
    <3>. QED BY <1>2, <1>9, <3>1
  <2>1. n = [a EXCEPT !.blocks[f] = d]
    BY <1>2 DEF AppendAccess
  <2>2. c = [k EXCEPT !.records = [k.records EXCEPT ![m] = r], !.used = u, !.partial_count = k.partial_count]
    BY DEF Changed, WithLast
  <2>3. d = c
    <3>1. CASE full
      <4>1. r = [v EXCEPT !.truncated = TRUE] /\ u = k.used
        BY <3>1
      <4>2. d = [k EXCEPT !.records = [k.records EXCEPT ![m] = r]]
        BY <1>2, <3>1, <4>1
      <4>. HIDE DEF r, u, k, v, full, c, d
      <4>. QED BY <1>2, <2>0, <2>2, <4>1, <4>2, RestKept
    <3>2. CASE ~full
      <4>1. r = [v EXCEPT !.accesses = @ + 1] /\ u = k.used + AccessSize
        BY <3>2
      <4>2. d = [k EXCEPT !.records = [k.records EXCEPT ![m] = r], !.used = u]
        BY <1>2, <3>2, <4>1
      <4>3. u \in Nat
        BY <1>10
      <4>. HIDE DEF r, u, k, v, full, c, d
      <4>. QED BY <1>2, <2>0, <2>2, <4>2, <4>3, RestKept
    <3>. QED BY <3>1, <3>2
  <2>. HIDE DEF c, d, n
  <2>4. n = [a EXCEPT !.active = a.active, !.blocks = [a.blocks EXCEPT ![f] = c]]
    BY <1>1, <2>1, <2>3 DEF Arenas
  <2>. QED BY <2>4 DEF c
<1>14. f \in {a.active, NoBlock}
  OBVIOUS
<1>. DEFINE new2 == Retold(told, a, l)
            p == k.partial_count
<1>15. p \in Nat /\ p = Cardinality(Partials(WithLast(a, r)))
  BY <1>11
<1>16. n = Replaced(a, f, r, u, p)
  BY <1>13 DEF Replaced
<1>17. Tells(Block(a), r, l) /\ new = new2
  BY <1>4, <1>12 DEF Retold
<1>. HIDE DEF r, u, l, n, new, p, f
<1>19. f # NoBlock => /\ u + (MaxAccesses - r.accesses) * AccessSize <= BlockSize
                       /\ r.partial = TRUE
  BY <1>9, <1>10
<1>20. u \in 0 .. BlockSize /\ r \in RecordType
  BY <1>9, <1>10
<1>18. MayReplace(a, told, f, r, u, p, l)
  BY <1>14, <1>15, <1>17, <1>19, <1>20 DEF MayReplace
<1>21. SameRecords(n, new, a, told) /\ n.active = a.active
  BY <1>16, <1>17, <1>18, LastReplaced DEF f
<1>. QED BY <1>21 DEF n, new

LEMMA CompleteGood ==
  ASSUME NEW a, NEW told, Good(a, told), a.active # NoBlock
  PROVE  LET n == CompleteRecord(a)
             new == [told EXCEPT ![a.next_id - 1].complete = TRUE]
         IN SameRecords(n, new, a, told) /\ n.active = NoBlock
<1>. DEFINE f == a.active
            k == Block(a)
            m == Len(k.records)
            v == Last(a)
            e == told[a.next_id - 1]
            l == [e EXCEPT !.complete = TRUE]
            r == [v EXCEPT !.partial = FALSE]
            p == k.partial_count - 1
            n == CompleteRecord(a)
            new == [told EXCEPT ![a.next_id - 1].complete = TRUE]
<1>1. Sound(a) /\ a \in Arenas /\ WellFormed(a) /\ Reserved(a)
  BY DEF Good, Sound
<1>2. /\ f \in Blocks /\ k \in BlockKind /\ v \in RecordType /\ k.used \in 0 .. BlockSize
      /\ m \in DOMAIN k.records /\ k = a.blocks[f] /\ v = k.records[m]
      /\ k.records \in Seq(RecordType)
  BY <1>1, BlockIs DEF Block, Last
<1>3. a.next_id - 1 \in DOMAIN told /\ Tells(k, v, e)
  BY LastTold
<1>4. v.partial = TRUE
  BY <1>1 DEF Reserved, Block, Last
<1>5. r \in RecordType /\ r.partial = FALSE
  <2>. HIDE DEF v
  <2>. QED BY <1>2 DEF RecordType
<1>6. /\ p \in Nat /\ p = Cardinality(Partials(WithLast(a, r))) /\ k.partial_count > 0
  <2>1. k.partial_count = Cardinality(Partials(k.records)) /\ k.partial_count \in Nat
    BY <1>1, <1>2 DEF WellFormed, BlockKind
  <2>. HIDE DEF r
  <2>2. Partials(WithLast(a, r)) = Partials(k.records) \ {m}
    BY <1>1, <1>5, PartialsReplaced
  <2>3. m \in Partials(k.records)
    BY <1>2, <1>4 DEF Partials
  <2>4. IsFiniteSet(Partials(k.records))
    BY <1>2, PartialsFinite
  <2>. HIDE DEF m, k
  <2>5. Cardinality(Partials(k.records) \ {m}) = Cardinality(Partials(k.records)) - 1
    BY <2>3, <2>4, FS_RemoveElement
  <2>6. Cardinality(Partials(k.records)) # 0
    BY <2>3, <2>4, FS_EmptySet
  <2>. QED BY <2>1, <2>2, <2>5, <2>6
<1>7. Tells(k, r, l)
  <2>. HIDE DEF k, v, e
  <2>1. e \in Entries
    BY <1>3 DEF Tells
  <2>2. /\ l \in Entries /\ l.accesses = e.accesses /\ l.cycle = e.cycle /\ l.timeline = e.timeline
        /\ l.marker = e.marker
    BY <2>1 DEF Entries
  <2>3. l.complete = TRUE
    BY <2>1 DEF Entries
  <2>4. /\ r.delta = v.delta /\ r.marker = v.marker /\ r.accesses = v.accesses
        /\ r.truncated = v.truncated
    BY <1>2 DEF RecordType
  <2>. HIDE DEF l, r
  <2>5. r.partial = ~l.complete
    BY <1>5, <2>3
  <2>6. r.truncated = (l.accesses > MaxAccesses) /\ r.marker = l.marker
    BY <1>3, <2>2, <2>4, Zenon DEF Tells
  <2>7. r.accesses = (IF l.accesses <= MaxAccesses THEN l.accesses ELSE MaxAccesses)
    BY <1>3, <2>2, <2>4, Zenon DEF Tells
  <2>8. l.cycle = k.base_cycle + r.delta /\ l.timeline = k.timeline
    BY <1>3, <2>2, <2>4, Zenon DEF Tells
  <2>. QED BY <2>2, <2>5, <2>6, <2>7, <2>8 DEF Tells
<1>8. n = Replaced(a, NoBlock, r, k.used, p)
  <2>. DEFINE c == Changed(a, r, k.used, p)
              d == [k EXCEPT !.records[m].partial = FALSE, !.partial_count = p]
              z == [k.records EXCEPT ![m] = r]
  <2>1. n = [a EXCEPT !.active = NoBlock, !.blocks[f] = d]
    BY <1>2, <1>4, <1>6 DEF CompleteRecord
  <2>2. c = [k EXCEPT !.records = z, !.used = k.used, !.partial_count = p]
    BY DEF Changed, WithLast
  <2>3. d = [k EXCEPT !.records = z, !.partial_count = p]
    BY <1>2
  <2>4. d = c
    <3>. HIDE DEF z, k, p, c, d
    <3>. QED BY <1>2, <2>2, <2>3 DEF BlockKind
  <2>. HIDE DEF c, d, n
  <2>5. n = [a EXCEPT !.active = NoBlock, !.blocks = [a.blocks EXCEPT ![f] = c]]
    BY <1>1, <2>1, <2>4 DEF Arenas
  <2>. QED BY <2>5 DEF c, Replaced
<1>9. new = Retold(told, a, l)
  BY <1>3 DEF Retold
<1>10. MayReplace(a, told, NoBlock, r, k.used, p, l)
  <2>. HIDE DEF r, l, p
  <2>. QED BY <1>2, <1>5, <1>6, <1>7 DEF MayReplace
<1>. HIDE DEF r, l, p, n, new
<1>11. SameRecords(n, new, a, told) /\ n.active = NoBlock
  BY <1>8, <1>9, <1>10, LastReplaced
<1>. QED BY <1>11 DEF n, new

-----------------------------------------------------------------------------
(* Cutting and clearing.                                                   *)

LEMMA AdvanceGood ==
  ASSUME NEW a, NEW told, Good(a, told), a.active = NoBlock, NEW cycle \in 0 .. MaxClock
  PROVE  LET n == AdvanceBlock(a, cycle) IN
         Good(n, told) /\ SameHead(n, a) /\ n.next_id = a.next_id /\ n.active = NoBlock
<1>. DEFINE n == AdvanceBlock(a, cycle)
            f == Following(a)
            k == Fresh(a, cycle)
            bs == [a.blocks EXCEPT ![f] = k]
<1>1. a \in Arenas /\ Faithful(a, told) /\ Sound(n)
  BY AdvanceSound DEF Good, Sound
<1>2. f \in Blocks /\ k.records = <<>>
  BY <1>1, FollowingIs, FreshKind
<1>3. n = [a EXCEPT !.current = f, !.blocks = bs]
  BY <1>1, AdvanceIs
<1>. HIDE DEF f, k, n
<1>4. \A b \in Blocks : bs[b] = IF b = f THEN k ELSE a.blocks[b]
  BY <1>1, <1>2 DEF Arenas
<1>. HIDE DEF bs
<1>5. n.blocks = bs /\ n.active = NoBlock /\ n.next_id = a.next_id /\ SameHead(n, a)
  BY <1>1, <1>3 DEF Arenas, SameHead
<1>6. ASSUME NEW b \in Blocks, NEW i \in DOMAIN n.blocks[b].records
      PROVE  n.blocks[b] = a.blocks[b]
  BY <1>2, <1>4, <1>5, <1>6
<1>7. Faithful(n, told)
  BY <1>1, <1>6 DEF Faithful
<1>. QED BY <1>1, <1>5, <1>7 DEF Good, n

LEMMA AgesDiffer ==
  ASSUME NEW a \in Arenas, a.current # NoBlock, NEW b \in Blocks, NEW c \in Blocks, b # c
  PROVE  Age(a, b) < Age(a, c) \/ Age(a, c) < Age(a, b)
<1>1. b \in 0 .. BlockCount - 1 /\ c \in 0 .. BlockCount - 1 /\ a.current \in 0 .. BlockCount - 1
      /\ BlockCount \in Nat
  BY SizeAssumption DEF Blocks, Arenas
<1>. QED BY <1>1 DEF Age

\* Retaining from a record keeps its block and the younger ones.
LEMMA RetainGood ==
  ASSUME NEW a, NEW told, Good(a, told), a.active = NoBlock, NEW id \in Nat \ {0}, Held(a, id)
  PROVE  LET n == RetainFrom(a, id) IN
         /\ Good(n, told) /\ n.next_id = a.next_id /\ n.active = NoBlock
         /\ n.epoch = a.epoch /\ n.timeline = a.timeline /\ n.recording = a.recording
         /\ Held(n, id)
<1>. DEFINE n == RetainFrom(a, id)
            gone(b) == a.blocks[b].occupied /\ a.blocks[b].epoch = a.epoch /\ a.blocks[b].last_id < id
            bs == [b \in Blocks |-> IF gone(b) THEN EmptyBlock ELSE a.blocks[b]]
<1>1. Sound(a) /\ a \in Arenas /\ WellFormed(a) /\ Ordered(a) /\ Covered(a) /\ Faithful(a, told)
  BY DEF Good, Sound
<1>2. n = [a EXCEPT !.retain_oldest_id = id, !.blocks = bs]
  BY <1>1, FindIs DEF RetainFrom, Arenas
<1>3. bs \in [Blocks -> BlockKind]
  BY <1>1, EmptyKind DEF Arenas
<1>4. \A b \in Blocks : IF gone(b) THEN bs[b] = EmptyBlock ELSE bs[b] = a.blocks[b]
  OBVIOUS
<1>. HIDE DEF bs, n
<1>5. /\ n \in Arenas /\ n.blocks = bs /\ n.retain_oldest_id = id /\ n.current = a.current
      /\ n.next_id = a.next_id /\ n.active = NoBlock
      /\ n.epoch = a.epoch /\ n.timeline = a.timeline /\ n.recording = a.recording
  BY <1>1, <1>2, <1>3 DEF Arenas
<1>6. \A b \in Blocks : Full(n, b) => ~gone(b) /\ Full(a, b) /\ n.blocks[b] = a.blocks[b]
  BY <1>4, <1>5, EmptyKind DEF Full
<1>7. \A b \in Blocks : ~gone(b) => n.blocks[b] = a.blocks[b] /\ (Full(n, b) <=> Full(a, b))
  BY <1>4, <1>5 DEF Full
<1>8. \A b \in Blocks : Full(a, b) => (gone(b) <=> a.blocks[b].last_id < id)
  BY <1>1 DEF WellFormed
<1>9. PICK h0 \in Blocks : Holds(a, h0, id)
  BY DEF Held
<1>10. \A b \in Blocks : a.blocks[b].first_id \in Nat /\ a.blocks[b].last_id \in Nat
  BY <1>1 DEF Arenas, BlockKind
<1>11. \A b \in Blocks : Full(a, b) => /\ a.blocks[b].first_id <= a.blocks[b].last_id
                                        /\ a.blocks[b].last_id < a.next_id
  <2>. SUFFICES ASSUME NEW b \in Blocks, Full(a, b)
                PROVE  /\ a.blocks[b].first_id <= a.blocks[b].last_id
                       /\ a.blocks[b].last_id < a.next_id
    OBVIOUS
  <2>. DEFINE k == a.blocks[b]
  <2>1. k.records \in Seq(RecordType) /\ k.records # <<>>
    BY <1>1 DEF Arenas, BlockKind, Full
  <2>2. k.last_id = k.first_id + Len(k.records) - 1 /\ k.last_id < a.next_id
    BY <1>1 DEF WellFormed
  <2>3. k.first_id \in Nat
    BY <1>10
  <2>. HIDE DEF k
  <2>4. Len(k.records) \in Nat \ {0}
    BY <2>1
  <2>5. k.first_id <= k.last_id
    BY <2>2, <2>3, <2>4
  <2>. QED BY <2>2, <2>5 DEF k
<1>12. Full(a, h0) /\ ~gone(h0) /\ Holds(n, h0, id) /\ id < a.next_id
  <2>1. Full(a, h0) /\ a.blocks[h0].first_id <= id /\ id <= a.blocks[h0].last_id
    BY <1>9 DEF Holds
  <2>2. ~(a.blocks[h0].last_id < id)
    BY <1>10, <2>1
  <2>3. ~gone(h0)
    BY <2>2
  <2>4. Holds(n, h0, id)
    BY <1>7, <2>1, <2>3 DEF Holds
  <2>5. id < a.next_id
    <3>1. a.next_id \in Nat /\ a.blocks[h0].last_id < a.next_id
      BY <1>1, <1>11, <2>1 DEF Arenas
    <3>. QED BY <1>10, <2>1, <3>1
  <2>. QED BY <2>1, <2>3, <2>4, <2>5
<1>13. a.current # NoBlock
  BY <1>1, <1>12 DEF WellFormed
<1>14. ASSUME NEW c \in Blocks, Full(a, c), c # h0
       PROVE  \/ a.blocks[c].last_id < a.blocks[h0].first_id
              \/ a.blocks[h0].last_id < a.blocks[c].first_id
  BY <1>1, <1>12, <1>13, <1>14, AgesDiffer DEF Ordered
<1>15. WellFormed(n)
  <2>. DEFINE e == EmptyBlock
  <2>1. e.records = <<>> /\ e.first_id = 0 /\ e.last_id = 0 /\ e.partial_count = 0
    BY EmptyKind
  <2>2. e.epoch # n.epoch
    <3>1. e.epoch = 0
      BY DEF EmptyBlock
    <3>2. n.epoch \in 1 .. MaxEpoch
      BY <1>5 DEF Arenas
    <3>. QED BY <3>1, <3>2
  <2>3. e.partial_count = Cardinality(Partials(e.records))
    BY <2>1, NoPartials
  <2>. HIDE DEF e
  <2>4. ASSUME NEW b \in Blocks
        PROVE  LET q == n.blocks[b] IN
                 /\ ~Full(n, b) => q.first_id = 0 /\ q.last_id = 0
                 /\ Full(n, b) => /\ q.occupied /\ q.epoch = n.epoch /\ q.first_id >= 1
                                  /\ q.last_id = q.first_id + Len(q.records) - 1
                                  /\ q.last_id < n.next_id
                 /\ q.epoch = n.epoch => q.occupied
                 /\ q.partial_count = Cardinality(Partials(q.records))
    <3>1. CASE gone(b)
      <4>1. n.blocks[b] = e /\ ~Full(n, b)
        BY <1>4, <1>5, <1>6, <3>1 DEF e
      <4>. QED BY <2>1, <2>2, <2>3, <4>1
    <3>2. CASE ~gone(b)
      <4>1. n.blocks[b] = a.blocks[b] /\ (Full(n, b) <=> Full(a, b))
        BY <1>7, <3>2
      <4>. HIDE DEF gone
      <4>. QED BY <1>1, <1>5, <4>1 DEF WellFormed
    <3>. QED BY <3>1, <3>2
  <2>5. n.retain_oldest_id < n.next_id
    BY <1>5, <1>12
  <2>6. n.current # NoBlock
    BY <1>5, <1>13
  <2>. QED BY <2>4, <2>5, <2>6 DEF WellFormed
<1>16. Ordered(n)
  <2>1. \A b \in Blocks : Age(n, b) = Age(a, b)
    BY <1>5 DEF Age
  <2>. QED BY <1>1, <1>6, <2>1 DEF Ordered
<1>17. Covered(n)
  <2>. DEFINE lo == a.blocks[h0].first_id
  <2>1. PICK old \in Nat \ {0} : CoveredFrom(a, old)
    BY <1>1 DEF Covered
  <2>2. old <= lo /\ lo \in Nat
    BY <1>10, <1>12, <2>1 DEF CoveredFrom
  <2>3. ASSUME NEW j \in Nat, lo <= j, j < n.next_id
        PROVE  Held(n, j)
    <3>1. Held(a, j)
      BY <1>5, <2>1, <2>2, <2>3 DEF CoveredFrom
    <3>2. PICK c \in Blocks : Holds(a, c, j)
      BY <3>1 DEF Held
    <3>3. Full(a, c) /\ a.blocks[c].first_id <= j /\ j <= a.blocks[c].last_id
      BY <3>2 DEF Holds
    <3>4. ~gone(c)
      <4>1. CASE c = h0
        BY <1>12, <4>1
      <4>2. CASE c # h0
        <5>1. ~(a.blocks[c].last_id < a.blocks[h0].first_id)
          BY <1>10, <2>2, <2>3, <3>3
        <5>2. a.blocks[h0].last_id < a.blocks[c].first_id
          BY <1>14, <3>3, <4>2, <5>1
        <5>3. id <= a.blocks[h0].last_id /\ a.blocks[c].first_id <= a.blocks[c].last_id
          BY <1>9, <1>11, <3>3 DEF Holds
        <5>4. ~(a.blocks[c].last_id < id)
          BY <1>10, <5>2, <5>3
        <5>. QED BY <5>4
      <4>. QED BY <4>1, <4>2
    <3>5. Holds(n, c, j)
      BY <1>7, <3>3, <3>4 DEF Holds
    <3>. QED BY <3>5 DEF Held
  <2>4. ASSUME NEW c \in Blocks, Full(n, c)
        PROVE  lo <= n.blocks[c].first_id
    <3>1. Full(a, c) /\ ~gone(c) /\ n.blocks[c] = a.blocks[c]
      BY <1>6, <2>4
    <3>2. CASE c = h0
      BY <1>10, <3>1, <3>2
    <3>3. CASE c # h0
      <4>1. ~(a.blocks[c].last_id < id)
        BY <1>8, <3>1
      <4>2. a.blocks[h0].first_id <= id /\ a.blocks[h0].first_id <= a.blocks[h0].last_id
        BY <1>9, <1>11, <1>12 DEF Holds
      <4>3. ~(a.blocks[c].last_id < a.blocks[h0].first_id)
        BY <1>10, <4>1, <4>2
      <4>4. a.blocks[h0].last_id < a.blocks[c].first_id
        BY <1>14, <3>1, <3>3, <4>3
      <4>. QED BY <1>10, <3>1, <4>2, <4>4
    <3>. QED BY <3>2, <3>3
  <2>5. lo \in Nat \ {0}
    BY <2>1, <2>2
  <2>6. CoveredFrom(n, lo)
    BY <2>3, <2>4 DEF CoveredFrom
  <2>. HIDE DEF lo
  <2>. QED BY <2>5, <2>6 DEF Covered
<1>18. Reserved(n)
  BY <1>5 DEF Reserved
<1>19. Faithful(n, told)
  <2>1. ASSUME NEW b \in Blocks, NEW i \in DOMAIN n.blocks[b].records
        PROVE  n.blocks[b] = a.blocks[b]
    <3>1. ~gone(b)
      BY <1>4, <1>5, <2>1, EmptyKind
    <3>. QED BY <1>7, <3>1
  <2>. QED BY <1>1, <2>1 DEF Faithful
<1>20. Held(n, id)
  BY <1>12 DEF Held
<1>. QED BY <1>5, <1>15, <1>16, <1>17, <1>18, <1>19, <1>20 DEF Good, Sound, n

\* An epoch starts with an empty arena, which tells nothing.
Cleared(a, timeline) ==
  [a EXCEPT !.blocks = [b \in Blocks |-> EmptyBlock], !.current = NoBlock, !.active = NoBlock,
            !.epoch = @ + 1, !.next_id = 1, !.retain_oldest_id = 0, !.timeline = timeline]

LEMMA ClearedGood ==
  ASSUME NEW a \in Arenas, a.epoch < MaxEpoch, NEW timeline \in 0 .. MaxTimeline, NEW told
  PROVE  LET n == Cleared(a, timeline) IN
         Good(n, told) /\ n.next_id = 1 /\ n.timeline = timeline /\ n.active = NoBlock
<1>. DEFINE n == Cleared(a, timeline)
            e == EmptyBlock
            bs == [b \in Blocks |-> e]
            y == a.epoch + 1
<1>1. /\ e \in BlockKind /\ e.records = <<>> /\ e.first_id = 0 /\ e.last_id = 0
      /\ e.partial_count = 0
  BY EmptyKind
<1>2. bs \in [Blocks -> BlockKind] /\ \A b \in Blocks : bs[b] = e
  BY <1>1
<1>3. y \in 1 .. MaxEpoch
  BY BoundsAssumption DEF Arenas
<1>4. n = [a EXCEPT !.blocks = bs, !.current = NoBlock, !.active = NoBlock,
                    !.epoch = y, !.next_id = 1, !.retain_oldest_id = 0, !.timeline = timeline]
  BY DEF Cleared
<1>10. e.epoch = 0
  BY DEF EmptyBlock
<1>. HIDE DEF n, bs, y, e
<1>5. /\ n \in Arenas /\ n.blocks = bs /\ n.current = NoBlock /\ n.active = NoBlock
      /\ n.epoch = y /\ n.next_id = 1 /\ n.retain_oldest_id = 0 /\ n.timeline = timeline
  <2>. DEFINE q == [a EXCEPT !.blocks = bs, !.current = NoBlock, !.active = NoBlock]
  <2>1. /\ q \in Arenas /\ q.blocks = bs /\ q.current = NoBlock /\ q.active = NoBlock
    BY <1>2 DEF Arenas
  <2>. DEFINE p == [q EXCEPT !.epoch = y, !.timeline = timeline]
  <2>. HIDE DEF q
  <2>2. /\ p \in Arenas /\ p.blocks = q.blocks /\ p.current = q.current /\ p.active = q.active
        /\ p.epoch = y /\ p.timeline = timeline
    BY <1>3, <2>1 DEF Arenas
  <2>. DEFINE one == 1
              zero == 0
  <2>3. n = [p EXCEPT !.next_id = one, !.retain_oldest_id = zero]
    BY <1>4 DEF q, Arenas
  <2>5. one \in Nat \ {0} /\ zero \in Nat
    OBVIOUS
  <2>. HIDE DEF p, one, zero
  <2>6. /\ n \in Arenas /\ n.blocks = p.blocks /\ n.current = p.current /\ n.active = p.active
        /\ n.epoch = p.epoch /\ n.timeline = p.timeline
        /\ n.next_id = one /\ n.retain_oldest_id = zero
    BY <2>2, <2>3, <2>5 DEF Arenas
  <2>4. /\ n \in Arenas /\ n.blocks = p.blocks /\ n.current = p.current /\ n.active = p.active
        /\ n.epoch = p.epoch /\ n.timeline = p.timeline
        /\ n.next_id = 1 /\ n.retain_oldest_id = 0
    BY <2>6 DEF one, zero
  <2>. QED BY <2>1, <2>2, <2>4
<1>6. \A b \in Blocks : ~Full(n, b) /\ n.blocks[b] = e
  BY <1>1, <1>2, <1>5 DEF Full
<1>7. WellFormed(n)
  <2>1. n.epoch # e.epoch
    BY <1>3, <1>5, <1>10
  <2>2. e.partial_count = Cardinality(Partials(e.records))
    BY <1>1, NoPartials
  <2>. QED BY <1>1, <1>5, <1>6, <2>1, <2>2 DEF WellFormed
<1>8. Ordered(n) /\ Reserved(n) /\ Faithful(n, told)
  BY <1>1, <1>5, <1>6 DEF Ordered, Reserved, Faithful
<1>9. Covered(n)
  <2>1. CoveredFrom(n, 1)
    BY <1>5, <1>6 DEF CoveredFrom
  <2>. QED BY <2>1 DEF Covered
<1>. QED BY <1>5, <1>7, <1>8, <1>9 DEF Good, Sound, n

-----------------------------------------------------------------------------
(* The worker's calls, with the log it will have.                          *)

\* The log x tells every record to come as one put now.
Ready(a, x, cycle, isMarker) ==
  \A id \in Nat : id >= a.next_id => id \in DOMAIN x /\ x[id] = Entry(cycle, a.timeline, isMarker)
NewestHeld(a) == (a.recording /\ a.next_id > 1) => Held(a, a.next_id - 1)
Fine(a, x, cycle) == Good(a, x) /\ Ready(a, x, cycle, TRUE) /\ NewestHeld(a)

\* n is a after calls that append at most k records.
After(n, a, k) == /\ SameHead(n, a) /\ n.next_id >= a.next_id /\ n.next_id <= a.next_id + k
                  /\ a.active = NoBlock => n.active = NoBlock

LEMMA Prepared ==
  ASSUME NEW a, NEW told, Good(a, told), DOMAIN told \subseteq 1 .. a.next_id - 1,
         NEW cycle, NEW isMarker, NEW timeline, timeline = a.timeline
  PROVE  LET x == Extend(told, cycle, timeline, isMarker) IN
         Good(a, x) /\ Ready(a, x, cycle, isMarker)
<1>1. a.next_id \in Nat
  BY DEF Good, Sound, Arenas
<1>2. \A id \in Nat : id >= a.next_id => id \notin DOMAIN told
  BY <1>1
<1>. QED BY <1>2, Extended, ExtendNew DEF Ready

LEMMA ReadyNext ==
  ASSUME NEW a \in Arenas, NEW x, NEW cycle, NEW isMarker, Ready(a, x, cycle, isMarker)
  PROVE  a.next_id \in DOMAIN x /\ x[a.next_id] = Entry(cycle, a.timeline, isMarker)
<1>. DEFINE id == a.next_id
<1>1. id \in Nat /\ id >= a.next_id
  BY DEF Arenas
<1>. HIDE DEF id
<1>2. id \in DOMAIN x /\ x[id] = Entry(cycle, a.timeline, isMarker)
  BY <1>1 DEF Ready
<1>. QED BY <1>2 DEF id

LEMMA SealFine ==
  ASSUME NEW a, NEW x, NEW cycle, Fine(a, x, cycle)
  PROVE  LET n == SealPartial(a) IN Fine(n, x, cycle) /\ After(n, a, 0) /\ n.active = NoBlock
<1>. DEFINE n == SealPartial(a)
<1>1. Good(a, x) /\ Ready(a, x, cycle, TRUE) /\ NewestHeld(a) /\ a.next_id \in Nat
  BY DEF Fine, Good, Sound, Arenas
<1>2. Good(n, x) /\ n.active = NoBlock /\ n.next_id = a.next_id /\ SameHead(n, a) /\ n.blocks = a.blocks
  BY <1>1, SealGood
<1>. HIDE DEF n
<1>3. Ready(n, x, cycle, TRUE)
  BY <1>1, <1>2 DEF Ready, SameHead
<1>4. NewestHeld(n)
  BY <1>1, <1>2 DEF NewestHeld, SameHead, Held, Holds, Full
<1>5. After(n, a, 0)
  BY <1>1, <1>2 DEF After
<1>. QED BY <1>2, <1>3, <1>4, <1>5 DEF Fine, n

\* A marker makes the newest record held, whatever it was before.
LEMMA MarkerFine ==
  ASSUME NEW a, NEW x, NEW cycle \in 0 .. MaxClock, Good(a, x), Ready(a, x, cycle, TRUE)
  PROVE  LET n == AppendMarker(a, cycle) IN
         /\ Fine(n, x, cycle) /\ After(n, a, 1)
         /\ n.recording => n.next_id > 1 /\ Held(n, n.next_id - 1)
<1>. DEFINE n == AppendMarker(a, cycle)
<1>1. a \in Arenas /\ a.next_id \in Nat \ {0}
  BY DEF Good, Sound, Arenas
<1>2. a.next_id \in DOMAIN x /\ x[a.next_id] = Entry(cycle, a.timeline, TRUE)
  BY <1>1, ReadyNext
<1>3. /\ Good(n, x) /\ SameHead(n, a) /\ n.next_id \in {a.next_id, a.next_id + 1}
      /\ n.recording => Held(n, n.next_id - 1)
      /\ n.recording => n.next_id > 1
      /\ a.active = NoBlock => n.active = NoBlock
  BY <1>2, MarkerGood
<1>. HIDE DEF n
<1>4. n.next_id >= a.next_id /\ n.next_id <= a.next_id + 1 /\ n.next_id \in Nat
  BY <1>1, <1>3
<1>5. Ready(n, x, cycle, TRUE)
  <2>1. \A id \in Nat : id >= n.next_id => id >= a.next_id
    BY <1>1, <1>4
  <2>2. n.timeline = a.timeline
    BY <1>3 DEF SameHead
  <2>. QED BY <2>1, <2>2 DEF Ready
<1>6. NewestHeld(n)
  BY <1>3 DEF NewestHeld
<1>7. After(n, a, 1)
  BY <1>3, <1>4 DEF After
<1>. QED BY <1>3, <1>5, <1>6, <1>7 DEF Fine, n

LEMMA FlushFine ==
  ASSUME NEW a, NEW x, NEW cycle \in 0 .. MaxClock, Fine(a, x, cycle)
  PROVE  LET n == FlushTrap(a, cycle) IN Fine(n, x, cycle) /\ After(n, a, 1)
<1>1. CASE pending_trap
  BY <1>1, MarkerFine DEF FlushTrap, Fine
<1>2. CASE ~pending_trap
  <2>1. FlushTrap(a, cycle) = a /\ a.next_id \in Nat
    BY <1>2 DEF FlushTrap, Fine, Good, Sound, Arenas
  <2>. QED BY <2>1 DEF After, SameHead
<1>. QED BY <1>1, <1>2

LEMMA AfterTwo ==
  ASSUME NEW a, NEW b, NEW c, NEW j \in Nat, NEW k \in Nat,
         a.next_id \in Nat, b.next_id \in Nat, c.next_id \in Nat, After(b, a, j), After(c, b, k)
  PROVE  After(c, a, j + k)
<1>1. c.next_id >= a.next_id /\ c.next_id <= a.next_id + (j + k)
  BY DEF After
<1>2. SameHead(c, a)
  BY DEF After, SameHead
<1>. QED BY <1>1, <1>2 DEF After

LEMMA NextIdType ==
  ASSUME NEW a, NEW x, NEW cycle, Fine(a, x, cycle)
  PROVE  a \in Arenas /\ a.next_id \in Nat \ {0} /\ Good(a, x) /\ Ready(a, x, cycle, TRUE)
BY DEF Fine, Good, Sound, Arenas

LEMMA PrepareFine ==
  ASSUME NEW a, NEW x, NEW cycle \in 0 .. MaxClock, Fine(a, x, cycle)
  PROVE  LET n == PrepareDiscontinuity(a, cycle) IN
         Fine(n, x, cycle) /\ After(n, a, 1) /\ n.active = NoBlock
<1>. DEFINE q == SealPartial(a)
            n == FlushTrap(q, cycle)
<1>1. Fine(q, x, cycle) /\ After(q, a, 0) /\ q.active = NoBlock
  BY SealFine
<1>. HIDE DEF q
<1>2. Fine(n, x, cycle) /\ After(n, q, 1)
  BY <1>1, FlushFine
<1>. HIDE DEF n
<1>3. a.next_id \in Nat /\ q.next_id \in Nat /\ n.next_id \in Nat
  BY <1>1, <1>2, NextIdType
<1>4. After(n, a, 0 + 1)
  BY <1>1, <1>2, <1>3, AfterTwo
<1>5. n.active = NoBlock
  BY <1>1, <1>2 DEF After
<1>. QED BY <1>2, <1>4, <1>5 DEF n, q, PrepareDiscontinuity

\* The recording switch does not touch the records.
LEMMA SwitchGood ==
  ASSUME NEW a, NEW x, NEW cycle, Good(a, x), Ready(a, x, cycle, TRUE), NEW on \in BOOLEAN
  PROVE  LET n == [a EXCEPT !.recording = on] IN
         /\ Good(n, x) /\ Ready(n, x, cycle, TRUE)
         /\ n.next_id = a.next_id /\ n.timeline = a.timeline
         /\ n.recording = on
<1>. DEFINE n == [a EXCEPT !.recording = on]
<1>1. a \in Arenas
  BY DEF Good, Sound
<1>2. n.recording = on
  BY <1>1 DEF Arenas
<1>3. /\ n \in Arenas /\ n.blocks = a.blocks /\ n.current = a.current /\ n.active = a.active
      /\ n.epoch = a.epoch /\ n.next_id = a.next_id /\ n.retain_oldest_id = a.retain_oldest_id
      /\ n.timeline = a.timeline
  BY <1>1 DEF Arenas
<1>. HIDE DEF n
<1>4. Good(n, x)
  BY <1>3, GoodSame
<1>5. Ready(n, x, cycle, TRUE)
  BY <1>3 DEF Ready
<1>. QED BY <1>2, <1>3, <1>4, <1>5 DEF n

LEMMA ResumeFine ==
  ASSUME NEW a, NEW x, NEW cycle \in 0 .. MaxClock, Fine(a, x, cycle)
  PROVE  LET n == ResumeRecording(a, cycle) IN
         Fine(n, x, cycle) /\ n.next_id <= a.next_id + 1 /\ n.timeline = a.timeline
<1>1. a \in Arenas /\ a.next_id \in Nat \ {0} /\ Good(a, x) /\ Ready(a, x, cycle, TRUE)
  BY NextIdType
<1>2. CASE a.recording
  BY <1>1, <1>2 DEF ResumeRecording
<1>3. CASE ~a.recording
  <2>. DEFINE q == [a EXCEPT !.recording = TRUE]
              n == AppendMarker(q, cycle)
  <2>1. Good(q, x) /\ Ready(q, x, cycle, TRUE) /\ q.next_id = a.next_id /\ q.timeline = a.timeline
    BY <1>1, SwitchGood
  <2>2. ResumeRecording(a, cycle) = n
    BY <1>3 DEF ResumeRecording
  <2>. HIDE DEF q
  <2>3. Fine(n, x, cycle) /\ After(n, q, 1)
    BY <2>1, MarkerFine
  <2>. HIDE DEF n
  <2>. QED BY <2>1, <2>2, <2>3 DEF After, SameHead
<1>. QED BY <1>2, <1>3

LEMMA StopFine ==
  ASSUME NEW a, NEW x, NEW cycle \in 0 .. MaxClock, Fine(a, x, cycle)
  PROVE  LET n == StopRecording(a, cycle) IN
         Fine(n, x, cycle) /\ n.next_id <= a.next_id + 1 /\ n.timeline = a.timeline
<1>1. a \in Arenas /\ a.next_id \in Nat \ {0} /\ Good(a, x)
  BY NextIdType
<1>2. CASE ~a.recording
  BY <1>1, <1>2 DEF StopRecording
<1>3. CASE a.recording
  <2>. DEFINE q == SealPartial(a)
              m == AppendMarker(q, cycle)
              n == [m EXCEPT !.recording = FALSE]
  <2>1. Fine(q, x, cycle) /\ After(q, a, 0)
    BY SealFine
  <2>2. StopRecording(a, cycle) = n
    BY <1>3 DEF StopRecording
  <2>. HIDE DEF q
  <2>3. Fine(m, x, cycle) /\ After(m, q, 1)
    BY <2>1, MarkerFine, NextIdType
  <2>. HIDE DEF m
  <2>4. m.next_id \in Nat /\ q.next_id \in Nat /\ Good(m, x) /\ Ready(m, x, cycle, TRUE)
    BY <2>1, <2>3, NextIdType
  <2>5. /\ Good(n, x) /\ Ready(n, x, cycle, TRUE) /\ n.next_id = m.next_id
        /\ n.timeline = m.timeline /\ n.recording = FALSE
    BY <2>4, SwitchGood
  <2>. HIDE DEF n
  <2>6. Fine(n, x, cycle)
    BY <2>5 DEF Fine, NewestHeld
  <2>7. n.next_id <= a.next_id + 1
    BY <1>1, <2>1, <2>3, <2>4, <2>5 DEF After
  <2>8. n.timeline = a.timeline
    BY <2>1, <2>3, <2>5 DEF After, SameHead
  <2>. QED BY <2>2, <2>6, <2>7, <2>8
<1>. QED BY <1>2, <1>3

LEMMA TransitionGood ==
  ASSUME NEW a, NEW told, Good(a, told), a.timeline < MaxTimeline
  PROVE  LET n == TransitionTimeline(a) IN
         Good(n, told) /\ n.next_id = a.next_id /\ n.timeline = a.timeline + 1
<1>. DEFINE n == TransitionTimeline(a)
            t == a.timeline + 1
<1>1. a \in Arenas
  BY DEF Good, Sound
<1>2. t \in 0 .. MaxTimeline
  BY <1>1, BoundsAssumption DEF Arenas
<1>3. n = [a EXCEPT !.active = NoBlock, !.timeline = t]
  BY <1>1 DEF TransitionTimeline, SealPartial, Arenas
<1>. HIDE DEF t, n
<1>4. /\ n \in Arenas /\ n.blocks = a.blocks /\ n.current = a.current /\ n.active = NoBlock
      /\ n.epoch = a.epoch /\ n.next_id = a.next_id /\ n.retain_oldest_id = a.retain_oldest_id
      /\ n.timeline = t
  BY <1>1, <1>2, <1>3 DEF Arenas
<1>5. Good(n, told)
  BY <1>4, GoodSame
<1>. QED BY <1>4, <1>5 DEF n, t

\* runtime_inspector_on_media_event's cut.
LEMMA CutFine ==
  ASSUME NEW a, NEW x, NEW cycle \in 0 .. MaxClock, Fine(a, x, cycle)
  PROVE  LET cut == AppendMarker(ForceNewBlock(a, cycle), cycle)
             n == IF a.recording THEN RetainFrom(cut, cut.next_id - 1) ELSE cut
         IN Fine(n, x, cycle) /\ n.next_id <= a.next_id + 1 /\ n.timeline = a.timeline
<1>. DEFINE q == SealPartial(a)
            f == AdvanceBlock(q, cycle)
            cut == AppendMarker(f, cycle)
            id == cut.next_id - 1
            r == RetainFrom(cut, id)
<1>1. a.next_id \in Nat /\ Fine(q, x, cycle) /\ After(q, a, 0) /\ q.active = NoBlock
  BY SealFine, NextIdType
<1>. HIDE DEF q
<1>2. Good(q, x) /\ Ready(q, x, cycle, TRUE) /\ q.next_id \in Nat
  BY <1>1, NextIdType
<1>3. Good(f, x) /\ SameHead(f, q) /\ f.next_id = q.next_id /\ f.active = NoBlock
  BY <1>1, <1>2, AdvanceGood
<1>. HIDE DEF f
<1>4. Ready(f, x, cycle, TRUE)
  BY <1>2, <1>3 DEF Ready, SameHead
<1>5. /\ Fine(cut, x, cycle) /\ After(cut, f, 1)
      /\ cut.recording => cut.next_id > 1 /\ Held(cut, cut.next_id - 1)
  BY <1>3, <1>4, MarkerFine
<1>6. ForceNewBlock(a, cycle) = f
  BY DEF ForceNewBlock, f, q
<1>. HIDE DEF cut
<1>7. /\ Good(cut, x) /\ Ready(cut, x, cycle, TRUE) /\ cut.next_id \in Nat \ {0}
  BY <1>5, NextIdType
<1>8. cut.active = NoBlock
  BY <1>3, <1>5 DEF After
<1>9. cut.next_id <= a.next_id + 1
  BY <1>1, <1>2, <1>3, <1>5, <1>7 DEF After
<1>10. cut.timeline = a.timeline /\ cut.recording = a.recording
  BY <1>1, <1>3, <1>5 DEF After, SameHead
<1>11. CASE a.recording
  <2>1. cut.next_id > 1 /\ Held(cut, id)
    BY <1>5, <1>10, <1>11
  <2>2. id \in Nat \ {0}
    BY <1>7, <2>1
  <2>. HIDE DEF id
  <2>3. /\ Good(r, x) /\ r.next_id = cut.next_id /\ r.timeline = cut.timeline
        /\ Held(r, id)
    BY <1>7, <1>8, <2>1, <2>2, RetainGood
  <2>. HIDE DEF r
  <2>4. Ready(r, x, cycle, TRUE)
    BY <1>7, <2>3 DEF Ready
  <2>5. NewestHeld(r)
    BY <2>3 DEF NewestHeld, id
  <2>6. Fine(r, x, cycle)
    BY <2>3, <2>4, <2>5 DEF Fine
  <2>7. r.next_id <= a.next_id + 1 /\ r.timeline = a.timeline
    BY <1>9, <1>10, <2>3
  <2>. QED BY <1>6, <1>11, <2>6, <2>7 DEF r, id, cut
<1>12. CASE ~a.recording
  BY <1>5, <1>6, <1>9, <1>10, <1>12 DEF cut
<1>. QED BY <1>11, <1>12

-----------------------------------------------------------------------------
(* The invariant.                                                          *)

Recorded(a, told) == Good(a, told) /\ DOMAIN told = Retained(a) /\ NewestHeld(a)

IInv ==
  /\ Recorded(h, log)
  /\ h.next_id <= MaxRecords + 1 /\ clock \in 0 .. MaxClock /\ pending_trap \in BOOLEAN

\* A step begins with the log it will have, and ends with what is retained of it.
LEMMA Begun ==
  ASSUME NEW a, NEW told, Recorded(a, told), NEW cycle
  PROVE  Fine(a, Extend(told, cycle, a.timeline, TRUE), cycle)
<1>1. DOMAIN told \subseteq 1 .. a.next_id - 1
  BY DEF Recorded, Retained
<1>. QED BY <1>1, Prepared DEF Recorded, Fine

LEMMA Ended ==
  ASSUME NEW n, NEW told, NEW cycle, NEW timeline, n.timeline = timeline,
         Fine(n, Extend(told, cycle, timeline, TRUE), cycle)
  PROVE  Recorded(n, Logged(told, n, cycle, TRUE))
BY Relogged DEF Recorded, Fine

\* A replaced record leaves the same ids retained.
LEMMA SameRecorded ==
  ASSUME NEW a, NEW told, Recorded(a, told), NEW n, NEW new, SameRecords(n, new, a, told)
  PROVE  Recorded(n, new)
<1>1. Sound(a) /\ Sound(n) /\ n.next_id = a.next_id
  BY DEF Recorded, Good, SameRecords
<1>2. Retained(n) = Retained(a)
  BY <1>1, RetainedIs DEF SameRecords
<1>3. n.recording = a.recording
  BY DEF SameRecords, SameHead
<1>4. NewestHeld(n)
  BY <1>1, <1>3 DEF NewestHeld, Recorded, SameRecords
<1>. QED BY <1>2, <1>4 DEF Recorded, SameRecords

LEMMA InitInv == Init => IInv
<1>. SUFFICES ASSUME Init PROVE IInv
  OBVIOUS
<1>. DEFINE e == EmptyBlock
<1>0. e \in BlockKind /\ e.records = <<>>
  BY EmptyKind
<1>1. e.first_id = 0 /\ e.last_id = 0 /\ e.partial_count = 0 /\ e.epoch = 0
  BY DEF EmptyBlock
<1>2. h.blocks = [b \in Blocks |-> e]
  BY DEF Init
<1>3. /\ h.current = NoBlock /\ h.active = NoBlock /\ h.epoch = 1 /\ h.next_id = 1
      /\ h.retain_oldest_id = 0 /\ log = <<>>
  BY DEF Init
<1>. HIDE DEF e
<1>4. h \in Arenas
  <2>. DEFINE bs == [b \in Blocks |-> e]
  <2>1. bs \in [Blocks -> BlockKind]
    BY <1>0
  <2>2. h = [blocks |-> bs, current |-> NoBlock,
             active |-> NoBlock, epoch |-> 1, next_id |-> 1, timeline |-> 0,
             recording |-> TRUE, retain_oldest_id |-> 0]
    BY DEF Init, e
  <2>. HIDE DEF bs
  <2>. QED BY <2>1, <2>2, BoundsAssumption DEF Arenas
<1>5. \A b \in Blocks : ~Full(h, b) /\ h.blocks[b] = e
  BY <1>0, <1>2 DEF Full
<1>6. WellFormed(h)
  <2>1. h.epoch # e.epoch
    BY <1>1, <1>3
  <2>2. e.partial_count = Cardinality(Partials(e.records))
    BY <1>0, <1>1, NoPartials
  <2>. QED BY <1>1, <1>3, <1>5, <2>1, <2>2 DEF WellFormed
<1>7. Ordered(h) /\ Reserved(h) /\ Faithful(h, log)
  BY <1>0, <1>3, <1>5 DEF Ordered, Reserved, Faithful
<1>8. Covered(h)
  <2>1. CoveredFrom(h, 1)
    BY <1>3, <1>5 DEF CoveredFrom
  <2>. QED BY <2>1 DEF Covered
<1>9. Good(h, log)
  BY <1>4, <1>6, <1>7, <1>8 DEF Good, Sound
<1>10. Retained(h) = {} /\ DOMAIN log = {}
  <2>1. h.next_id - 1 = 0
    BY <1>3
  <2>2. 1 .. h.next_id - 1 = {}
    BY <2>1
  <2>. QED BY <1>3, <2>2 DEF Retained
<1>11. NewestHeld(h)
  BY <1>3 DEF NewestHeld
<1>12. h.next_id <= MaxRecords + 1 /\ clock \in 0 .. MaxClock
  BY <1>3, BoundsAssumption DEF Init
<1>13. pending_trap \in BOOLEAN
  BY DEF Init
<1>. QED BY <1>9, <1>10, <1>11, <1>12, <1>13 DEF IInv, Recorded

LEMMA BeginInv == IInv /\ ObserverBegin => IInv'
<1>. SUFFICES ASSUME IInv, ObserverBegin PROVE IInv'
  OBVIOUS
<1>. DEFINE c == clock'
            x == Extend(log, c, h.timeline, FALSE)
            n == PutRecord(EnsureSpace(h, c, MaxRecordSize), c, FALSE)
<1>1. /\ Recorded(h, log) /\ h \in Arenas /\ h.next_id \in Nat /\ clock \in 0 .. MaxClock
  BY DEF IInv, Recorded, Good, Sound, Arenas
<1>2. c \in 0 .. MaxClock
  BY <1>1 DEF ObserverBegin, Now
<1>3. /\ h.recording /\ h.active = NoBlock /\ h.next_id + 1 <= MaxRecords + 1
      /\ h' = BeginRecord(h, c) /\ log' = Logged(log, h', c, FALSE)
  BY DEF ObserverBegin, MayRecord
<1>8. pending_trap' \in BOOLEAN
  BY DEF ObserverBegin, IInv
<1>4. h' = n
  BY <1>3 DEF BeginRecord
<1>. HIDE DEF c
<1>5. Good(h, x) /\ Ready(h, x, c, FALSE)
  <2>1. DOMAIN log \subseteq 1 .. h.next_id - 1
    BY <1>1 DEF Recorded, Retained
  <2>. QED BY <1>1, <2>1, Prepared DEF Recorded
<1>. HIDE DEF x
<1>6. /\ Sound(n) /\ Faithful(n, x) /\ SameHead(n, h) /\ n.next_id = h.next_id + 1
      /\ Held(n, h.next_id)
  <2>1. h.next_id \in DOMAIN x /\ x[h.next_id] = Entry(c, h.timeline, FALSE)
    BY <1>1, <1>5, ReadyNext
  <2>. QED BY <1>2, <1>3, <1>5, <2>1, HeaderFits, AppendGood DEF Good
<1>. HIDE DEF n
<1>7. Recorded(n, Logged(log, n, c, FALSE))
  <2>1. n.timeline = h.timeline
    BY <1>6 DEF SameHead
  <2>2. Good(n, Extend(log, c, n.timeline, FALSE))
    BY <1>6, <2>1 DEF Good, x
  <2>3. NewestHeld(n)
    <3>1. n.next_id - 1 = h.next_id
      BY <1>1, <1>6
    <3>. QED BY <1>6, <3>1 DEF NewestHeld
  <2>. QED BY <2>2, <2>3, Relogged DEF Recorded
<1>. QED BY <1>2, <1>3, <1>4, <1>6, <1>7, <1>8 DEF IInv, c

LEMMA AccessInv == IInv /\ ObserverAccess => IInv'
<1>. SUFFICES ASSUME IInv, ObserverAccess PROVE IInv'
  OBVIOUS
<1>1. Recorded(h, log) /\ Good(h, log)
  BY DEF IInv, Recorded
<1>2. SameRecords(h', log', h, log)
  BY <1>1, AccessGood DEF ObserverAccess, Newest
<1>3. Recorded(h', log') /\ h'.next_id = h.next_id
  BY <1>1, <1>2, SameRecorded DEF SameRecords
<1>4. clock' = clock /\ pending_trap' = pending_trap
  BY DEF ObserverAccess
<1>. QED BY <1>3, <1>4 DEF IInv

\* What a step that appends markers has to show.
LEMMA StepInv ==
  ASSUME NEW a, NEW told, Recorded(a, told), NEW cycle \in 0 .. MaxClock, NEW n,
         Fine(n, Extend(told, cycle, a.timeline, TRUE), cycle), n.timeline = a.timeline,
         n.next_id <= MaxRecords + 1, h' = n, log' = Logged(told, n, cycle, TRUE),
         clock' = cycle, pending_trap' \in BOOLEAN
  PROVE  IInv'
<1>1. Recorded(n, Logged(told, n, cycle, TRUE))
  BY Ended
<1>. QED BY <1>1 DEF IInv

LEMMA CompleteInv == IInv /\ ObserverComplete => IInv'
<1>. SUFFICES ASSUME IInv, ObserverComplete PROVE IInv'
  OBVIOUS
<1>. DEFINE c == clock'
            told == IF h.active = NoBlock THEN log ELSE [log EXCEPT ![Newest].complete = TRUE]
            a == CompleteRecord(h)
            n == FlushTrap(a, c)
<1>1. Recorded(h, log) /\ Good(h, log) /\ h.next_id \in Nat /\ clock \in 0 .. MaxClock
  BY DEF IInv, Recorded, Good, Sound, Arenas
<1>2. c \in 0 .. MaxClock /\ h.next_id + 1 <= MaxRecords + 1 /\ h' = n
      /\ log' = Logged(told, h', c, TRUE)
  BY <1>1 DEF ObserverComplete, Now, MayRecord
<1>3. pending_trap' \in BOOLEAN
  BY DEF ObserverComplete
<1>4. Recorded(a, told) /\ a.next_id = h.next_id
  <2>1. CASE h.active = NoBlock
    BY <1>1, <2>1 DEF CompleteRecord
  <2>2. CASE h.active # NoBlock
    <3>1. SameRecords(a, told, h, log)
      BY <1>1, <2>2, CompleteGood DEF Newest
    <3>. HIDE DEF a, told
    <3>. QED BY <1>1, <3>1, SameRecorded DEF SameRecords
  <2>. QED BY <2>1, <2>2
<1>. HIDE DEF a, told, c
<1>5. Fine(a, Extend(told, c, a.timeline, TRUE), c)
  BY <1>4, Begun
<1>6. Fine(n, Extend(told, c, a.timeline, TRUE), c) /\ After(n, a, 1)
  BY <1>2, <1>5, FlushFine
<1>. HIDE DEF n
<1>7. n.timeline = a.timeline /\ n.next_id <= h.next_id + 1 /\ n.next_id \in Nat
  BY <1>4, <1>6, NextIdType DEF After, SameHead
<1>8. n.next_id <= MaxRecords + 1
  BY <1>1, <1>2, <1>7, BoundsAssumption
<1>. QED BY <1>2, <1>3, <1>4, <1>6, <1>7, <1>8, StepInv DEF c

LEMMA TrapInv == IInv /\ HostTrap => IInv'
<1>. SUFFICES ASSUME IInv, HostTrap PROVE IInv'
  OBVIOUS
<1>. DEFINE c == clock'
            x == Extend(log, c, h.timeline, TRUE)
            n == IF h.active = NoBlock THEN AppendMarker(h, c) ELSE h
<1>1. Recorded(h, log) /\ h.next_id \in Nat /\ clock \in 0 .. MaxClock
  BY DEF IInv, Recorded, Good, Sound, Arenas
<1>2. c \in 0 .. MaxClock /\ h.next_id + 1 <= MaxRecords + 1 /\ h' = n
      /\ log' = Logged(log, h', c, TRUE)
  BY <1>1 DEF HostTrap, Now, MayRecord
<1>3. pending_trap' \in BOOLEAN
  BY DEF HostTrap
<1>. HIDE DEF c
<1>4. Fine(h, x, c)
  BY <1>1, Begun
<1>. HIDE DEF x
<1>5. Fine(n, x, c) /\ After(n, h, 1)
  <2>1. CASE h.active = NoBlock
    BY <1>2, <1>4, <2>1, MarkerFine, NextIdType
  <2>2. CASE h.active # NoBlock
    BY <1>1, <1>4, <2>2 DEF After, SameHead
  <2>. QED BY <2>1, <2>2
<1>. HIDE DEF n
<1>6. n.timeline = h.timeline /\ n.next_id <= h.next_id + 1 /\ n.next_id \in Nat
  BY <1>5, NextIdType DEF After, SameHead
<1>7. n.next_id <= MaxRecords + 1
  BY <1>1, <1>2, <1>6, BoundsAssumption
<1>. QED BY <1>1, <1>2, <1>3, <1>5, <1>6, <1>7, StepInv DEF c, x

LEMMA CommitInv == IInv /\ CommitMarker => IInv'
<1>. SUFFICES ASSUME IInv, CommitMarker PROVE IInv'
  OBVIOUS
<1>. DEFINE c == clock'
            x == Extend(log, c, h.timeline, TRUE)
            q == PrepareDiscontinuity(h, c)
            n == AppendMarker(q, c)
<1>1. Recorded(h, log) /\ h.next_id \in Nat /\ clock \in 0 .. MaxClock
  BY DEF IInv, Recorded, Good, Sound, Arenas
<1>2. c \in 0 .. MaxClock /\ h.next_id + 2 <= MaxRecords + 1 /\ h' = n
      /\ log' = Logged(log, h', c, TRUE)
  BY <1>1 DEF CommitMarker, Now, MayRecord
<1>3. pending_trap' \in BOOLEAN
  BY DEF CommitMarker
<1>. HIDE DEF c
<1>4. Fine(h, x, c)
  BY <1>1, Begun
<1>. HIDE DEF x
<1>5. Fine(q, x, c) /\ After(q, h, 1)
  BY <1>2, <1>4, PrepareFine
<1>. HIDE DEF q
<1>6. Fine(n, x, c) /\ After(n, q, 1)
  BY <1>2, <1>5, MarkerFine, NextIdType
<1>. HIDE DEF n
<1>7. n.timeline = h.timeline
  BY <1>5, <1>6 DEF After, SameHead
<1>8. n.next_id <= MaxRecords + 1
  <2>1. n.next_id \in Nat /\ q.next_id \in Nat /\ n.next_id <= q.next_id + 1 /\ q.next_id <= h.next_id + 1
    BY <1>5, <1>6, NextIdType DEF After
  <2>. QED BY <1>1, <1>2, <2>1, BoundsAssumption
<1>. QED BY <1>1, <1>2, <1>3, <1>6, <1>7, <1>8, StepInv DEF c, x

LEMMA ResetInv == IInv /\ ResetMachine => IInv'
<1>. SUFFICES ASSUME IInv, ResetMachine PROVE IInv'
  OBVIOUS
<1>. DEFINE x == Extend(log, clock, h.timeline, TRUE)
            q == PrepareDiscontinuity(h, clock)
            told == Logged(log, q, clock, TRUE)
            t == TransitionTimeline(q)
            y == Extend(told, 0, t.timeline, TRUE)
            n == AppendMarker(t, 0)
<1>1. Recorded(h, log) /\ h.next_id \in Nat /\ clock \in 0 .. MaxClock /\ 0 \in 0 .. MaxClock
  BY BoundsAssumption DEF IInv, Recorded, Good, Sound, Arenas
<1>2. /\ h.timeline < MaxTimeline /\ h.next_id + 2 <= MaxRecords + 1 /\ clock' = 0
      /\ h' = n /\ log' = Logged(told, n, 0, TRUE)
  BY DEF ResetMachine, MayRecord
<1>3. pending_trap' \in BOOLEAN
  BY DEF ResetMachine
<1>4. Fine(h, x, clock)
  BY <1>1, Begun
<1>. HIDE DEF x
<1>5. Fine(q, x, clock) /\ After(q, h, 1)
  BY <1>1, <1>4, PrepareFine
<1>. HIDE DEF q
<1>6. q.timeline = h.timeline
  BY <1>5 DEF After, SameHead
<1>7. Recorded(q, told)
  BY <1>5, <1>6, Ended DEF x
<1>. HIDE DEF told
<1>8. Good(t, told) /\ t.next_id = q.next_id
  BY <1>2, <1>6, <1>7, TransitionGood DEF Recorded
<1>. HIDE DEF t
<1>9. Good(t, y) /\ Ready(t, y, 0, TRUE)
  <2>1. DOMAIN told \subseteq 1 .. t.next_id - 1
    BY <1>7, <1>8 DEF Recorded, Retained
  <2>. QED BY <1>8, <2>1, Prepared
<1>. HIDE DEF y
<1>10. Fine(n, y, 0) /\ After(n, t, 1)
  BY <1>1, <1>9, MarkerFine
<1>. HIDE DEF n
<1>11. n.timeline = t.timeline
  BY <1>10 DEF After, SameHead
<1>12. Recorded(n, Logged(told, n, 0, TRUE))
  BY <1>10, <1>11, Ended DEF y
<1>13. n.next_id <= MaxRecords + 1
  <2>1. n.next_id \in Nat /\ q.next_id \in Nat /\ n.next_id <= q.next_id + 1 /\ q.next_id <= h.next_id + 1
    BY <1>5, <1>8, <1>10, NextIdType DEF After
  <2>. QED BY <1>1, <1>2, <2>1, BoundsAssumption
<1>. QED BY <1>1, <1>2, <1>3, <1>12, <1>13 DEF IInv

LEMMA RecordInv ==
  ASSUME NEW enabled \in BOOLEAN, NEW offOnMax \in BOOLEAN
  PROVE  IInv /\ HistoryRecord(enabled, offOnMax) => IInv'
<1>. SUFFICES ASSUME IInv, HistoryRecord(enabled, offOnMax) PROVE IInv'
  OBVIOUS
<1>. DEFINE c == clock'
            x == Extend(log, c, h.timeline, TRUE)
            q == IF enabled THEN ResumeRecording(h, c) ELSE h
            n == IF enabled /\ ~offOnMax THEN q ELSE StopRecording(q, c)
<1>1. Recorded(h, log) /\ h.next_id \in Nat /\ clock \in 0 .. MaxClock
  BY DEF IInv, Recorded, Good, Sound, Arenas
<1>2. c \in 0 .. MaxClock /\ h.next_id + 2 <= MaxRecords + 1 /\ h' = n
      /\ log' = Logged(log, h', c, TRUE)
  BY <1>1 DEF HistoryRecord, Now, MayRecord
<1>3. pending_trap' \in BOOLEAN
  BY DEF HistoryRecord, IInv
<1>. HIDE DEF c
<1>4. Fine(h, x, c)
  BY <1>1, Begun
<1>. HIDE DEF x
<1>5. Fine(q, x, c) /\ q.next_id <= h.next_id + 1 /\ q.timeline = h.timeline
  BY <1>1, <1>2, <1>4, ResumeFine
<1>. HIDE DEF q
<1>6. q.next_id \in Nat
  BY <1>5, NextIdType
<1>7. Fine(n, x, c) /\ n.next_id <= q.next_id + 1 /\ n.timeline = q.timeline
  BY <1>2, <1>5, <1>6, StopFine
<1>. HIDE DEF n
<1>8. n.next_id \in Nat
  BY <1>7, NextIdType
<1>9. n.next_id <= MaxRecords + 1 /\ n.timeline = h.timeline
  BY <1>1, <1>2, <1>5, <1>6, <1>7, <1>8, BoundsAssumption
<1>. QED BY <1>1, <1>2, <1>3, <1>7, <1>9, StepInv DEF c, x

\* Nothing of the arena before a new epoch matters but its type.
LEMMA EpochInv ==
  ASSUME NEW a \in Arenas, a.epoch = h.epoch, clock' \in 0 .. MaxClock,
         NEW timeline \in 0 .. MaxTimeline, NewEpoch(a, timeline)
  PROVE  IInv'
<1>. DEFINE c == clock'
            q == Cleared(a, timeline)
            x == Extend(<<>>, c, timeline, TRUE)
            n == AppendMarker(q, c)
<1>1. a.epoch < MaxEpoch /\ h' = n /\ log' = Logged(<<>>, h', c, TRUE)
  BY DEF NewEpoch, ClearEpoch, Cleared
<1>2. pending_trap' \in BOOLEAN
  BY DEF NewEpoch
<1>. HIDE DEF c
<1>3. Good(q, <<>>) /\ q.next_id = 1 /\ q.timeline = timeline
  BY <1>1, ClearedGood
<1>. HIDE DEF q
<1>4. Good(q, x) /\ Ready(q, x, c, TRUE)
  <2>1. DOMAIN <<>> \subseteq 1 .. q.next_id - 1
    OBVIOUS
  <2>. QED BY <1>3, <2>1, Prepared
<1>. HIDE DEF x
<1>5. c \in 0 .. MaxClock
  BY DEF c
<1>6. Fine(n, x, c) /\ After(n, q, 1)
  BY <1>4, <1>5, MarkerFine
<1>. HIDE DEF n
<1>7. n.timeline = timeline /\ n.next_id <= 2
  BY <1>3, <1>6 DEF After, SameHead
<1>8. Recorded(n, Logged(<<>>, n, c, TRUE))
  BY <1>6, <1>7, Ended DEF x
<1>9. n.next_id <= MaxRecords + 1
  <2>1. n.next_id \in Nat
    BY <1>6, NextIdType
  <2>. QED BY <1>7, <2>1, BoundsAssumption
<1>. QED BY <1>1, <1>2, <1>8, <1>9 DEF IInv, c

LEMMA ClearInv == IInv /\ HistoryClear => IInv'
<1>. SUFFICES ASSUME IInv, HistoryClear PROVE IInv'
  OBVIOUS
<1>. DEFINE c == clock'
            x == Extend(log, c, h.timeline, TRUE)
            q == PrepareDiscontinuity(h, c)
<1>1. Recorded(h, log) /\ clock \in 0 .. MaxClock
  BY DEF IInv
<1>2. c \in 0 .. MaxClock /\ NewEpoch(q, 0)
  BY <1>1 DEF HistoryClear, Now
<1>3. Fine(h, x, c)
  BY <1>1, Begun
<1>4. Fine(q, x, c) /\ After(q, h, 1)
  BY <1>2, <1>3, PrepareFine
<1>. HIDE DEF q, x
<1>5. q \in Arenas /\ q.epoch = h.epoch
  BY <1>4, NextIdType DEF After, SameHead
<1>6. 0 \in 0 .. MaxTimeline
  BY BoundsAssumption
<1>. QED BY <1>2, <1>5, <1>6, EpochInv

LEMMA LoadInv == IInv /\ LoadState => IInv'
<1>. SUFFICES ASSUME IInv, LoadState PROVE IInv'
  OBVIOUS
<1>1. h \in Arenas /\ 1 \in 0 .. MaxTimeline
  BY BoundsAssumption DEF IInv, Recorded, Good, Sound
<1>2. clock' \in 0 .. MaxClock /\ NewEpoch(h, 1)
  BY DEF LoadState
<1>. QED BY <1>1, <1>2, EpochInv

LEMMA MediaInv == IInv /\ MediaEvent => IInv'
<1>. SUFFICES ASSUME IInv, MediaEvent PROVE IInv'
  OBVIOUS
<1>. DEFINE c == clock'
            x == Extend(log, c, h.timeline, TRUE)
            cut == AppendMarker(ForceNewBlock(h, c), c)
            n == IF h.recording THEN RetainFrom(cut, cut.next_id - 1) ELSE cut
<1>1. Recorded(h, log) /\ h.next_id \in Nat /\ clock \in 0 .. MaxClock
  BY DEF IInv, Recorded, Good, Sound, Arenas
<1>2. c \in 0 .. MaxClock /\ h.next_id + 1 <= MaxRecords + 1 /\ h' = n
      /\ log' = Logged(log, h', c, TRUE)
  BY <1>1 DEF MediaEvent, Now, MayRecord
<1>3. pending_trap' \in BOOLEAN
  BY DEF MediaEvent, IInv
<1>. HIDE DEF c
<1>4. Fine(h, x, c)
  BY <1>1, Begun
<1>. HIDE DEF x
<1>5. Fine(n, x, c) /\ n.next_id <= h.next_id + 1 /\ n.timeline = h.timeline
  BY <1>2, <1>4, CutFine
<1>. HIDE DEF n
<1>6. n.next_id \in Nat
  BY <1>5, NextIdType
<1>7. n.next_id <= MaxRecords + 1
  BY <1>1, <1>2, <1>5, <1>6, BoundsAssumption
<1>. QED BY <1>1, <1>2, <1>3, <1>5, <1>7, StepInv DEF c, x

LEMMA NextInv == IInv /\ [Next]_vars => IInv'
<1>. SUFFICES ASSUME IInv, [Next]_vars PROVE IInv'
  OBVIOUS
<1>1. CASE UNCHANGED vars
  BY <1>1 DEF vars, IInv
<1>2. ASSUME NEW enabled \in BOOLEAN, NEW offOnMax \in BOOLEAN, HistoryRecord(enabled, offOnMax)
      PROVE  IInv'
  BY <1>2, RecordInv
<1>. QED BY <1>1, <1>2, BeginInv, AccessInv, CompleteInv, TrapInv, CommitInv, ResetInv,
            ClearInv, LoadInv, MediaInv DEF Next

LEMMA Invariant == Spec => []IInv
BY InitInv, NextInv, PTL DEF Spec

-----------------------------------------------------------------------------
(* What it implies.                                                        *)

\* The arena, the clock and the log of what was recorded keep their types,
\* ids and cycles within their bounds included.
THEOREM TypeCorrect == Spec => []TypeOK
<1>1. IInv => TypeOK
  <2>. SUFFICES ASSUME IInv PROVE TypeOK
    OBVIOUS
  <2>1. /\ Sound(h) /\ h \in Arenas /\ WellFormed(h) /\ Faithful(h, log)
        /\ DOMAIN log = Retained(h)
    BY DEF IInv, Recorded, Good, Sound
  <2>2. h.next_id \in 1 .. MaxRecords + 1 /\ MaxRecords \in Nat
    BY <2>1, BoundsAssumption DEF IInv, Arenas
  <2>3. ASSUME NEW b \in Blocks
        PROVE  h.blocks[b] \in BlockType
    <3>. DEFINE k == h.blocks[b]
    <3>1. k \in BlockKind
      BY <2>1 DEF Arenas
    <3>2. /\ k.first_id \in Nat /\ k.last_id \in Nat /\ k.partial_count \in Nat
          /\ k.records \in Seq(RecordType)
      BY <3>1 DEF BlockKind
    <3>3. /\ ~Full(h, b) => k.first_id = 0 /\ k.last_id = 0 /\ k.records = <<>>
          /\ Full(h, b) => /\ k.first_id >= 1 /\ k.last_id = k.first_id + Len(k.records) - 1
                           /\ k.last_id < h.next_id
      BY <2>1 DEF WellFormed, Full
    <3>4. k.partial_count = Cardinality(Partials(k.records))
      BY <2>1 DEF WellFormed
    <3>5. Len(k.records) \in Nat /\ k.partial_count <= Len(k.records)
      BY <3>2, <3>4, PartialsFinite
    <3>. HIDE DEF k
    <3>6. k.first_id \in 0 .. MaxRecords /\ k.last_id \in 0 .. MaxRecords
          /\ k.partial_count \in 0 .. MaxRecords
      <4>1. CASE Full(h, b)
        <5>1. Len(k.records) >= 1
          BY <3>2, <4>1 DEF Full, k
        <5>2. k.first_id <= k.last_id /\ Len(k.records) <= k.last_id
          BY <3>2, <3>3, <3>5, <4>1, <5>1
        <5>3. k.last_id <= MaxRecords
          BY <2>2, <3>2, <3>3, <4>1
        <5>. QED BY <2>2, <3>2, <3>5, <5>2, <5>3
      <4>2. CASE ~Full(h, b)
        <5>1. k.records = <<>> /\ Len(<<>>) = 0
          BY <3>3, <4>2
        <5>2. Len(k.records) = 0
          BY <5>1
        <5>. QED BY <2>2, <3>2, <3>3, <3>5, <4>2, <5>2
      <4>. QED BY <4>1, <4>2
    <3>7. k \in BlockType
      BY <3>1, <3>6 DEF BlockKind, BlockType
    <3>. QED BY <3>7 DEF k
  <2>4. h.blocks \in [Blocks -> BlockType]
    BY <2>1, <2>3 DEF Arenas
  <2>5. /\ h.current \in Blocks \cup {NoBlock} /\ h.active \in Blocks \cup {NoBlock}
        /\ h.epoch \in 1 .. MaxEpoch /\ h.timeline \in 0 .. MaxTimeline
    BY <2>1 DEF Arenas
  <2>6. h.recording \in BOOLEAN
    BY <2>1 DEF Arenas
  <2>7. h.retain_oldest_id \in 0 .. MaxRecords
    <3>1. h.retain_oldest_id \in Nat /\ h.retain_oldest_id < h.next_id
      BY <2>1 DEF WellFormed, Arenas
    <3>. QED BY <2>2, <3>1
  <2>8. DOMAIN log \subseteq 1 .. MaxRecords
    <3>1. DOMAIN log \subseteq 1 .. h.next_id - 1
      BY <2>1 DEF Retained
    <3>. QED BY <2>2, <3>1
  <2>9. ASSUME NEW id \in DOMAIN log
        PROVE  log[id] \in Entries
    <3>1. id \in 1 .. h.next_id - 1 /\ Held(h, id)
      BY <2>1, RetainedIs
    <3>2. PICK b \in Blocks : Holds(h, b, id)
      BY <3>1 DEF Held
    <3>3. LET i == id - h.blocks[b].first_id + 1 IN
            i \in DOMAIN h.blocks[b].records /\ h.blocks[b].first_id + i - 1 = id
      BY <2>1, <2>2, <3>1, <3>2, RecordOf
    <3>. QED BY <2>1, <3>3 DEF Faithful, Tells
  <2>10. clock \in 0 .. MaxClock /\ pending_trap \in BOOLEAN
    BY DEF IInv
  <2>. QED BY <2>2, <2>4, <2>5, <2>6, <2>7, <2>8, <2>9, <2>10 DEF TypeOK, Entries
<1>. QED BY <1>1, Invariant, PTL

\* What runtime_history can look up is a gap-free suffix of the epoch's ids,
\* and while HST1 records its newest record is among them - for every number
\* of blocks, one included, and whether or not media events come while it is
\* stopped.
THEOREM RetainsSuffix == Spec => []RetainedIsSuffix
<1>1. IInv => RetainedIsSuffix
  <2>. SUFFICES ASSUME IInv PROVE RetainedIsSuffix
    OBVIOUS
  <2>. DEFINE last == h.next_id - 1
  <2>1. Sound(h) /\ h \in Arenas /\ Covered(h) /\ WellFormed(h) /\ NewestHeld(h)
    BY DEF IInv, Recorded, Good, Sound
  <2>2. h.next_id \in Nat \ {0} /\ last \in Nat
    BY <2>1 DEF Arenas
  <2>3. Retained(h) = {id \in 1 .. last : Held(h, id)}
    BY <2>1, RetainedIs
  <2>4. PICK lo \in Nat \ {0} : CoveredFrom(h, lo)
    BY <2>1 DEF Covered
  <2>5. \A id \in 1 .. last : Held(h, id) <=> lo <= id
    <3>. SUFFICES ASSUME NEW id \in 1 .. last PROVE Held(h, id) <=> lo <= id
      OBVIOUS
    <3>1. id \in Nat /\ id < h.next_id
      BY <2>2
    <3>2. lo <= id => Held(h, id)
      BY <2>4, <3>1 DEF CoveredFrom
    <3>3. ASSUME NEW b \in Blocks, Holds(h, b, id) PROVE lo <= id
      <4>1. Full(h, b) /\ h.blocks[b].first_id <= id /\ lo <= h.blocks[b].first_id
        BY <2>4, <3>3 DEF Holds, CoveredFrom
      <4>2. h.blocks[b].first_id \in Nat
        BY <2>1 DEF Arenas, BlockKind
      <4>. QED BY <3>1, <4>1, <4>2
    <3>. QED BY <3>2, <3>3 DEF Held
  <2>. HIDE DEF last
  <2>6. Retained(h) = lo .. last
    BY <2>2, <2>3, <2>5
  <2>7. Retained(h) = {} \/ Retained(h) = Min(Retained(h)) .. last
    <3>1. CASE lo <= last
      BY <2>2, <2>6, <3>1, MinInterval
    <3>2. CASE ~(lo <= last)
      BY <2>2, <2>6, <3>2
    <3>. QED BY <3>1, <3>2
  <2>8. (h.recording /\ h.next_id > 1) => last \in Retained(h)
    <3>. SUFFICES ASSUME h.recording, h.next_id > 1 PROVE last \in Retained(h)
      OBVIOUS
    <3>1. Held(h, last)
      BY <2>1 DEF NewestHeld, last
    <3>2. last \in 1 .. last
      BY <2>2 DEF last
    <3>. QED BY <2>3, <3>1, <3>2
  <2>. QED BY <2>7, <2>8 DEF RetainedIsSuffix, last
<1>. QED BY <1>1, Invariant, PTL

\* A retained id decodes to the record that was given that id, with the cycle,
\* timeline, kind and accesses it was recorded with, and the blocks' counts of
\* partial records are exact.
THEOREM LooksUpFaithfully == Spec => []LookupFaithful
<1>1. IInv => LookupFaithful
  <2>. SUFFICES ASSUME IInv PROVE LookupFaithful
    OBVIOUS
  <2>1. Sound(h) /\ h \in Arenas /\ WellFormed(h) /\ Faithful(h, log)
    BY DEF IInv, Recorded, Good, Sound
  <2>2. PartialCounted
    BY <2>1 DEF WellFormed, PartialCounted, Partials
  <2>3. ASSUME NEW id \in Retained(h)
        PROVE  LET d == Decode(h, id) IN
                 /\ d.cycle = log[id].cycle /\ d.timeline = log[id].timeline
                 /\ d.marker = log[id].marker /\ d.partial = ~log[id].complete
                 /\ d.accesses = Min({MaxAccesses, log[id].accesses})
                 /\ d.truncated = (log[id].accesses > MaxAccesses)
    <3>1. id \in 1 .. h.next_id - 1 /\ Held(h, id) /\ h.next_id \in Nat
      BY <2>1, RetainedIs DEF Arenas
    <3>2. id \in Nat \ {0}
      BY <3>1
    <3>3. PICK b \in Blocks : Holds(h, b, id)
      BY <3>1 DEF Held
    <3>. DEFINE k == h.blocks[b]
                i == id - k.first_id + 1
                r == k.records[i]
                l == log[id]
                d == Decode(h, id)
    <3>4. FindRecord(h, id) = b
      BY <2>1, <3>2, <3>3, FindIs
    <3>5. i \in DOMAIN k.records /\ k.first_id + i - 1 = id
      BY <2>1, <3>2, <3>3, RecordOf
    <3>6. Tells(k, r, l)
      <4>1. LET j == k.first_id + i - 1 IN j \in DOMAIN log /\ Tells(k, k.records[i], log[j])
        BY <2>1, <3>5 DEF Faithful
      <4>. HIDE DEF k, i
      <4>. QED BY <3>5, <4>1
    <3>7. d = [cycle |-> k.base_cycle + r.delta, timeline |-> k.timeline, marker |-> r.marker,
               accesses |-> r.accesses, truncated |-> r.truncated, partial |-> r.partial]
      BY <3>4 DEF Decode
    <3>. HIDE DEF k, i, r, l, d
    <3>8. /\ d.cycle = l.cycle /\ d.timeline = l.timeline /\ d.marker = l.marker
          /\ d.partial = ~l.complete /\ d.truncated = (l.accesses > MaxAccesses)
      BY <3>6, <3>7, Zenon DEF Tells
    <3>9. d.accesses = Min({MaxAccesses, l.accesses})
      <4>1. l.accesses \in Int /\ MaxAccesses \in Int
        BY <3>6, SizeAssumption DEF Tells, Entries
      <4>2. d.accesses = IF l.accesses <= MaxAccesses THEN l.accesses ELSE MaxAccesses
        BY <3>6, <3>7 DEF Tells
      <4>. QED BY <4>1, <4>2, MinPair
    <3>. QED BY <3>8, <3>9 DEF d, l
  <2>. QED BY <2>2, <2>3 DEF LookupFaithful
<1>. QED BY <1>1, Invariant, PTL

\* runtime_history_append_observed_access may write without a bounds check:
\* the room reserved by begin_record is still there for every access the
\* active record may take, whatever was called in between.
THEOREM ReservesSpace == Spec => []SpaceReserved
<1>1. IInv => SpaceReserved
  BY DEF IInv, Recorded, Good, Sound, Reserved, SpaceReserved
<1>. QED BY <1>1, Invariant, PTL

-----------------------------------------------------------------------------
(* The size of a block's records.                                          *)

Slots(records) ==
  {s \in (DOMAIN records) \X (1 .. MaxAccesses) : s[2] <= records[s[1]].accesses}
Sized(a) == \A b \in Blocks : SizeOf(a.blocks[b].records) = a.blocks[b].used

LEMMA SizeIs ==
  ASSUME NEW s \in Seq(RecordType)
  PROVE  /\ SizeOf(s) = Len(s) * HeaderSize + Cardinality(Slots(s)) * AccessSize
         /\ IsFiniteSet(Slots(s)) /\ Cardinality(Slots(s)) \in Nat /\ Len(s) \in Nat
         /\ HeaderSize \in Nat /\ AccessSize \in Nat
<1>1. DOMAIN s = 1 .. Len(s) /\ Len(s) \in Nat /\ MaxAccesses \in Nat
  BY SizeAssumption
<1>2. IsFiniteSet(1 .. Len(s)) /\ IsFiniteSet(1 .. MaxAccesses)
  BY <1>1, FS_Interval
<1>3. IsFiniteSet((DOMAIN s) \X (1 .. MaxAccesses))
  BY <1>1, <1>2, FS_Product
<1>4. Slots(s) \in SUBSET ((DOMAIN s) \X (1 .. MaxAccesses))
  BY DEF Slots
<1>5. IsFiniteSet(Slots(s))
  BY <1>3, <1>4, FS_Subset
<1>6. Cardinality(Slots(s)) \in Nat
  BY <1>5, FS_CardinalityType
<1>. QED BY <1>1, <1>5, <1>6, SizeAssumption DEF SizeOf, Slots

LEMMA SizeNone == SizeOf(<<>>) = 0
<1>1. <<>> \in Seq(RecordType) /\ Len(<<>>) = 0
  OBVIOUS
<1>2. Slots(<<>>) = {}
  BY DEF Slots
<1>3. Cardinality(Slots(<<>>)) = 0
  BY <1>2, FS_EmptySet
<1>4. 0 * HeaderSize + 0 * AccessSize = 0
  BY SizeAssumption
<1>5. SizeOf(<<>>) = Len(<<>>) * HeaderSize + Cardinality(Slots(<<>>)) * AccessSize
  BY <1>1, SizeIs
<1>. QED BY <1>1, <1>3, <1>4, <1>5

\* A header is a record without accesses.
LEMMA SizeAppend ==
  ASSUME NEW s \in Seq(RecordType), NEW r \in RecordType, r.accesses = 0
  PROVE  SizeOf(Append(s, r)) = SizeOf(s) + HeaderSize
<1>. DEFINE t == Append(s, r)
<1>1. /\ t \in Seq(RecordType) /\ Len(t) = Len(s) + 1 /\ Len(s) \in Nat
      /\ DOMAIN s = 1 .. Len(s) /\ DOMAIN t = 1 .. Len(s) + 1
      /\ t[Len(s) + 1] = r /\ \A i \in 1 .. Len(s) : t[i] = s[i]
  OBVIOUS
<1>. HIDE DEF t
<1>2. \A i \in DOMAIN t, j \in 1 .. MaxAccesses :
        j <= t[i].accesses <=> i \in DOMAIN s /\ j <= s[i].accesses
  <2>. SUFFICES ASSUME NEW i \in DOMAIN t, NEW j \in 1 .. MaxAccesses
                PROVE  j <= t[i].accesses <=> i \in DOMAIN s /\ j <= s[i].accesses
    OBVIOUS
  <2>1. CASE i \in DOMAIN s
    BY <1>1, <2>1
  <2>2. CASE i \notin DOMAIN s
    <3>1. i = Len(s) + 1
      BY <1>1, <2>2
    <3>2. t[i].accesses = 0
      BY <1>1, <3>1
    <3>3. ~(j <= 0)
      BY SizeAssumption
    <3>. QED BY <2>2, <3>2, <3>3
  <2>. QED BY <2>1, <2>2
<1>3. Slots(t) = Slots(s)
  <2>1. DOMAIN s \subseteq DOMAIN t
    BY <1>1
  <2>. QED BY <1>2, <2>1 DEF Slots
<1>4. SizeOf(t) = (Len(s) + 1) * HeaderSize + Cardinality(Slots(s)) * AccessSize
  BY <1>1, <1>3, SizeIs
<1>5. /\ SizeOf(s) = Len(s) * HeaderSize + Cardinality(Slots(s)) * AccessSize
      /\ Cardinality(Slots(s)) \in Nat /\ HeaderSize \in Nat /\ AccessSize \in Nat
  BY SizeIs
<1>. DEFINE w == Cardinality(Slots(s)) * AccessSize
            v == Len(s) * HeaderSize
<1>6. (Len(s) + 1) * HeaderSize = v + HeaderSize /\ v \in Nat /\ w \in Nat
  BY <1>1, <1>5
<1>. HIDE DEF v, w
<1>7. SizeOf(t) = (v + HeaderSize) + w /\ SizeOf(s) = v + w
  BY <1>4, <1>5, <1>6 DEF v, w
<1>. QED BY <1>5, <1>6, <1>7 DEF t

LEMMA SizeSame ==
  ASSUME NEW s \in Seq(RecordType), NEW t \in Seq(RecordType), Len(t) = Len(s),
         \A i \in DOMAIN s : t[i].accesses = s[i].accesses
  PROVE  SizeOf(t) = SizeOf(s)
<1>1. DOMAIN t = DOMAIN s
  OBVIOUS
<1>2. Slots(t) = Slots(s)
  BY <1>1 DEF Slots
<1>. QED BY <1>2, SizeIs

LEMMA SizeAccess ==
  ASSUME NEW s \in Seq(RecordType), NEW t \in Seq(RecordType), NEW m \in DOMAIN s,
         Len(t) = Len(s), t[m].accesses = s[m].accesses + 1,
         \A i \in DOMAIN s : i # m => t[i].accesses = s[i].accesses
  PROVE  SizeOf(t) = SizeOf(s) + AccessSize
<1>. DEFINE n == s[m].accesses + 1
<1>1. DOMAIN t = DOMAIN s
  OBVIOUS
<1>2. s[m].accesses \in Nat /\ n \in 1 .. MaxAccesses
  <2>1. s[m] \in RecordType /\ t[m] \in RecordType
    BY <1>1
  <2>2. s[m].accesses \in 0 .. MaxAccesses /\ t[m].accesses \in 0 .. MaxAccesses
    BY <2>1 DEF RecordType
  <2>. QED BY <2>2, SizeAssumption
<1>3. \A i \in DOMAIN s, j \in 1 .. MaxAccesses :
        j <= t[i].accesses <=> j <= s[i].accesses \/ (i = m /\ j = n)
  <2>. SUFFICES ASSUME NEW i \in DOMAIN s, NEW j \in 1 .. MaxAccesses
                PROVE  j <= t[i].accesses <=> j <= s[i].accesses \/ (i = m /\ j = n)
    OBVIOUS
  <2>1. CASE i = m
    BY <1>2, <2>1, SizeAssumption
  <2>2. CASE i # m
    BY <2>2
  <2>. QED BY <2>1, <2>2
<1>. HIDE DEF n
<1>4. Slots(t) = Slots(s) \cup {<<m, n>>}
  BY <1>1, <1>2, <1>3 DEF Slots
<1>5. <<m, n>> \notin Slots(s)
  BY <1>2 DEF Slots, n
<1>6. Cardinality(Slots(t)) = Cardinality(Slots(s)) + 1
  <2>1. IsFiniteSet(Slots(s))
    BY SizeIs
  <2>. QED BY <1>4, <1>5, <2>1, FS_AddElement
<1>7. /\ SizeOf(s) = Len(s) * HeaderSize + Cardinality(Slots(s)) * AccessSize
      /\ SizeOf(t) = Len(s) * HeaderSize + (Cardinality(Slots(s)) + 1) * AccessSize
      /\ Cardinality(Slots(s)) \in Nat /\ HeaderSize \in Nat /\ AccessSize \in Nat /\ Len(s) \in Nat
  BY <1>6, SizeIs
<1>. DEFINE w == Cardinality(Slots(s)) * AccessSize
            v == Len(s) * HeaderSize
<1>8. (Cardinality(Slots(s)) + 1) * AccessSize = w + AccessSize /\ v \in Nat /\ w \in Nat
  BY <1>7
<1>. HIDE DEF v, w
<1>9. SizeOf(t) = v + (w + AccessSize) /\ SizeOf(s) = v + w
  BY <1>7, <1>8 DEF v, w
<1>. QED BY <1>7, <1>8, <1>9

-----------------------------------------------------------------------------
(* The oldest record.                                                      *)

\* The blocks with records are the youngest ones.
Dense(a) == \A b, c \in Blocks : Full(a, b) /\ Age(a, c) < Age(a, b) => Full(a, c)

\* While no block is forced and left empty, every block in use holds records,
\* and all of them from the floor on; a floor is there only with records.
Packed(a) ==
  /\ Sized(a) /\ Dense(a)
  /\ \A b \in Blocks : a.blocks[b].occupied /\ a.blocks[b].epoch = a.epoch => Full(a, b)
  /\ \A b \in Blocks : Full(a, b) => a.retain_oldest_id <= a.blocks[b].first_id
  /\ a.retain_oldest_id # 0 => \E b \in Blocks : Full(a, b)

LEMMA PackedSame ==
  ASSUME NEW a, NEW n, Packed(a), n.blocks = a.blocks, n.current = a.current,
         n.epoch = a.epoch, n.retain_oldest_id = a.retain_oldest_id
  PROVE  Packed(n)
<1>1. Sized(n) /\ Dense(n)
  BY DEF Packed, Sized, Dense, Age, Full
<1>. QED BY <1>1 DEF Packed, Full

\* A record put into the current block leaves an arena packed that was packed
\* but for that block.
LEMMA PutFills ==
  ASSUME NEW a, Sound(a), NEW cycle \in 0 .. MaxClock, NEW isMarker \in BOOLEAN,
         NEW required \in Nat, HeaderSize <= required, Fits(a, cycle, required),
         \A b \in Blocks \ {a.current} :
           a.blocks[b].occupied /\ a.blocks[b].epoch = a.epoch => Full(a, b),
         \A b \in Blocks : Full(a, b) => a.retain_oldest_id <= a.blocks[b].first_id,
         Sized(a),
         \A b \in Blocks, c \in Blocks \ {a.current} :
           Full(a, b) /\ Age(a, c) < Age(a, b) => Full(a, c)
  PROVE  LET n == PutRecord(a, cycle, isMarker)
             g == n.blocks[a.current]
         IN /\ Packed(n) /\ a.current \in Blocks /\ Full(n, a.current) /\ g.last_id = a.next_id
            /\ g.first_id = IF Full(a, a.current) THEN a.blocks[a.current].first_id ELSE a.next_id
<1>. DEFINE n == PutRecord(a, cycle, isMarker)
            f == a.current
            g == Grown(a, cycle, isMarker)
<1>1. a \in Arenas /\ WellFormed(a)
  BY DEF Sound
<1>2. /\ n.blocks = [a.blocks EXCEPT ![f] = g] /\ n.epoch = a.epoch
      /\ n.retain_oldest_id = a.retain_oldest_id /\ n.current = f
  BY <1>1, PutIs
<1>3. f \in Blocks /\ f # NoBlock /\ a.blocks[f] \in BlockKind /\ Delta(a, cycle) \in 0 .. MaxDelta
  BY <1>1, FitsGives
<1>4. /\ g.records # <<>> /\ g.last_id = a.next_id
      /\ g.first_id = (IF Full(a, f) THEN a.blocks[f].first_id ELSE a.next_id)
      /\ g.records = Append(a.blocks[f].records, Header(Delta(a, cycle), isMarker))
      /\ g.used = a.blocks[f].used + HeaderSize
  BY <1>1, GrownIs DEF Full
<1>11. SizeOf(g.records) = g.used
  <2>1. /\ Header(Delta(a, cycle), isMarker) \in RecordType
        /\ Header(Delta(a, cycle), isMarker).accesses = 0
    BY <1>3, HeaderKind
  <2>2. a.blocks[f].records \in Seq(RecordType)
    BY <1>3, BlockFacts
  <2>3. SizeOf(a.blocks[f].records) = a.blocks[f].used
    BY <1>3 DEF Sized
  <2>. QED BY <1>4, <2>1, <2>2, <2>3, SizeAppend
<1>. HIDE DEF n, f, g
<1>5. n.blocks[f] = g /\ \A b \in Blocks : b # f => n.blocks[b] = a.blocks[b]
  BY <1>1, <1>2, <1>3 DEF Arenas
<1>6. Full(n, f) /\ \A b \in Blocks : b # f => (Full(n, b) <=> Full(a, b))
  BY <1>4, <1>5 DEF Full
<1>7. n.retain_oldest_id <= g.first_id
  <2>1. a.retain_oldest_id < a.next_id /\ a.retain_oldest_id \in Nat /\ a.next_id \in Nat
    BY <1>1 DEF WellFormed, Arenas
  <2>. QED BY <1>2, <1>3, <1>4, <2>1
<1>8. ASSUME NEW b \in Blocks, n.blocks[b].occupied, n.blocks[b].epoch = n.epoch
      PROVE  Full(n, b)
  BY <1>2, <1>5, <1>6, <1>8 DEF f
<1>9. ASSUME NEW b \in Blocks, Full(n, b)
      PROVE  n.retain_oldest_id <= n.blocks[b].first_id
  BY <1>2, <1>5, <1>6, <1>7, <1>9
<1>12. Sized(n)
  BY <1>5, <1>11 DEF Sized
<1>13. Dense(n)
  <2>. SUFFICES ASSUME NEW b \in Blocks, NEW c \in Blocks, Full(n, b), Age(n, c) < Age(n, b)
                PROVE  Full(n, c)
    BY DEF Dense
  <2>1. Age(n, b) = Age(a, b) /\ Age(n, c) = Age(a, c)
    BY <1>2 DEF Age, f
  <2>2. CASE c = f
    BY <1>6, <2>2
  <2>3. CASE c # f
    <3>1. b # f
      <4>1. Age(a, f) = 0 /\ Age(a, c) >= 0
        BY <1>1, <1>3, AgeZero DEF f
      <4>2. c \in Int /\ f \in Int /\ BlockCount \in Int
        BY <1>3, SizeAssumption DEF Blocks
      <4>3. Age(a, c) \in Int
        BY <4>2 DEF Age, f
      <4>. QED BY <2>1, <4>1, <4>3
    <3>. QED BY <1>6, <2>1, <2>3, <3>1 DEF f
  <2>. QED BY <2>2, <2>3
<1>10. Packed(n)
  BY <1>3, <1>6, <1>8, <1>9, <1>12, <1>13 DEF Packed
<1>. QED BY <1>3, <1>4, <1>5, <1>6, <1>10 DEF n, f

\* Entering a block leaves the others as they were, each a block older.
LEMMA AdvancePacked ==
  ASSUME NEW a, Sound(a), Packed(a), a.active = NoBlock, NEW cycle \in 0 .. MaxClock
  PROVE  LET n == AdvanceBlock(a, cycle) IN
         /\ Sized(n)
         /\ \A b \in Blocks, c \in Blocks \ {n.current} :
              Full(n, b) /\ Age(n, c) < Age(n, b) => Full(n, c)
         /\ \A b \in Blocks \ {n.current} :
              n.blocks[b].occupied /\ n.blocks[b].epoch = n.epoch => Full(n, b)
         /\ \A b \in Blocks : Full(n, b) => n.retain_oldest_id <= n.blocks[b].first_id
<1>. DEFINE n == AdvanceBlock(a, cycle)
            f == Following(a)
            k == Fresh(a, cycle)
            bs == [a.blocks EXCEPT ![f] = k]
<1>1. a \in Arenas /\ WellFormed(a) /\ n \in Arenas
  BY AdvanceSound DEF Sound
<1>2. n = [a EXCEPT !.current = f, !.blocks = bs]
  BY <1>1, AdvanceIs
<1>3. f \in Blocks
  BY <1>1, FollowingIs
<1>4. k.records = <<>> /\ k.used = 0
  BY <1>1, FreshKind
<1>. HIDE DEF n, f, k, bs
<1>5. /\ n.current = f /\ n.blocks = bs /\ n.epoch = a.epoch
      /\ n.retain_oldest_id = a.retain_oldest_id
  BY <1>1, <1>2 DEF Arenas
<1>6. n.blocks[f] = k /\ \A b \in Blocks : b # f => n.blocks[b] = a.blocks[b]
  BY <1>1, <1>3, <1>5 DEF Arenas, bs
<1>7. ~Full(n, f) /\ \A b \in Blocks : b # f => (Full(n, b) <=> Full(a, b))
  BY <1>4, <1>6 DEF Full
<1>8. Sized(n)
  BY <1>4, <1>6, SizeNone DEF Sized, Packed
<1>9. ASSUME NEW b \in Blocks, NEW c \in Blocks \ {f}, Full(n, b), Age(n, c) < Age(n, b)
      PROVE  Full(n, c)
  <2>1. b # f /\ Full(a, b)
    BY <1>7, <1>9
  <2>2. a.current # NoBlock
    BY <1>1, <2>1 DEF WellFormed
  <2>3. Age(a, c) < Age(a, b)
    <3>1. /\ Age(a, b) \in 0 .. BlockCount - 1 /\ Age(n, b) = Age(a, b) + 1
      BY <1>1, <1>5, <2>1, <2>2, Ageing DEF f
    <3>2. /\ Age(a, c) \in 0 .. BlockCount - 1 /\ Age(n, c) = Age(a, c) + 1
      BY <1>1, <1>5, <2>2, Ageing DEF f
    <3>. QED BY <1>9, <3>1, <3>2, SizeAssumption
  <2>. QED BY <1>7, <2>1, <2>3 DEF Packed, Dense
<1>10. \A b \in Blocks \ {f} :
         n.blocks[b].occupied /\ n.blocks[b].epoch = n.epoch => Full(n, b)
  BY <1>5, <1>6, <1>7 DEF Packed
<1>11. ASSUME NEW b \in Blocks, Full(n, b)
       PROVE  n.retain_oldest_id <= n.blocks[b].first_id
  BY <1>5, <1>6, <1>7, <1>11 DEF Packed
<1>. QED BY <1>5, <1>8, <1>9, <1>10, <1>11 DEF n

\* A block entered for a record is not left empty.
LEMMA PutPacked ==
  ASSUME NEW a, Sound(a), Packed(a), a.active = NoBlock, NEW cycle \in 0 .. MaxClock,
         NEW isMarker \in BOOLEAN, NEW required \in Nat, HeaderSize <= required,
         required <= MaxRecordSize
  PROVE  Packed(PutRecord(EnsureSpace(a, cycle, required), cycle, isMarker))
<1>1. CASE Fits(a, cycle, required)
  BY <1>1, PutFills DEF EnsureSpace, Packed, Dense
<1>2. CASE ~Fits(a, cycle, required)
  <2>. DEFINE e == AdvanceBlock(a, cycle)
  <2>1. Sound(e) /\ Fits(e, cycle, required)
    BY AdvanceMakesRoom
  <2>2. /\ Sized(e)
        /\ \A b \in Blocks, c \in Blocks \ {e.current} :
             Full(e, b) /\ Age(e, c) < Age(e, b) => Full(e, c)
        /\ \A b \in Blocks \ {e.current} :
             e.blocks[b].occupied /\ e.blocks[b].epoch = e.epoch => Full(e, b)
        /\ \A b \in Blocks : Full(e, b) => e.retain_oldest_id <= e.blocks[b].first_id
    BY AdvancePacked
  <2>. HIDE DEF e
  <2>3. Packed(PutRecord(e, cycle, isMarker))
    BY <2>1, <2>2, PutFills
  <2>. QED BY <1>2, <2>3 DEF e, EnsureSpace
<1>. QED BY <1>1, <1>2

LEMMA MarkerPacked ==
  ASSUME NEW a, Sound(a), Packed(a), NEW cycle \in 0 .. MaxClock
  PROVE  Packed(AppendMarker(a, cycle))
<1>1. CASE a.recording /\ a.active = NoBlock
  <2>1. HeaderSize \in Nat /\ HeaderSize <= HeaderSize /\ HeaderSize <= MaxRecordSize
    BY HeaderFits
  <2>2. Packed(PutRecord(EnsureSpace(a, cycle, HeaderSize), cycle, TRUE))
    BY <1>1, <2>1, PutPacked
  <2>. QED BY <1>1, <2>2 DEF AppendMarker
<1>2. CASE ~(a.recording /\ a.active = NoBlock)
  BY <1>2 DEF AppendMarker, Sound, Arenas
<1>. QED BY <1>1, <1>2

LEMMA SealPacked ==
  ASSUME NEW a, Sound(a), Packed(a)
  PROVE  Packed(SealPartial(a))
<1>. DEFINE n == SealPartial(a)
<1>1. /\ n.blocks = a.blocks /\ n.current = a.current /\ n.epoch = a.epoch
      /\ n.retain_oldest_id = a.retain_oldest_id
  BY DEF SealPartial, Sound, Arenas
<1>. HIDE DEF n
<1>. QED BY <1>1, PackedSame DEF n

LEMMA FlushPacked ==
  ASSUME NEW a, Sound(a), Packed(a), NEW cycle \in 0 .. MaxClock
  PROVE  Packed(FlushTrap(a, cycle))
BY MarkerPacked DEF FlushTrap

\* Only the active block changes, and it keeps its records' ids.
LEMMA TouchedPacked ==
  ASSUME NEW a, Sound(a), a.active # NoBlock, Packed(a), NEW k, NEW n,
         k.occupied = Block(a).occupied, k.epoch = Block(a).epoch,
         k.first_id = Block(a).first_id, k.records # <<>>, SizeOf(k.records) = k.used,
         n.blocks = [a.blocks EXCEPT ![a.active] = k], n.epoch = a.epoch, n.current = a.current,
         n.retain_oldest_id = a.retain_oldest_id
  PROVE  Packed(n)
<1>. DEFINE f == a.active
<1>1. a \in Arenas /\ f \in Blocks /\ Full(a, f)
  BY DEF Sound, Arenas, Reserved
<1>2. n.blocks[f] = k /\ \A b \in Blocks : b # f => n.blocks[b] = a.blocks[b]
  BY <1>1 DEF Arenas
<1>3. k.occupied = a.blocks[f].occupied /\ k.epoch = a.blocks[f].epoch /\ k.first_id = a.blocks[f].first_id
  BY DEF Block
<1>. HIDE DEF f
<1>4. \A b \in Blocks : Full(n, b) <=> Full(a, b)
  BY <1>1, <1>2 DEF Full
<1>5. \A b \in Blocks : /\ n.blocks[b].occupied = a.blocks[b].occupied
                        /\ n.blocks[b].epoch = a.blocks[b].epoch
                        /\ n.blocks[b].first_id = a.blocks[b].first_id
  BY <1>2, <1>3
<1>6. Sized(n)
  BY <1>2 DEF Sized, Packed
<1>7. Dense(n)
  BY <1>4 DEF Dense, Age, Packed
<1>. QED BY <1>4, <1>5, <1>6, <1>7 DEF Packed

LEMMA AccessPacked ==
  ASSUME NEW a, Sound(a), a.active # NoBlock, Packed(a)
  PROVE  Packed(AppendAccess(a))
<1>. DEFINE k == Block(a)
            m == Len(k.records)
            full == k.records[m].accesses >= MaxAccesses
            s == [k.records EXCEPT ![m].truncated = TRUE]
            t == [k.records EXCEPT ![m].accesses = @ + 1]
            u == k.used + AccessSize
            d == IF full THEN [k EXCEPT !.records = s] ELSE [k EXCEPT !.records = t, !.used = u]
            n == AppendAccess(a)
<1>1. /\ k \in BlockKind /\ m \in DOMAIN k.records /\ k.records \in Seq(RecordType)
      /\ k.records[m] \in RecordType /\ SizeOf(k.records) = k.used
  BY BlockIs DEF Last, Packed, Sized, Block
<1>2. n.blocks = [a.blocks EXCEPT ![a.active] = d] /\ n.epoch = a.epoch
      /\ n.retain_oldest_id = a.retain_oldest_id /\ n.current = a.current
  <2>1. n = [a EXCEPT !.blocks[a.active] = d]
    BY DEF AppendAccess, Block
  <2>. HIDE DEF d, n
  <2>. QED BY <2>1 DEF Sound, Arenas
<1>3. s # <<>> /\ t # <<>>
  <2>1. DOMAIN s = DOMAIN k.records /\ DOMAIN t = DOMAIN k.records /\ DOMAIN <<>> = {}
    OBVIOUS
  <2>. QED BY <1>1, <2>1
<1>5. SizeOf(s) = k.used
  <2>. DEFINE r == [k.records[m] EXCEPT !.truncated = TRUE]
  <2>1. r \in RecordType /\ r.accesses = k.records[m].accesses /\ s = [k.records EXCEPT ![m] = r]
    BY <1>1 DEF RecordType
  <2>. HIDE DEF r, s, k
  <2>2. s \in Seq(RecordType) /\ Len(s) = m /\ \A i \in DOMAIN k.records : s[i].accesses = k.records[i].accesses
    BY <1>1, <2>1
  <2>. QED BY <1>1, <2>2, SizeSame
<1>6. ~full => SizeOf(t) = u
  <2>. SUFFICES ASSUME ~full PROVE SizeOf(t) = u
    OBVIOUS
  <2>. DEFINE c == k.records[m].accesses + 1
              r == [k.records[m] EXCEPT !.accesses = c]
  <2>1. t = [k.records EXCEPT ![m] = r]
    BY <1>1
  <2>2. c \in 0 .. MaxAccesses
    <3>1. k.records[m].accesses \in 0 .. MaxAccesses
      BY <1>1 DEF RecordType
    <3>2. ~(k.records[m].accesses >= MaxAccesses) /\ MaxAccesses \in Nat
      BY SizeAssumption
    <3>. HIDE DEF k, full
    <3>. QED BY <3>1, <3>2
  <2>3. r \in RecordType /\ r.accesses = c
    <3>. HIDE DEF c
    <3>. QED BY <1>1, <2>2 DEF RecordType
  <2>. HIDE DEF r, t, k, u
  <2>4. t \in Seq(RecordType) /\ Len(t) = m /\ t[m] = r
        /\ \A i \in DOMAIN k.records : i # m => t[i] = k.records[i]
    BY <1>1, <2>1, <2>3
  <2>5. SizeOf(t) = SizeOf(k.records) + AccessSize
    BY <1>1, <2>3, <2>4, SizeAccess
  <2>. QED BY <1>1, <2>5 DEF u
<1>. HIDE DEF k, full, s, t, u, n
<1>4. /\ d.occupied = k.occupied /\ d.epoch = k.epoch /\ d.first_id = k.first_id
      /\ d.records # <<>> /\ d.records = (IF full THEN s ELSE t)
      /\ d.used = (IF full THEN k.used ELSE u)
  BY <1>1, <1>3 DEF BlockKind
<1>7. SizeOf(d.records) = d.used
  BY <1>4, <1>5, <1>6
<1>. HIDE DEF d
<1>. QED BY <1>2, <1>4, <1>7, TouchedPacked DEF k, n

LEMMA CompletePacked ==
  ASSUME NEW a, Sound(a), a.active # NoBlock, Packed(a)
  PROVE  Packed(CompleteRecord(a))
<1>. DEFINE k == Block(a)
            m == Len(k.records)
            s == [k.records EXCEPT ![m].partial = FALSE]
            p == IF k.records[m].partial /\ k.partial_count > 0 THEN k.partial_count - 1
                 ELSE k.partial_count
            d == [k EXCEPT !.records = s, !.partial_count = p]
            n == CompleteRecord(a)
<1>1. /\ k \in BlockKind /\ m \in DOMAIN k.records /\ k.records \in Seq(RecordType)
      /\ k.records[m] \in RecordType /\ SizeOf(k.records) = k.used
  BY BlockIs DEF Last, Packed, Sized, Block
<1>2. n.blocks = [a.blocks EXCEPT ![a.active] = d] /\ n.epoch = a.epoch
      /\ n.retain_oldest_id = a.retain_oldest_id /\ n.current = a.current
  <2>1. n = [a EXCEPT !.active = NoBlock, !.blocks[a.active] = d]
    BY DEF CompleteRecord, Block
  <2>. HIDE DEF d, n
  <2>. QED BY <2>1 DEF Sound, Arenas
<1>3. s # <<>>
  <2>1. DOMAIN s = DOMAIN k.records /\ DOMAIN <<>> = {}
    OBVIOUS
  <2>. QED BY <1>1, <2>1
<1>5. SizeOf(s) = k.used
  <2>. DEFINE r == [k.records[m] EXCEPT !.partial = FALSE]
  <2>1. r \in RecordType /\ r.accesses = k.records[m].accesses /\ s = [k.records EXCEPT ![m] = r]
    BY <1>1 DEF RecordType
  <2>. HIDE DEF r, s, k
  <2>2. s \in Seq(RecordType) /\ Len(s) = m /\ \A i \in DOMAIN k.records : s[i].accesses = k.records[i].accesses
    BY <1>1, <2>1
  <2>. QED BY <1>1, <2>2, SizeSame
<1>. HIDE DEF k, s, p, n
<1>4. /\ d.occupied = k.occupied /\ d.epoch = k.epoch /\ d.first_id = k.first_id
      /\ d.records # <<>> /\ d.records = s /\ d.used = k.used
  BY <1>1, <1>3 DEF BlockKind
<1>. HIDE DEF d
<1>. QED BY <1>2, <1>4, <1>5, TouchedPacked DEF k, n

LEMMA FirstNotLast ==
  ASSUME NEW a \in Arenas, WellFormed(a), NEW b \in Blocks, Full(a, b)
  PROVE  LET k == a.blocks[b] IN
         /\ k.first_id \in Nat \ {0} /\ k.last_id \in Nat /\ k.first_id <= k.last_id
         /\ k.last_id < a.next_id /\ a.next_id \in Nat
<1>. DEFINE k == a.blocks[b]
<1>1. k \in BlockKind /\ k.records # <<>> /\ a.next_id \in Nat
  BY DEF Arenas, Full
<1>2. /\ k.first_id \in Nat /\ k.last_id \in Nat /\ Len(k.records) \in Nat
      /\ Len(k.records) >= 1
  BY <1>1, BlockFacts
<1>3. /\ k.first_id >= 1 /\ k.last_id = k.first_id + Len(k.records) - 1
      /\ k.last_id < a.next_id
  BY DEF WellFormed
<1>. HIDE DEF k
<1>. QED BY <1>1, <1>2, <1>3 DEF k

\* A cut at the first record of a block leaves that block and younger ones.
LEMMA RetainPacked ==
  ASSUME NEW a, Sound(a), Packed(a), NEW f \in Blocks, Full(a, f),
         NEW id \in Nat \ {0}, a.blocks[f].first_id = id, Holds(a, f, id)
  PROVE  Packed(RetainFrom(a, id))
<1>. DEFINE n == RetainFrom(a, id)
            gone(b) == a.blocks[b].occupied /\ a.blocks[b].epoch = a.epoch /\ a.blocks[b].last_id < id
            bs == [b \in Blocks |-> IF gone(b) THEN EmptyBlock ELSE a.blocks[b]]
<1>1. a \in Arenas /\ WellFormed(a) /\ Ordered(a) /\ a.current # NoBlock /\ Held(a, id)
  BY DEF Sound, WellFormed, Held
<1>2. n = [a EXCEPT !.retain_oldest_id = id, !.blocks = bs]
  BY <1>1, FindIs DEF RetainFrom, Arenas
<1>3. \A b \in Blocks : IF gone(b) THEN bs[b] = EmptyBlock ELSE bs[b] = a.blocks[b]
  OBVIOUS
<1>. HIDE DEF bs, n
<1>4. n.blocks = bs /\ n.retain_oldest_id = id /\ n.epoch = a.epoch /\ n.current = a.current
  BY <1>1, <1>2 DEF Arenas
<1>5. ~EmptyBlock.occupied /\ EmptyBlock.records = <<>> /\ EmptyBlock.used = 0
  BY DEF EmptyBlock
<1>6. \A b \in Blocks : a.blocks[b].first_id \in Nat /\ a.blocks[b].last_id \in Nat
  BY <1>1 DEF Arenas, BlockKind
<1>7. ~gone(f) /\ Full(n, f)
  BY <1>3, <1>4, <1>6 DEF Holds, Full
<1>8. ASSUME NEW b \in Blocks, n.blocks[b].occupied, n.blocks[b].epoch = n.epoch
      PROVE  Full(n, b)
  <2>1. n.blocks[b] = a.blocks[b]
    BY <1>3, <1>4, <1>5, <1>8
  <2>. QED BY <1>4, <1>8, <2>1 DEF Packed, Full
<1>9. ASSUME NEW b \in Blocks, Full(n, b)
      PROVE  n.retain_oldest_id <= n.blocks[b].first_id
  <2>1. n.blocks[b] = a.blocks[b] /\ Full(a, b) /\ ~gone(b)
    BY <1>3, <1>4, <1>5, <1>9 DEF Full
  <2>2. CASE b = f
    BY <1>4, <1>6, <2>1, <2>2
  <2>3. CASE b # f
    <3>1. ~(a.blocks[b].last_id < id)
      BY <1>1, <2>1 DEF WellFormed
    <3>2. a.blocks[f].last_id < a.blocks[b].first_id
      BY <1>1, <2>1, <2>3, <3>1, AgesDiffer DEF Ordered
    <3>3. id <= a.blocks[f].last_id
      BY DEF Holds
    <3>. QED BY <1>4, <1>6, <2>1, <3>2, <3>3
  <2>. QED BY <2>2, <2>3
<1>11. Sized(n)
  BY <1>3, <1>4, <1>5, SizeNone DEF Sized, Packed
<1>12. ASSUME NEW b \in Blocks, NEW c \in Blocks, Full(n, b), Age(n, c) < Age(n, b)
       PROVE  Full(n, c)
  <2>1. Full(a, b) /\ ~gone(b)
    BY <1>3, <1>4, <1>5, <1>12 DEF Full
  <2>2. Age(a, c) < Age(a, b)
    BY <1>4, <1>12 DEF Age
  <2>3. Full(a, c) /\ a.blocks[b].last_id < a.blocks[c].first_id
    BY <1>1, <2>1, <2>2 DEF Packed, Dense, Ordered
  <2>4. ~(a.blocks[b].last_id < id)
    BY <1>1, <2>1 DEF WellFormed
  <2>5. a.blocks[c].first_id <= a.blocks[c].last_id
    BY <1>1, <2>3, FirstNotLast
  <2>6. ~gone(c)
    BY <1>6, <2>3, <2>4, <2>5
  <2>. QED BY <1>3, <1>4, <2>3, <2>6 DEF Full
<1>13. Dense(n)
  BY <1>12 DEF Dense
<1>10. Packed(n)
  BY <1>7, <1>8, <1>9, <1>11, <1>13 DEF Packed
<1>. QED BY <1>10 DEF n

LEMMA PreparePacked ==
  ASSUME NEW a, NEW x, NEW cycle \in 0 .. MaxClock, Good(a, x), Packed(a)
  PROVE  Packed(PrepareDiscontinuity(a, cycle))
<1>1. Sound(SealPartial(a)) /\ Packed(SealPartial(a))
  BY SealGood, SealPacked DEF Good
<1>. QED BY <1>1, FlushPacked DEF PrepareDiscontinuity

LEMMA ResumePacked ==
  ASSUME NEW a, NEW x, NEW cycle \in 0 .. MaxClock, Fine(a, x, cycle), Packed(a)
  PROVE  Packed(ResumeRecording(a, cycle))
<1>1. CASE a.recording
  BY <1>1 DEF ResumeRecording
<1>2. CASE ~a.recording
  <2>. DEFINE q == [a EXCEPT !.recording = TRUE]
  <2>1. Sound(q)
    BY SwitchGood, NextIdType DEF Good
  <2>2. /\ q.blocks = a.blocks /\ q.current = a.current /\ q.epoch = a.epoch
        /\ q.retain_oldest_id = a.retain_oldest_id
    BY NextIdType DEF Arenas
  <2>3. ResumeRecording(a, cycle) = AppendMarker(q, cycle)
    BY <1>2 DEF ResumeRecording
  <2>. HIDE DEF q
  <2>4. Packed(q)
    BY <2>2, PackedSame
  <2>. QED BY <2>1, <2>3, <2>4, MarkerPacked
<1>. QED BY <1>1, <1>2

LEMMA StopPacked ==
  ASSUME NEW a, NEW x, NEW cycle \in 0 .. MaxClock, Fine(a, x, cycle), Packed(a)
  PROVE  Packed(StopRecording(a, cycle))
<1>1. CASE ~a.recording
  BY <1>1 DEF StopRecording
<1>2. CASE a.recording
  <2>. DEFINE q == SealPartial(a)
              m == AppendMarker(q, cycle)
              n == [m EXCEPT !.recording = FALSE]
  <2>1. Fine(q, x, cycle) /\ Packed(q)
    BY SealFine, SealPacked, NextIdType DEF Good
  <2>2. StopRecording(a, cycle) = n
    BY <1>2 DEF StopRecording
  <2>. HIDE DEF q
  <2>3. Sound(q) /\ Fine(m, x, cycle)
    BY <2>1, MarkerFine, NextIdType DEF Good
  <2>4. Packed(m)
    BY <2>1, <2>3, MarkerPacked
  <2>. HIDE DEF m
  <2>5. /\ n.blocks = m.blocks /\ n.current = m.current /\ n.epoch = m.epoch
        /\ n.retain_oldest_id = m.retain_oldest_id
    BY <2>3, NextIdType DEF Arenas
  <2>. HIDE DEF n
  <2>. QED BY <2>2, <2>4, <2>5, PackedSame
<1>. QED BY <1>1, <1>2

LEMMA TransitionPacked ==
  ASSUME NEW a, Sound(a), Packed(a)
  PROVE  Packed(TransitionTimeline(a))
<1>. DEFINE n == TransitionTimeline(a)
<1>1. /\ n.blocks = a.blocks /\ n.current = a.current /\ n.epoch = a.epoch
      /\ n.retain_oldest_id = a.retain_oldest_id
  BY DEF TransitionTimeline, SealPartial, Sound, Arenas
<1>. HIDE DEF n
<1>. QED BY <1>1, PackedSame DEF n

\* The block that a media event forces gets the marker, and the floor is that.
LEMMA CutPacked ==
  ASSUME NEW a, NEW x, NEW cycle \in 0 .. MaxClock, Good(a, x), Packed(a), a.recording
  PROVE  LET cut == AppendMarker(ForceNewBlock(a, cycle), cycle)
         IN Packed(RetainFrom(cut, cut.next_id - 1))
<1>. DEFINE q == SealPartial(a)
            e == AdvanceBlock(q, cycle)
            n == PutRecord(e, cycle, TRUE)
            f == e.current
            id == n.next_id - 1
<1>0. HeaderSize \in Nat /\ HeaderSize <= HeaderSize /\ HeaderSize <= MaxRecordSize
  BY HeaderFits
<1>1. Sound(q) /\ Packed(q) /\ q.active = NoBlock /\ q.recording
  BY SealGood, SealPacked DEF Good, SameHead
<1>2. ForceNewBlock(a, cycle) = e
  BY DEF ForceNewBlock
<1>. HIDE DEF q
<1>3. /\ Sound(e) /\ Fits(e, cycle, HeaderSize) /\ SameHead(e, q) /\ e.active = NoBlock
      /\ ~Full(e, f) /\ \A b \in Blocks : b # f => e.blocks[b] = q.blocks[b]
  BY <1>0, <1>1, AdvanceMakesRoom
<1>5. /\ Sized(e)
      /\ \A b \in Blocks, c \in Blocks \ {f} :
           Full(e, b) /\ Age(e, c) < Age(e, b) => Full(e, c)
      /\ \A b \in Blocks \ {f} :
           e.blocks[b].occupied /\ e.blocks[b].epoch = e.epoch => Full(e, b)
      /\ \A b \in Blocks : Full(e, b) => e.retain_oldest_id <= e.blocks[b].first_id
  BY <1>1, AdvancePacked
<1>. HIDE DEF e
<1>4. AppendMarker(e, cycle) = n
  BY <1>1, <1>3 DEF AppendMarker, EnsureSpace, SameHead
<1>7. /\ Packed(n) /\ f \in Blocks /\ Full(n, f)
      /\ n.blocks[f].last_id = e.next_id /\ n.blocks[f].first_id = e.next_id
  BY <1>0, <1>3, <1>5, PutFills
<1>8. e \in Arenas /\ n.next_id = e.next_id + 1 /\ Sound(n)
  BY <1>0, <1>3, PutIs, PutSound DEF Sound
<1>. HIDE DEF n, f
<1>9. e.next_id \in Nat \ {0} /\ id = e.next_id
  <2>1. e.next_id \in Nat \ {0}
    BY <1>8 DEF Arenas
  <2>. QED BY <1>8, <2>1
<1>10. Holds(n, f, id)
  BY <1>7, <1>9 DEF Holds
<1>11. Packed(RetainFrom(n, id))
  BY <1>7, <1>8, <1>9, <1>10, RetainPacked
<1>. QED BY <1>2, <1>4, <1>11

LEMMA EmptyPacked ==
  ASSUME NEW a, \A b \in Blocks : a.blocks[b] = EmptyBlock, a.retain_oldest_id = 0
  PROVE  Packed(a)
<1>1. \A b \in Blocks : ~a.blocks[b].occupied /\ ~Full(a, b)
  BY DEF EmptyBlock, Full
<1>2. Sized(a)
  <2>1. EmptyBlock.records = <<>> /\ EmptyBlock.used = 0
    BY EmptyKind
  <2>. QED BY <2>1, SizeNone DEF Sized
<1>. QED BY <1>1, <1>2 DEF Packed, Dense

LEMMA ClearedPacked ==
  ASSUME NEW a \in Arenas, NEW timeline
  PROVE  Packed(Cleared(a, timeline))
<1>. DEFINE n == Cleared(a, timeline)
            bs == [b \in Blocks |-> EmptyBlock]
<1>1. n.blocks = bs /\ n.retain_oldest_id = 0
  BY DEF Cleared, Arenas
<1>. HIDE DEF n
<1>2. \A b \in Blocks : bs[b] = EmptyBlock
  OBVIOUS
<1>. QED BY <1>1, <1>2, EmptyPacked DEF n

LEMMA NextPacked ==
  ASSUME MediaWhileStopped = FALSE, IInv, Packed(h), Next
  PROVE  Packed(h')
<1>. DEFINE c == clock'
            x(t) == Extend(log, t, h.timeline, TRUE)
<1>1. /\ Recorded(h, log) /\ Sound(h) /\ Good(h, log) /\ h \in Arenas
      /\ clock \in 0 .. MaxClock
  BY DEF IInv, Recorded, Good, Sound
<1>2. \A t : Fine(h, x(t), t) /\ Good(h, x(t))
  BY <1>1, Begun, NextIdType
<1>3. Now \subseteq 0 .. MaxClock
  BY <1>1, BoundsAssumption DEF Now
<1>4. CASE ObserverBegin
  <2>1. c \in 0 .. MaxClock /\ h' = BeginRecord(h, c) /\ h.recording /\ h.active = NoBlock
    BY <1>3, <1>4 DEF ObserverBegin
  <2>2. MaxRecordSize \in Nat /\ HeaderSize <= MaxRecordSize /\ MaxRecordSize <= MaxRecordSize
    BY HeaderFits
  <2>3. Packed(PutRecord(EnsureSpace(h, c, MaxRecordSize), c, FALSE))
    BY <1>1, <2>1, <2>2, PutPacked
  <2>. QED BY <2>1, <2>3 DEF BeginRecord
<1>5. CASE ObserverAccess
  BY <1>1, <1>5, AccessPacked DEF ObserverAccess
<1>6. CASE ObserverComplete
  <2>. DEFINE q == CompleteRecord(h)
  <2>1. c \in 0 .. MaxClock /\ h' = FlushTrap(q, c)
    BY <1>3, <1>6 DEF ObserverComplete
  <2>2. Packed(q) /\ Sound(q)
    <3>1. CASE h.active = NoBlock
      BY <1>1, <3>1 DEF CompleteRecord
    <3>2. CASE h.active # NoBlock
      BY <1>1, <3>2, CompletePacked, CompleteGood DEF SameRecords, Good
    <3>. QED BY <3>1, <3>2
  <2>. HIDE DEF q
  <2>. QED BY <2>1, <2>2, FlushPacked
<1>7. CASE HostTrap
  <2>1. c \in 0 .. MaxClock /\ h' \in {AppendMarker(h, c), h}
    BY <1>3, <1>7 DEF HostTrap
  <2>. QED BY <1>1, <2>1, MarkerPacked
<1>8. CASE CommitMarker
  <2>. DEFINE q == PrepareDiscontinuity(h, c)
  <2>1. c \in 0 .. MaxClock /\ h' = AppendMarker(q, c)
    BY <1>3, <1>8 DEF CommitMarker
  <2>2. Packed(q) /\ Sound(q)
    BY <1>2, <2>1, PrepareFine, PreparePacked, NextIdType DEF Good
  <2>. HIDE DEF q
  <2>. QED BY <2>1, <2>2, MarkerPacked
<1>9. CASE ResetMachine
  <2>. DEFINE q == PrepareDiscontinuity(h, clock)
              t == TransitionTimeline(q)
  <2>1. h' = AppendMarker(t, 0) /\ 0 \in 0 .. MaxClock /\ h.timeline < MaxTimeline
    BY <1>9, BoundsAssumption DEF ResetMachine
  <2>2. Packed(q) /\ Good(q, x(clock)) /\ q.timeline = h.timeline
    BY <1>1, <1>2, PrepareFine, PreparePacked, NextIdType DEF After, SameHead
  <2>. HIDE DEF q
  <2>3. Packed(t) /\ Sound(t)
    BY <2>1, <2>2, TransitionGood, TransitionPacked DEF Good
  <2>. HIDE DEF t
  <2>. QED BY <2>1, <2>3, MarkerPacked
<1>10. ASSUME NEW enabled \in BOOLEAN, NEW offOnMax \in BOOLEAN, HistoryRecord(enabled, offOnMax)
       PROVE  Packed(h')
  <2>. DEFINE q == IF enabled THEN ResumeRecording(h, c) ELSE h
  <2>1. c \in 0 .. MaxClock /\ h' = IF enabled /\ ~offOnMax THEN q ELSE StopRecording(q, c)
    BY <1>3, <1>10 DEF HistoryRecord
  <2>2. Packed(q) /\ Fine(q, x(c), c)
    BY <1>2, <2>1, ResumeFine, ResumePacked
  <2>. HIDE DEF q
  <2>3. Packed(StopRecording(q, c))
    BY <2>1, <2>2, StopPacked
  <2>. QED BY <2>1, <2>2, <2>3
<1>11. ASSUME NEW a \in Arenas, a.epoch = h.epoch, NEW timeline \in 0 .. MaxTimeline,
              NewEpoch(a, timeline), c \in 0 .. MaxClock
       PROVE  Packed(h')
  <2>. DEFINE q == Cleared(a, timeline)
  <2>1. h' = AppendMarker(q, c) /\ a.epoch < MaxEpoch
    BY <1>11 DEF NewEpoch, ClearEpoch, Cleared
  <2>2. Packed(q) /\ Sound(q)
    BY <2>1, ClearedGood, ClearedPacked DEF Good
  <2>. HIDE DEF q
  <2>. QED BY <1>11, <2>1, <2>2, MarkerPacked
<1>12. 0 \in 0 .. MaxTimeline /\ 1 \in 0 .. MaxTimeline
  BY BoundsAssumption
<1>13. CASE HistoryClear
  <2>. DEFINE q == PrepareDiscontinuity(h, c)
  <2>1. c \in 0 .. MaxClock /\ NewEpoch(q, 0)
    BY <1>3, <1>13 DEF HistoryClear
  <2>2. q \in Arenas /\ q.epoch = h.epoch
    BY <1>2, <2>1, PrepareFine, NextIdType DEF After, SameHead
  <2>. HIDE DEF q
  <2>. QED BY <1>11, <1>12, <2>1, <2>2
<1>14. CASE LoadState
  BY <1>1, <1>11, <1>12, <1>14 DEF LoadState
<1>15. CASE MediaEvent
  <2>1. c \in 0 .. MaxClock /\ h.recording
    BY <1>3, <1>15 DEF MediaEvent
  <2>2. LET cut == AppendMarker(ForceNewBlock(h, c), c)
        IN h' = RetainFrom(cut, cut.next_id - 1)
    BY <1>15, <2>1 DEF MediaEvent
  <2>. QED BY <1>1, <2>1, <2>2, CutPacked
<1>. QED BY <1>4, <1>5, <1>6, <1>7, <1>8, <1>9, <1>10, <1>13, <1>14, <1>15 DEF Next

LEMMA MinIs ==
  ASSUME NEW S, S \subseteq Int, NEW m \in S, \A y \in S : m <= y
  PROVE  Min(S) = m
<1>1. \A v \in S : (\A y \in S : v <= y) => v = m
  OBVIOUS
<1>. QED BY <1>1 DEF Min

\* The first id of the oldest block is the oldest retained id.
LEMMA OldestIs ==
  ASSUME IInv, NEW b0 \in Blocks, Full(h, b0)
  PROVE  \E m \in Nat \ {0} :
           /\ Retained(h) # {} /\ Min(Retained(h)) = m
           /\ \E b \in Blocks : Full(h, b) /\ h.blocks[b].first_id = m
           /\ \A b \in Blocks : Full(h, b) => m <= h.blocks[b].first_id
<1>1. Sound(h) /\ h \in Arenas /\ Covered(h) /\ WellFormed(h) /\ h.next_id \in Nat
  BY DEF IInv, Recorded, Good, Sound, Arenas
<1>2. Retained(h) = {id \in 1 .. h.next_id - 1 : Held(h, id)}
  BY <1>1, RetainedIs
<1>3. ASSUME NEW b \in Blocks, Full(h, b)
      PROVE  LET k == h.blocks[b] IN
             /\ k.first_id \in Nat \ {0} /\ k.last_id \in Nat /\ k.first_id < h.next_id
             /\ Holds(h, b, k.first_id) /\ k.first_id \in Retained(h)
  <2>. DEFINE k == h.blocks[b]
  <2>1. /\ k.first_id \in Nat \ {0} /\ k.last_id \in Nat /\ k.first_id <= k.last_id
        /\ k.last_id < h.next_id
    BY <1>1, <1>3, FirstNotLast
  <2>2. Holds(h, b, k.first_id)
    BY <1>3, <2>1 DEF Holds
  <2>. HIDE DEF k
  <2>3. k.first_id \in 1 .. h.next_id - 1 /\ k.first_id < h.next_id
    BY <1>1, <2>1
  <2>. QED BY <1>2, <2>1, <2>2, <2>3 DEF k, Held
<1>4. PICK lo \in Nat \ {0} : CoveredFrom(h, lo)
  BY <1>1 DEF Covered
<1>5. lo < h.next_id /\ \A b \in Blocks : Full(h, b) => lo <= h.blocks[b].first_id
  BY <1>1, <1>3, <1>4 DEF CoveredFrom
<1>6. PICK b1 \in Blocks : Holds(h, b1, lo)
  BY <1>1, <1>4, <1>5 DEF CoveredFrom, Held
<1>7. Full(h, b1) /\ h.blocks[b1].first_id = lo
  BY <1>3, <1>5, <1>6 DEF Holds
<1>8. ASSUME NEW id \in Retained(h) PROVE lo <= id
  <2>1. id \in Nat /\ Held(h, id)
    BY <1>1, <1>2
  <2>2. PICK b \in Blocks : Holds(h, b, id)
    BY <2>1 DEF Held
  <2>3. Full(h, b) /\ h.blocks[b].first_id <= id
    BY <2>2 DEF Holds
  <2>. QED BY <1>3, <1>5, <2>1, <2>3
<1>9. lo \in Retained(h) /\ Retained(h) \subseteq Int
  BY <1>1, <1>2, <1>3, <1>7
<1>10. Min(Retained(h)) = lo
  BY <1>8, <1>9, MinIs
<1>. QED BY <1>5, <1>7, <1>9, <1>10

LEMMA PackedFirst ==
  ASSUME IInv, Packed(h)
  PROVE  FirstIsOldest
<1>. DEFINE here == {b \in Blocks : h.blocks[b].occupied /\ h.blocks[b].epoch = h.epoch}
            bare == {b \in here : h.blocks[b].first_id = 0}
            behind == {b \in here : \A e \in bare : e < b}
            firsts == {h.blocks[b].first_id : b \in behind}
            newest == Greatest({h.blocks[b].last_id : b \in here})
            floor == h.retain_oldest_id
<1>1. Sound(h) /\ h \in Arenas /\ WellFormed(h) /\ h.next_id \in Nat /\ floor \in Nat
  BY DEF IInv, Recorded, Good, Sound, Arenas
<1>2. \A b \in Blocks : b \in here <=> Full(h, b)
  BY <1>1 DEF Packed, WellFormed
<1>3. \A b \in Blocks : Full(h, b) => h.blocks[b].first_id \in Nat \ {0}
  BY <1>1 DEF WellFormed, Arenas, BlockKind
<1>4. bare = {}
  BY <1>2, <1>3
<1>5. \A b : b \in behind <=> b \in Blocks /\ Full(h, b)
  BY <1>2, <1>4
<1>6. StatusOldest(h) = IF floor > Least(firsts) /\ (newest = 0 \/ floor <= newest)
                        THEN floor ELSE Least(firsts)
  BY DEF StatusOldest
<1>. HIDE DEF here, bare, behind, newest, floor
<1>7. CASE \E b \in Blocks : Full(h, b)
  <2>1. PICK m \in Nat \ {0} :
           /\ Retained(h) # {} /\ Min(Retained(h)) = m
           /\ \E b \in Blocks : Full(h, b) /\ h.blocks[b].first_id = m
           /\ \A b \in Blocks : Full(h, b) => m <= h.blocks[b].first_id
    BY <1>7, OldestIs
  <2>2. m \in firsts /\ firsts \subseteq Int /\ \A y \in firsts : m <= y
    BY <1>3, <1>5, <2>1
  <2>. HIDE DEF firsts
  <2>3. Least(firsts) = m
    BY <2>2, MinIs DEF Least
  <2>4. floor <= m
    BY <2>1 DEF Packed, floor
  <2>5. StatusOldest(h) = m
    BY <1>1, <1>6, <2>3, <2>4
  <2>. QED BY <2>1, <2>5 DEF FirstIsOldest, Least
<1>8. CASE \A b \in Blocks : ~Full(h, b)
  <2>1. firsts = {}
    BY <1>5, <1>8
  <2>2. floor = 0
    BY <1>8 DEF Packed, floor
  <2>3. Least(firsts) = 0
    BY <2>1 DEF Least
  <2>4. StatusOldest(h) = 0
    BY <1>6, <2>2, <2>3
  <2>5. Retained(h) = {}
    BY <1>1, <1>8, RetainedIs DEF Held, Holds
  <2>. QED BY <2>4, <2>5 DEF FirstIsOldest, Least
<1>. QED BY <1>7, <1>8

-----------------------------------------------------------------------------
(* FIND: the walk through the ring.                                        *)

Directions == {"forward", "backward"}

\* How old the block is that a scan reaches in k steps from block s.
AgeAfter(a, d, s, k) == IF d = "forward" THEN Age(a, s) - k ELSE Age(a, s) + k

LEMMA ModIs ==
  ASSUME NEW n \in Nat \ {0}, NEW x \in 0 .. n - 1
  PROVE  x % n = x /\ (x + n) % n = x
OBVIOUS

LEMMA StepAge ==
  ASSUME NEW a \in Arenas, a.current # NoBlock, NEW s \in Blocks, NEW d \in Directions,
         NEW k \in Nat, AgeAfter(a, d, s, k) \in 0 .. BlockCount - 1
  PROVE  /\ Neighbour(d, s, k) \in Blocks
         /\ Age(a, Neighbour(d, s, k)) = AgeAfter(a, d, s, k)
<1>. DEFINE c == a.current
            n == BlockCount
            g == AgeAfter(a, d, s, k)
            b == IF g <= c THEN c - g ELSE c - g + n
<1>1. /\ s \in 0 .. n - 1 /\ c \in 0 .. n - 1 /\ n \in Nat \ {0} /\ g \in 0 .. n - 1
  BY SizeAssumption DEF Blocks, Arenas
<1>2. Age(a, s) = IF s <= c THEN c - s ELSE c - s + n
  BY DEF Age
<1>. HIDE DEF g
<1>3. b \in 0 .. n - 1
  BY <1>1
<1>4. g = IF b <= c THEN c - b ELSE c - b + n
  BY <1>1, <1>3
<1>5. Neighbour(d, s, k) = b
  <2>1. CASE d = "forward"
    <3>1. g = Age(a, s) - k /\ Neighbour(d, s, k) = (s + k) % n
      BY <2>1 DEF g, AgeAfter, Neighbour
    <3>2. s + k \in {b, b + n}
      BY <1>1, <1>2, <3>1
    <3>. HIDE DEF b
    <3>. QED BY <1>1, <1>3, <3>1, <3>2, ModIs
  <2>2. CASE d # "forward"
    <3>1. g = Age(a, s) + k /\ Neighbour(d, s, k) = (s + n - k) % n
      BY <2>2 DEF g, AgeAfter, Neighbour
    <3>2. s + n - k \in {b, b + n}
      BY <1>1, <1>2, <3>1
    <3>. HIDE DEF b
    <3>. QED BY <1>1, <1>3, <3>1, <3>2, ModIs
  <2>. QED BY <2>1, <2>2
<1>. HIDE DEF b
<1>6. Age(a, b) = g
  BY <1>4 DEF Age
<1>. QED BY <1>3, <1>5, <1>6 DEF Blocks, g

LEMMA AgeType ==
  ASSUME NEW a \in Arenas, a.current # NoBlock, NEW b \in Blocks
  PROVE  Age(a, b) \in 0 .. BlockCount - 1 /\ BlockCount \in Nat \ {0}
<1>1. b \in 0 .. BlockCount - 1 /\ a.current \in 0 .. BlockCount - 1 /\ BlockCount \in Nat \ {0}
  BY SizeAssumption DEF Blocks, Arenas
<1>. QED BY <1>1 DEF Age

LEMMA SameAge ==
  ASSUME NEW a \in Arenas, a.current # NoBlock, NEW b \in Blocks, NEW c \in Blocks,
         Age(a, b) = Age(a, c)
  PROVE  b = c
<1>1. Age(a, b) \in Int /\ Age(a, c) \in Int
  BY AgeType
<1>. QED BY <1>1, AgesDiffer

\* A block continues where the next older one ends.
LEMMA Adjacent ==
  ASSUME NEW a, Sound(a), NEW b \in Blocks, NEW c \in Blocks, Full(a, b), Full(a, c),
         Age(a, b) = Age(a, c) + 1
  PROVE  a.blocks[c].first_id = a.blocks[b].last_id + 1
<1>1. a \in Arenas /\ WellFormed(a) /\ Ordered(a) /\ Covered(a) /\ a.current # NoBlock
  BY DEF Sound, WellFormed
<1>2. Age(a, b) \in Int /\ Age(a, c) \in Int /\ Age(a, c) < Age(a, b)
  BY <1>1, AgeType
<1>3. a.blocks[b].last_id < a.blocks[c].first_id
  BY <1>1, <1>2 DEF Ordered
<1>4. \A x \in Blocks : Full(a, x) =>
        /\ a.blocks[x].first_id \in Nat /\ a.blocks[x].last_id \in Nat
        /\ a.blocks[x].first_id <= a.blocks[x].last_id /\ a.blocks[x].last_id < a.next_id
        /\ a.next_id \in Nat
  BY <1>1, FirstNotLast
<1>5. ASSUME a.blocks[b].last_id + 1 < a.blocks[c].first_id PROVE FALSE
  <2>. DEFINE id == a.blocks[b].last_id + 1
  <2>1. PICK lo \in Nat \ {0} : CoveredFrom(a, lo)
    BY <1>1 DEF Covered
  <2>2. lo <= a.blocks[b].first_id
    BY <2>1 DEF CoveredFrom
  <2>3. id \in Nat /\ lo <= id /\ id < a.next_id
    BY <1>4, <1>5, <2>2
  <2>. HIDE DEF id
  <2>4. PICK x \in Blocks : Holds(a, x, id)
    BY <2>1, <2>3 DEF CoveredFrom, Held
  <2>5. Full(a, x) /\ a.blocks[x].first_id <= id /\ id <= a.blocks[x].last_id
    BY <2>4 DEF Holds
  <2>6. ~(Age(a, x) < Age(a, c))
    <3>1. ~(a.blocks[c].last_id < a.blocks[x].first_id)
      BY <1>4, <1>5, <2>5 DEF id
    <3>. QED BY <1>1, <2>5, <3>1 DEF Ordered
  <2>7. ~(Age(a, b) < Age(a, x))
    <3>1. ~(a.blocks[x].last_id < a.blocks[b].first_id)
      BY <1>4, <2>5 DEF id
    <3>. QED BY <1>1, <2>5, <3>1 DEF Ordered
  <2>8. Age(a, x) = Age(a, c) \/ Age(a, x) = Age(a, b)
    <3>1. Age(a, x) \in Int
      BY <1>1, AgeType
    <3>. QED BY <1>2, <2>6, <2>7, <3>1
  <2>9. x = c \/ x = b
    BY <1>1, <2>8, SameAge
  <2>. QED BY <1>4, <1>5, <2>5, <2>9 DEF id
<1>. QED BY <1>3, <1>4, <1>5

\* The current block ends with the newest record.
LEMMA YoungestIs ==
  ASSUME NEW a, Sound(a), Dense(a), NEW b0 \in Blocks, Full(a, b0)
  PROVE  /\ a.current \in Blocks /\ Full(a, a.current) /\ Age(a, a.current) = 0
         /\ a.blocks[a.current].last_id = a.next_id - 1
         /\ Held(a, a.next_id - 1) /\ a.next_id - 1 \in Nat \ {0}
<1>. DEFINE c == a.current
            id == a.next_id - 1
<1>1. a \in Arenas /\ WellFormed(a) /\ Ordered(a) /\ Covered(a) /\ c # NoBlock
  BY DEF Sound, WellFormed
<1>2. c \in Blocks /\ Age(a, c) = 0
  BY <1>1, AgeZero DEF Arenas
<1>3. \A x \in Blocks : Full(a, x) =>
        /\ a.blocks[x].first_id \in Nat \ {0} /\ a.blocks[x].last_id \in Nat
        /\ a.blocks[x].first_id <= a.blocks[x].last_id /\ a.blocks[x].last_id < a.next_id
        /\ a.next_id \in Nat
  BY <1>1, FirstNotLast
<1>4. PICK lo \in Nat \ {0} : CoveredFrom(a, lo)
  BY <1>1 DEF Covered
<1>5. lo <= a.blocks[b0].first_id
  BY <1>4 DEF CoveredFrom
<1>6. id \in Nat \ {0} /\ lo <= id /\ id < a.next_id
  BY <1>3, <1>5
<1>7. Held(a, id)
  BY <1>4, <1>6 DEF CoveredFrom
<1>. HIDE DEF c
<1>8. PICK x \in Blocks : Holds(a, x, id)
  BY <1>7 DEF Held
<1>9. Full(a, x) /\ a.blocks[x].first_id <= id /\ id <= a.blocks[x].last_id
  BY <1>8 DEF Holds
<1>10. x = c
  <2>. SUFFICES ASSUME x # c PROVE FALSE
    OBVIOUS
  <2>1. Age(a, c) < Age(a, x)
    <3>1. Age(a, x) \in 0 .. BlockCount - 1 /\ BlockCount \in Nat \ {0}
      BY <1>1, AgeType DEF c
    <3>2. Age(a, x) # 0
      BY <1>1, AgeZero DEF c
    <3>. QED BY <1>2, <3>1, <3>2
  <2>2. Full(a, c) /\ a.blocks[x].last_id < a.blocks[c].first_id
    BY <1>1, <1>2, <1>9, <2>1 DEF Dense, Ordered
  <2>. QED BY <1>2, <1>3, <1>9, <2>2
<1>11. Full(a, c) /\ a.blocks[c].last_id = id
  BY <1>3, <1>6, <1>9, <1>10
<1>. QED BY <1>2, <1>6, <1>7, <1>11 DEF c

\* No block is older than the one that begins with the oldest record.
LEMMA EldestIs ==
  ASSUME NEW a, Sound(a), NEW o \in Blocks, Full(a, o),
         \A b \in Blocks : Full(a, b) => a.blocks[o].first_id <= a.blocks[b].first_id,
         NEW b \in Blocks, Full(a, b)
  PROVE  Age(a, b) <= Age(a, o)
<1>1. a \in Arenas /\ WellFormed(a) /\ Ordered(a) /\ a.current # NoBlock
  BY DEF Sound, WellFormed
<1>2. \A x \in Blocks : Full(a, x) =>
        /\ a.blocks[x].first_id \in Nat \ {0} /\ a.blocks[x].last_id \in Nat
        /\ a.blocks[x].first_id <= a.blocks[x].last_id
  BY <1>1, FirstNotLast
<1>3. ~(a.blocks[b].last_id < a.blocks[o].first_id)
  BY <1>2
<1>4. ~(Age(a, o) < Age(a, b))
  BY <1>1, <1>3 DEF Ordered
<1>5. Age(a, o) \in Int /\ Age(a, b) \in Int
  BY <1>1, AgeType
<1>. QED BY <1>4, <1>5

\* The blocks from s on in direction d, up to the one that is last steps away.
Before(a, d, b, c) == IF d = "forward" THEN Age(a, c) <= Age(a, b) ELSE Age(a, b) <= Age(a, c)
Path(a, d, s, last) ==
  /\ last \in Nat
  /\ \A k \in 0 .. last :
       /\ Neighbour(d, s, k) \in Blocks /\ Full(a, Neighbour(d, s, k))
       /\ Age(a, Neighbour(d, s, k)) = AgeAfter(a, d, s, k)
  /\ \A b \in Blocks : Full(a, b) /\ Before(a, d, s, b) =>
       \E k \in 0 .. last : b = Neighbour(d, s, k)

LEMMA PathTo ==
  ASSUME NEW a, Sound(a), Dense(a), NEW d \in Directions, NEW s \in Blocks, Full(a, s),
         NEW e \in Blocks, Full(a, e),
         \A b \in Blocks : Full(a, b) => Before(a, d, b, e)
  PROVE  \E last \in 0 .. BlockCount - 1 : Path(a, d, s, last) /\ Neighbour(d, s, last) = e
<1>1. a \in Arenas /\ a.current # NoBlock
  BY DEF Sound, WellFormed
<1>2. \A b \in Blocks : Age(a, b) \in 0 .. BlockCount - 1 /\ BlockCount \in Nat \ {0}
  BY <1>1, AgeType
<1>. DEFINE Away(b) == IF d = "forward" THEN Age(a, s) - Age(a, b) ELSE Age(a, b) - Age(a, s)
            last == Away(e)
<1>3. last \in 0 .. BlockCount - 1
  BY <1>2 DEF Before
<1>4. \A b \in Blocks : Before(a, d, s, b) =>
        Away(b) \in 0 .. BlockCount - 1 /\ AgeAfter(a, d, s, Away(b)) = Age(a, b)
  BY <1>2 DEF Before, AgeAfter
<1>5. ASSUME NEW b \in Blocks, Before(a, d, s, b)
      PROVE  b = Neighbour(d, s, Away(b))
  <2>1. Away(b) \in Nat /\ AgeAfter(a, d, s, Away(b)) = Age(a, b)
    BY <1>2, <1>4, <1>5
  <2>. HIDE DEF Away
  <2>2. /\ Neighbour(d, s, Away(b)) \in Blocks
        /\ Age(a, Neighbour(d, s, Away(b))) = Age(a, b)
    BY <1>1, <1>2, <2>1, StepAge
  <2>. QED BY <1>1, <2>2, SameAge
<1>6. ASSUME NEW k \in 0 .. last
      PROVE  /\ Neighbour(d, s, k) \in Blocks /\ Full(a, Neighbour(d, s, k))
             /\ Age(a, Neighbour(d, s, k)) = AgeAfter(a, d, s, k)
  <2>. DEFINE b == Neighbour(d, s, k)
  <2>1. k \in Nat /\ AgeAfter(a, d, s, k) \in 0 .. BlockCount - 1
    BY <1>2, <1>3, <1>6 DEF AgeAfter
  <2>2. b \in Blocks /\ Age(a, b) = AgeAfter(a, d, s, k)
    BY <1>1, <2>1, StepAge
  <2>. HIDE DEF b
  <2>3. Age(a, b) <= Age(a, s) \/ Age(a, b) <= Age(a, e)
    BY <1>2, <1>6, <2>2 DEF AgeAfter
  <2>4. ASSUME NEW x \in Blocks, Full(a, x), Age(a, b) <= Age(a, x) PROVE Full(a, b)
    <3>1. CASE Age(a, b) = Age(a, x)
      BY <1>1, <2>2, <2>4, <3>1, SameAge
    <3>2. CASE Age(a, b) # Age(a, x)
      <4>1. Age(a, b) < Age(a, x)
        BY <1>2, <2>2, <2>4, <3>2
      <4>. QED BY <2>2, <2>4, <4>1 DEF Dense
    <3>. QED BY <3>1, <3>2
  <2>5. Full(a, b)
    BY <2>3, <2>4
  <2>. QED BY <2>2, <2>5 DEF b
<1>7. ASSUME NEW b \in Blocks, Full(a, b), Before(a, d, s, b)
      PROVE  \E k \in 0 .. last : b = Neighbour(d, s, k)
  <2>1. Away(b) \in 0 .. last
    BY <1>2, <1>7 DEF Before
  <2>. QED BY <1>5, <1>7, <2>1
<1>8. Neighbour(d, s, last) = e
  BY <1>5 DEF Before
<1>9. last \in Nat
  BY <1>3
<1>. HIDE DEF last
<1>10. Path(a, d, s, last)
  BY <1>6, <1>7, <1>9 DEF Path
<1>. QED BY <1>3, <1>8, <1>10

-----------------------------------------------------------------------------
(* FIND: what the walk sees.                                               *)

\* The k-th block visited, where the scan enters it, and the ids it scans.
At(a, d, s, k) == a.blocks[Neighbour(d, s, k)]
ScanAt(a, d, s, from, k) ==
  IF k = 0 THEN from
  ELSE IF d = "forward" THEN At(a, d, s, k - 1).last_id + 1 ELSE At(a, d, s, k - 1).first_id - 1
SoundAt(a, d, s, from, k) ==
  LET b == At(a, d, s, k)
      scan == ScanAt(a, d, s, from, k)
  IN /\ b.occupied /\ b.epoch = a.epoch
     /\ b.records # <<>>
     /\ b.first_id <= scan /\ scan <= b.last_id
     /\ SizeOf(b.records) = b.used
IdsAt(a, d, s, from, k) ==
  IF d = "forward" THEN ScanAt(a, d, s, from, k) .. At(a, d, s, k).last_id
  ELSE At(a, d, s, k).first_id .. ScanAt(a, d, s, from, k)
EndsAt(a, d, s, k, bounds) ==
  IF d = "forward" THEN At(a, d, s, k).last_id >= bounds.newest
  ELSE At(a, d, s, k).first_id <= bounds.oldest

LEMMA PathStart ==
  ASSUME NEW a, Sound(a), NEW d \in Directions, NEW s \in Blocks, Full(a, s),
         NEW last, Path(a, d, s, last)
  PROVE  last \in Nat /\ Neighbour(d, s, 0) = s
<1>1. a \in Arenas /\ a.current # NoBlock
  BY DEF Sound, WellFormed
<1>2. last \in Nat /\ 0 \in 0 .. last
  BY DEF Path
<1>3. Neighbour(d, s, 0) \in Blocks /\ Age(a, Neighbour(d, s, 0)) = AgeAfter(a, d, s, 0)
  BY <1>2 DEF Path
<1>4. Age(a, s) \in Int
  BY <1>1, AgeType
<1>5. AgeAfter(a, d, s, 0) = Age(a, s)
  BY <1>4 DEF AgeAfter
<1>. QED BY <1>1, <1>2, <1>3, <1>5, SameAge

\* Behind the first block, the scan enters a block at its near end.
LEMMA ScanIs ==
  ASSUME NEW a, Sound(a), NEW d \in Directions, NEW s \in Blocks, Full(a, s), NEW from,
         NEW last, Path(a, d, s, last), NEW k \in 1 .. last
  PROVE  ScanAt(a, d, s, from, k) = IF d = "forward" THEN At(a, d, s, k).first_id
                                    ELSE At(a, d, s, k).last_id
<1>. DEFINE b == Neighbour(d, s, k)
            p == Neighbour(d, s, k - 1)
<1>1. a \in Arenas /\ WellFormed(a) /\ a.current # NoBlock
  BY DEF Sound, WellFormed
<1>2. last \in Nat /\ k \in 0 .. last /\ k - 1 \in 0 .. last /\ k # 0
  BY DEF Path
<1>3. /\ b \in Blocks /\ Full(a, b) /\ Age(a, b) = AgeAfter(a, d, s, k)
      /\ p \in Blocks /\ Full(a, p) /\ Age(a, p) = AgeAfter(a, d, s, k - 1)
  BY <1>2 DEF Path
<1>. HIDE DEF b, p
<1>4. Age(a, s) \in Int /\ k \in Int
  BY <1>1, AgeType
<1>5. /\ a.blocks[b].first_id \in Nat /\ a.blocks[b].last_id \in Nat
      /\ a.blocks[p].first_id \in Nat /\ a.blocks[p].last_id \in Nat
  BY <1>1, <1>3, FirstNotLast
<1>6. CASE d = "forward"
  <2>1. Age(a, p) = Age(a, b) + 1
    BY <1>3, <1>4, <1>6 DEF AgeAfter
  <2>2. a.blocks[b].first_id = a.blocks[p].last_id + 1
    BY <1>3, <2>1, Adjacent
  <2>. QED BY <1>2, <1>6, <2>2 DEF ScanAt, At, b, p
<1>7. CASE d # "forward"
  <2>1. Age(a, b) = Age(a, p) + 1
    BY <1>3, <1>4, <1>7 DEF AgeAfter
  <2>2. a.blocks[p].first_id = a.blocks[b].last_id + 1
    BY <1>3, <2>1, Adjacent
  <2>3. a.blocks[p].first_id - 1 = a.blocks[b].last_id
    BY <1>5, <2>2
  <2>. QED BY <1>2, <1>7, <2>3 DEF ScanAt, At, b, p
<1>. QED BY <1>6, <1>7

\* Every block visited is sound, so the scan does not fail.
LEMMA VisitsSound ==
  ASSUME NEW a, Sound(a), Sized(a), NEW d \in Directions, NEW s \in Blocks, NEW from \in Nat,
         Holds(a, s, from), NEW last, Path(a, d, s, last), NEW k \in 0 .. last
  PROVE  SoundAt(a, d, s, from, k)
<1>. DEFINE b == Neighbour(d, s, k)
            x == a.blocks[b]
            scan == ScanAt(a, d, s, from, k)
<1>1. a \in Arenas /\ WellFormed(a) /\ Full(a, s)
  BY DEF Sound, Holds
<1>2. b \in Blocks /\ Full(a, b)
  BY DEF Path
<1>3. x.occupied /\ x.epoch = a.epoch /\ x.records # <<>> /\ SizeOf(x.records) = x.used
  BY <1>1, <1>2 DEF WellFormed, Full, Sized
<1>4. x.first_id \in Nat /\ x.last_id \in Nat /\ x.first_id <= x.last_id
  BY <1>1, <1>2, FirstNotLast
<1>5. x.first_id <= scan /\ scan <= x.last_id
  <2>1. CASE k = 0
    <3>1. scan = from /\ b = s
      BY <1>1, <2>1, PathStart DEF ScanAt
    <3>. QED BY <3>1 DEF Holds
  <2>2. CASE k # 0
    <3>1. k \in 1 .. last
      BY <2>2 DEF Path
    <3>2. scan = x.first_id \/ scan = x.last_id
      BY <1>1, <3>1, ScanIs DEF At
    <3>. HIDE DEF x, scan
    <3>. QED BY <1>4, <3>2
  <2>. QED BY <2>1, <2>2
<1>. QED BY <1>3, <1>5 DEF SoundAt, At

\* The walk ends at the block with the newest, or with the oldest, record.
LEMMA EndsAtLast ==
  ASSUME NEW a, Sound(a), NEW d \in Directions, NEW s \in Blocks, Full(a, s),
         NEW last, Path(a, d, s, last), NEW bounds,
         d = "forward" => bounds.newest = At(a, d, s, last).last_id,
         d # "forward" => bounds.oldest = At(a, d, s, last).first_id,
         NEW k \in 0 .. last
  PROVE  EndsAt(a, d, s, k, bounds) <=> k = last
<1>. DEFINE b == Neighbour(d, s, k)
            e == Neighbour(d, s, last)
<1>1. a \in Arenas /\ WellFormed(a) /\ Ordered(a) /\ a.current # NoBlock
  BY DEF Sound, WellFormed
<1>2. last \in Nat /\ last \in 0 .. last /\ k \in Int
  BY DEF Path
<1>3. /\ b \in Blocks /\ Full(a, b) /\ Age(a, b) = AgeAfter(a, d, s, k)
      /\ e \in Blocks /\ Full(a, e) /\ Age(a, e) = AgeAfter(a, d, s, last)
  BY <1>2 DEF Path
<1>4. k = last => b = e
  OBVIOUS
<1>. HIDE DEF b, e
<1>5. Age(a, s) \in Int
  BY <1>1, AgeType
<1>6. /\ a.blocks[b].first_id \in Nat /\ a.blocks[b].last_id \in Nat
      /\ a.blocks[b].first_id <= a.blocks[b].last_id
      /\ a.blocks[e].first_id \in Nat /\ a.blocks[e].last_id \in Nat
      /\ a.blocks[e].first_id <= a.blocks[e].last_id
  BY <1>1, <1>3, FirstNotLast
<1>7. CASE d = "forward"
  <2>1. EndsAt(a, d, s, k, bounds) <=> a.blocks[b].last_id >= a.blocks[e].last_id
    BY <1>7 DEF EndsAt, At, b, e
  <2>2. ASSUME k # last PROVE a.blocks[b].last_id < a.blocks[e].first_id
    <3>1. Age(a, e) < Age(a, b)
      BY <1>2, <1>3, <1>5, <1>7, <2>2 DEF AgeAfter
    <3>. QED BY <1>1, <1>3, <3>1 DEF Ordered
  <2>. QED BY <1>4, <1>6, <2>1, <2>2
<1>8. CASE d # "forward"
  <2>1. EndsAt(a, d, s, k, bounds) <=> a.blocks[b].first_id <= a.blocks[e].first_id
    BY <1>8 DEF EndsAt, At, b, e
  <2>2. ASSUME k # last PROVE a.blocks[e].last_id < a.blocks[b].first_id
    <3>1. Age(a, b) < Age(a, e)
      BY <1>2, <1>3, <1>5, <1>8, <2>2 DEF AgeAfter
    <3>. QED BY <1>1, <1>3, <3>1 DEF Ordered
  <2>. QED BY <1>4, <1>6, <2>1, <2>2
<1>. QED BY <1>7, <1>8

\* The ids that the walk scans are those held from the start on.
Ahead(d, from, id) == IF d = "forward" THEN id >= from ELSE id <= from

LEMMA ScansHeld ==
  ASSUME NEW a, Sound(a), NEW d \in Directions, NEW s \in Blocks, NEW from \in Nat,
         Holds(a, s, from), NEW last, Path(a, d, s, last), NEW k \in 0 .. last,
         NEW id \in IdsAt(a, d, s, from, k)
  PROVE  id \in Int /\ Holds(a, Neighbour(d, s, k), id) /\ Ahead(d, from, id)
<1>. DEFINE b == Neighbour(d, s, k)
            x == a.blocks[b]
            y == a.blocks[s]
            scan == ScanAt(a, d, s, from, k)
<1>1. a \in Arenas /\ WellFormed(a) /\ Ordered(a) /\ Full(a, s) /\ a.current # NoBlock
      /\ y.first_id <= from /\ from <= y.last_id
  BY DEF Sound, Holds, WellFormed
<1>2. b \in Blocks /\ Full(a, b) /\ Age(a, b) = AgeAfter(a, d, s, k)
  BY DEF Path
<1>3. /\ x.first_id \in Nat /\ x.last_id \in Nat /\ x.first_id <= x.last_id
      /\ y.first_id \in Nat /\ y.last_id \in Nat /\ y.first_id <= y.last_id
  BY <1>1, <1>2, FirstNotLast
<1>4. id \in IF d = "forward" THEN scan .. x.last_id ELSE x.first_id .. scan
  BY DEF IdsAt, At
<1>5. CASE k = 0
  <2>1. scan = from /\ b = s
    BY <1>1, <1>5, PathStart DEF ScanAt
  <2>. HIDE DEF scan, b, x
  <2>2. x.first_id <= from /\ from <= x.last_id
    BY <1>1, <2>1 DEF x
  <2>3. id \in Int /\ x.first_id <= id /\ id <= x.last_id /\ Ahead(d, from, id)
    BY <1>3, <1>4, <2>1, <2>2 DEF Ahead
  <2>. QED BY <1>2, <2>3 DEF Holds, x, b
<1>6. CASE k # 0
  <2>1. k \in 1 .. last /\ k \in Nat
    BY <1>6 DEF Path
  <2>2. scan = IF d = "forward" THEN x.first_id ELSE x.last_id
    BY <1>1, <2>1, ScanIs DEF At
  <2>3. Age(a, s) \in Int
    BY <1>1, AgeType
  <2>4. IF d = "forward" THEN y.last_id < x.first_id ELSE x.last_id < y.first_id
    <3>1. IF d = "forward" THEN Age(a, b) < Age(a, s) ELSE Age(a, s) < Age(a, b)
      BY <1>2, <1>6, <2>1, <2>3 DEF AgeAfter
    <3>. QED BY <1>1, <1>2, <3>1 DEF Ordered
  <2>. HIDE DEF scan, b, x, y
  <2>5. id \in Int /\ x.first_id <= id /\ id <= x.last_id /\ Ahead(d, from, id)
    BY <1>1, <1>3, <1>4, <2>2, <2>4 DEF Ahead
  <2>. QED BY <1>2, <2>5 DEF Holds, x, b
<1>. QED BY <1>5, <1>6

LEMMA HeldScanned ==
  ASSUME NEW a, Sound(a), NEW d \in Directions, NEW s \in Blocks, NEW from \in Nat,
         Holds(a, s, from), NEW last, Path(a, d, s, last),
         NEW c \in Blocks, NEW id \in Int, Holds(a, c, id), Ahead(d, from, id)
  PROVE  \E k \in 0 .. last : c = Neighbour(d, s, k) /\ id \in IdsAt(a, d, s, from, k)
<1>. DEFINE x == a.blocks[c]
            y == a.blocks[s]
<1>1. /\ a \in Arenas /\ WellFormed(a) /\ Ordered(a) /\ Full(a, s) /\ Full(a, c)
      /\ a.current # NoBlock /\ y.first_id <= from /\ from <= y.last_id
      /\ x.first_id <= id /\ id <= x.last_id
  BY DEF Sound, Holds, WellFormed
<1>2. /\ x.first_id \in Nat /\ x.last_id \in Nat /\ x.first_id <= x.last_id
      /\ y.first_id \in Nat /\ y.last_id \in Nat /\ y.first_id <= y.last_id
  BY <1>1, FirstNotLast
<1>3. Age(a, s) \in Int /\ Age(a, c) \in Int
  BY <1>1, AgeType
<1>4. Before(a, d, s, c)
  <2>1. IF d = "forward" THEN ~(x.last_id < y.first_id) ELSE ~(y.last_id < x.first_id)
    BY <1>1, <1>2 DEF Ahead
  <2>2. IF d = "forward" THEN ~(Age(a, s) < Age(a, c)) ELSE ~(Age(a, c) < Age(a, s))
    BY <1>1, <2>1 DEF Ordered
  <2>. QED BY <1>3, <2>2 DEF Before
<1>5. PICK k \in 0 .. last : c = Neighbour(d, s, k)
  BY <1>1, <1>4 DEF Path
<1>6. At(a, d, s, k) = x
  BY <1>5 DEF At
<1>. DEFINE scan == ScanAt(a, d, s, from, k)
<1>7. IF d = "forward" THEN scan \in Int /\ scan <= id ELSE scan \in Int /\ id <= scan
  <2>1. CASE k = 0
    <3>1. scan = from
      BY <2>1 DEF ScanAt
    <3>. QED BY <3>1 DEF Ahead
  <2>2. CASE k # 0
    <3>1. k \in 1 .. last
      BY <2>2 DEF Path
    <3>2. scan = IF d = "forward" THEN x.first_id ELSE x.last_id
      BY <1>1, <1>6, <3>1, ScanIs
    <3>. HIDE DEF scan, x
    <3>. QED BY <1>1, <1>2, <3>2
  <2>. QED BY <2>1, <2>2
<1>. HIDE DEF scan, x
<1>8. id \in IF d = "forward" THEN scan .. x.last_id ELSE x.first_id .. scan
  BY <1>1, <1>2, <1>7
<1>9. id \in IdsAt(a, d, s, from, k)
  BY <1>6, <1>8 DEF IdsAt, scan
<1>. QED BY <1>5, <1>9

LEMMA MaxIs ==
  ASSUME NEW S, S \subseteq Int, NEW m \in S, \A y \in S : y <= m
  PROVE  Max(S) = m
<1>1. \A y \in S : m >= y
  OBVIOUS
<1>2. \A v \in S : (\A y \in S : v >= y) => v = m
  OBVIOUS
<1>. QED BY <1>1, <1>2 DEF Max

\* FIND's bounds are the oldest and the newest record there is, and a walk in
\* either direction leads from any block with records to the one it ends at.
LEMMA BoundsAre ==
  ASSUME IInv, Packed(h), NEW b0 \in Blocks, Full(h, b0)
  PROVE  /\ RetainedBounds(h).oldest = Min(Retained(h)) /\ Min(Retained(h)) \in Nat \ {0}
         /\ RetainedBounds(h).newest = h.next_id - 1 /\ h.next_id - 1 \in Nat \ {0}
         /\ \A d \in Directions, s \in Blocks : Full(h, s) =>
              \E last \in 0 .. BlockCount - 1 :
                /\ Path(h, d, s, last)
                /\ d = "forward" => RetainedBounds(h).newest = At(h, d, s, last).last_id
                /\ d # "forward" => RetainedBounds(h).oldest = At(h, d, s, last).first_id
<1>. DEFINE filled == {b \in Blocks : /\ h.blocks[b].occupied /\ h.blocks[b].epoch = h.epoch
                                      /\ h.blocks[b].records # <<>>}
            firsts == {h.blocks[b].first_id : b \in filled}
            lasts == {h.blocks[b].last_id : b \in filled}
            c == h.current
            newest == h.next_id - 1
<1>1. Sound(h) /\ h \in Arenas /\ WellFormed(h) /\ Dense(h) /\ h.current # NoBlock
  BY DEF IInv, Recorded, Good, Sound, WellFormed, Packed
<1>2. \A b : b \in filled <=> b \in Blocks /\ Full(h, b)
  BY <1>1 DEF WellFormed, Full
<1>3. RetainedBounds(h).oldest = Least(firsts) /\ RetainedBounds(h).newest = Greatest(lasts)
  BY DEF RetainedBounds
<1>. HIDE DEF filled
<1>4. \A b \in Blocks : Full(h, b) =>
        /\ h.blocks[b].first_id \in Nat /\ h.blocks[b].last_id \in Nat
        /\ h.blocks[b].last_id < h.next_id /\ h.next_id \in Nat
  BY <1>1, FirstNotLast
<1>5. PICK m \in Nat \ {0} :
         /\ Retained(h) # {} /\ Min(Retained(h)) = m
         /\ \E b \in Blocks : Full(h, b) /\ h.blocks[b].first_id = m
         /\ \A b \in Blocks : Full(h, b) => m <= h.blocks[b].first_id
  BY OldestIs
<1>6. PICK o \in Blocks : Full(h, o) /\ h.blocks[o].first_id = m
  BY <1>5
<1>7. RetainedBounds(h).oldest = m
  <2>1. m \in firsts /\ firsts \subseteq Int /\ \A y \in firsts : m <= y
    BY <1>2, <1>4, <1>5, <1>6
  <2>. HIDE DEF firsts
  <2>. QED BY <1>3, <2>1, MinIs DEF Least
<1>8. c \in Blocks /\ Full(h, c) /\ Age(h, c) = 0 /\ h.blocks[c].last_id = newest
      /\ newest \in Nat \ {0}
  BY <1>1, YoungestIs
<1>9. RetainedBounds(h).newest = newest
  <2>1. newest \in lasts /\ lasts \subseteq Int /\ \A y \in lasts : y <= newest
    BY <1>2, <1>4, <1>8
  <2>. HIDE DEF lasts, newest
  <2>. QED BY <1>3, <2>1, MaxIs DEF Greatest
<1>. HIDE DEF firsts, lasts, newest, c
<1>10. ASSUME NEW d \in Directions, NEW s \in Blocks, Full(h, s)
       PROVE  \E last \in 0 .. BlockCount - 1 :
                /\ Path(h, d, s, last)
                /\ d = "forward" => newest = At(h, d, s, last).last_id
                /\ d # "forward" => m = At(h, d, s, last).first_id
  <2>. DEFINE e == IF d = "forward" THEN c ELSE o
  <2>1. e \in Blocks /\ Full(h, e)
    BY <1>6, <1>8
  <2>2. ASSUME NEW b \in Blocks, Full(h, b) PROVE Before(h, d, b, e)
    <3>1. Age(h, b) \in 0 .. BlockCount - 1 /\ BlockCount \in Nat
      BY <1>1, AgeType
    <3>2. Age(h, c) <= Age(h, b)
      BY <1>8, <3>1
    <3>3. Age(h, b) <= Age(h, o)
      BY <1>1, <1>5, <1>6, <2>2, EldestIs
    <3>. QED BY <3>2, <3>3 DEF Before
  <2>3. d = "forward" => newest = h.blocks[e].last_id
    BY <1>8
  <2>4. d # "forward" => m = h.blocks[e].first_id
    BY <1>6
  <2>. HIDE DEF e
  <2>5. PICK last \in 0 .. BlockCount - 1 : Path(h, d, s, last) /\ Neighbour(d, s, last) = e
    BY <1>1, <1>10, <2>1, <2>2, PathTo
  <2>. QED BY <2>3, <2>4, <2>5 DEF At
<1>. QED BY <1>5, <1>7, <1>8, <1>9, <1>10 DEF newest

\* FIND in terms of the walk.
Stops(a, d, s, from, bounds) ==
  {k \in 0 .. BlockCount - 1 : ~SoundAt(a, d, s, from, k) \/ EndsAt(a, d, s, k, bounds)}
Hits(a, d, s, from, timeline, visited) ==
  UNION {IdsAt(a, d, s, from, k) :
           k \in {j \in visited : timeline \in {AnyTimeline, At(a, d, s, j).timeline}}}

LEMMA FindAs ==
  ASSUME NEW a, NEW d, NEW from, NEW timeline, NEW limit
  PROVE  LET bounds == RetainedBounds(a)
             s == FindRecord(a, from)
             stops == Stops(a, d, s, from, bounds)
             stop == IF stops = {} THEN BlockCount ELSE Min(stops)
             failed == stop = BlockCount \/ ~SoundAt(a, d, s, from, stop)
             visited == 0 .. IF failed THEN stop - 1 ELSE stop
             hits == Hits(a, d, s, from, timeline, visited)
             page == Take(d, hits, limit)
         IN Find(a, d, from, timeline, limit) =
              IF s = NoBlock \/ from < bounds.oldest \/ from > bounds.newest
              THEN Page("not-retained", {}, 0)
              ELSE IF Cardinality(hits) >= limit
              THEN Page("ok", page, NextId(d, page, bounds.oldest, bounds.newest))
              ELSE IF failed THEN Page("failed", {}, 0) ELSE Page("ok", hits, 0)
BY Zenon DEF Find, Stops, Hits, SoundAt, EndsAt, IdsAt, ScanAt, At

\* The walk from a retained record does not fail, and scans the whole path.
LEMMA FindWalks ==
  ASSUME IInv, Packed(h), NEW d \in Directions, NEW from \in Retained(h), NEW timeline, NEW limit
  PROVE  \E s \in Blocks, last \in Nat :
           /\ Holds(h, s, from) /\ Path(h, d, s, last)
           /\ LET hits == Hits(h, d, s, from, timeline, 0 .. last)
                  page == Take(d, hits, limit)
              IN Find(h, d, from, timeline, limit) =
                   IF Cardinality(hits) >= limit
                   THEN Page("ok", page, NextId(d, page, Min(Retained(h)), h.next_id - 1))
                   ELSE Page("ok", hits, 0)
<1>. DEFINE bounds == RetainedBounds(h)
            s == FindRecord(h, from)
            stops == Stops(h, d, s, from, bounds)
            stop == IF stops = {} THEN BlockCount ELSE Min(stops)
            failed == stop = BlockCount \/ ~SoundAt(h, d, s, from, stop)
            visited == 0 .. IF failed THEN stop - 1 ELSE stop
            hits == Hits(h, d, s, from, timeline, visited)
            page == Take(d, hits, limit)
<1>1. Sound(h) /\ h \in Arenas /\ h.next_id \in Nat /\ Sized(h)
  BY DEF IInv, Recorded, Good, Sound, Arenas, Packed
<1>2. from \in 1 .. h.next_id - 1 /\ Held(h, from)
  BY <1>1, RetainedIs
<1>3. from \in Nat \ {0}
  BY <1>1, <1>2
<1>4. s \in Blocks /\ Holds(h, s, from)
  BY <1>1, <1>2, <1>3, FindIs DEF Held
<1>5. Full(h, s) /\ s # NoBlock
  BY <1>4, SizeAssumption DEF Holds, Blocks, NoBlock
<1>6. Find(h, d, from, timeline, limit) =
        IF s = NoBlock \/ from < bounds.oldest \/ from > bounds.newest
        THEN Page("not-retained", {}, 0)
        ELSE IF Cardinality(hits) >= limit
        THEN Page("ok", page, NextId(d, page, bounds.oldest, bounds.newest))
        ELSE IF failed THEN Page("failed", {}, 0) ELSE Page("ok", hits, 0)
  BY FindAs
<1>. HIDE DEF s
<1>7. /\ bounds.oldest = Min(Retained(h)) /\ Min(Retained(h)) \in Nat \ {0}
      /\ bounds.newest = h.next_id - 1
  BY <1>4, <1>5, BoundsAre
<1>8. PICK last \in 0 .. BlockCount - 1 :
        /\ Path(h, d, s, last)
        /\ d = "forward" => bounds.newest = At(h, d, s, last).last_id
        /\ d # "forward" => bounds.oldest = At(h, d, s, last).first_id
  BY <1>4, <1>5, BoundsAre
<1>. HIDE DEF bounds
<1>9. BlockCount \in Nat /\ last \in Nat /\ 0 .. last \subseteq 0 .. BlockCount - 1 /\ last # BlockCount
  BY <1>8, SizeAssumption
<1>10. \A k \in 0 .. last : SoundAt(h, d, s, from, k) /\ (EndsAt(h, d, s, k, bounds) <=> k = last)
  BY <1>1, <1>3, <1>4, <1>5, <1>8, VisitsSound, EndsAtLast
<1>11. stop = last
  <2>1. last \in stops /\ stops \subseteq Int
    BY <1>9, <1>10 DEF Stops
  <2>2. ASSUME NEW k \in stops PROVE last <= k
    <3>1. k \in 0 .. BlockCount - 1 /\ (~SoundAt(h, d, s, from, k) \/ EndsAt(h, d, s, k, bounds))
      BY <2>2 DEF Stops
    <3>2. k \in 0 .. last => k = last
      BY <1>10, <3>1
    <3>. QED BY <1>9, <3>1, <3>2
  <2>. HIDE DEF stops
  <2>. QED BY <2>1, <2>2, MinIs
<1>. HIDE DEF stops, stop
<1>12. ~failed /\ visited = 0 .. last
  BY <1>9, <1>10, <1>11
<1>. HIDE DEF failed, visited
<1>13. ~(from < bounds.oldest) /\ ~(from > bounds.newest)
  <2>1. bounds.oldest <= from
    <3>1. PICK m \in Nat \ {0} :
            /\ Min(Retained(h)) = m
            /\ \A b \in Blocks : Full(h, b) => m <= h.blocks[b].first_id
      BY <1>4, <1>5, OldestIs
    <3>2. m <= h.blocks[s].first_id /\ h.blocks[s].first_id <= from
      BY <1>4, <1>5, <3>1 DEF Holds
    <3>3. h.blocks[s].first_id \in Nat
      BY <1>1, <1>4, <1>5, FirstNotLast DEF Sound
    <3>. QED BY <1>3, <1>7, <3>1, <3>2, <3>3
  <2>. QED BY <1>1, <1>2, <1>7, <2>1
<1>14. Find(h, d, from, timeline, limit) =
         IF Cardinality(hits) >= limit
         THEN Page("ok", page, NextId(d, page, bounds.oldest, bounds.newest))
         ELSE Page("ok", hits, 0)
  BY <1>5, <1>6, <1>12, <1>13
<1>. QED BY <1>4, <1>7, <1>8, <1>9, <1>12, <1>14

\* What it scans is what is retained from the start on.
LEMMA HitsAre ==
  ASSUME IInv, NEW d \in Directions, NEW s \in Blocks, NEW from \in Nat,
         Holds(h, s, from), NEW last, Path(h, d, s, last), NEW timeline
  PROVE  Hits(h, d, s, from, timeline, 0 .. last) =
           {id \in Retained(h) : Ahead(d, from, id)
                                 /\ (timeline = AnyTimeline \/ log[id].timeline = timeline)}
<1>. DEFINE Match(t) == timeline = AnyTimeline \/ t = timeline
            hits == Hits(h, d, s, from, timeline, 0 .. last)
<1>1. Sound(h) /\ h \in Arenas /\ WellFormed(h) /\ Faithful(h, log) /\ h.next_id \in Nat
  BY DEF IInv, Recorded, Good, Sound, Arenas
<1>2. ASSUME NEW b \in Blocks, NEW id \in Int, Holds(h, b, id)
      PROVE  id \in Retained(h) /\ log[id].timeline = h.blocks[b].timeline
  <2>1. /\ h.blocks[b].first_id \in Nat \ {0} /\ h.blocks[b].last_id \in Nat
        /\ h.blocks[b].last_id < h.next_id
    BY <1>1, <1>2, FirstNotLast DEF Holds
  <2>2. id \in 1 .. h.next_id - 1
    BY <1>1, <1>2, <2>1 DEF Holds
  <2>3. id \in Retained(h)
    BY <1>1, <1>2, <2>2, RetainedIs DEF Held
  <2>. DEFINE i == id - h.blocks[b].first_id + 1
  <2>4. i \in DOMAIN h.blocks[b].records /\ h.blocks[b].first_id + i - 1 = id
    BY <1>1, <1>2, RecordOf
  <2>. HIDE DEF i
  <2>5. Tells(h.blocks[b], h.blocks[b].records[i], log[id])
    BY <1>1, <2>4 DEF Faithful
  <2>. QED BY <2>3, <2>5 DEF Tells
<1>3. \A id : id \in hits <=>
        \E k \in 0 .. last : id \in IdsAt(h, d, s, from, k) /\ Match(At(h, d, s, k).timeline)
  BY DEF Hits
<1>. HIDE DEF hits
<1>4. ASSUME NEW id \in hits
      PROVE  id \in Retained(h) /\ Ahead(d, from, id) /\ Match(log[id].timeline)
  <2>1. PICK k \in 0 .. last : id \in IdsAt(h, d, s, from, k) /\ Match(At(h, d, s, k).timeline)
    BY <1>3, <1>4
  <2>2. id \in Int /\ Holds(h, Neighbour(d, s, k), id) /\ Ahead(d, from, id)
    BY <1>1, <2>1, ScansHeld
  <2>3. Neighbour(d, s, k) \in Blocks
    BY DEF Path
  <2>4. id \in Retained(h) /\ log[id].timeline = At(h, d, s, k).timeline
    BY <1>2, <2>2, <2>3 DEF At
  <2>. QED BY <2>1, <2>2, <2>4
<1>5. ASSUME NEW id \in Retained(h), Ahead(d, from, id), Match(log[id].timeline)
      PROVE  id \in hits
  <2>1. id \in 1 .. h.next_id - 1 /\ Held(h, id)
    BY <1>1, <1>5, RetainedIs
  <2>2. PICK c \in Blocks : Holds(h, c, id)
    BY <2>1 DEF Held
  <2>3. id \in Int
    BY <1>1, <2>1
  <2>4. PICK k \in 0 .. last : c = Neighbour(d, s, k) /\ id \in IdsAt(h, d, s, from, k)
    BY <1>1, <1>5, <2>2, <2>3, HeldScanned
  <2>5. log[id].timeline = At(h, d, s, k).timeline
    BY <1>2, <2>2, <2>3, <2>4 DEF At
  <2>. QED BY <1>3, <1>5, <2>4, <2>5
<1>. QED BY <1>4, <1>5 DEF hits

\* A page that takes fewer records than it may takes all of them.
LEMMA TakesAll ==
  ASSUME NEW d, NEW ids, IsFiniteSet(ids), NEW limit \in Nat, Cardinality(ids) < limit
  PROVE  Take(d, ids, limit) = ids
<1>1. ASSUME NEW id \in ids
      PROVE  Cardinality({j \in ids : IF d = "forward" THEN j < id ELSE j > id}) < limit
  <2>. DEFINE before == {j \in ids : IF d = "forward" THEN j < id ELSE j > id}
  <2>1. before \in SUBSET ids
    OBVIOUS
  <2>. HIDE DEF before
  <2>2. IsFiniteSet(before) /\ Cardinality(before) <= Cardinality(ids)
    BY <2>1, FS_Subset
  <2>3. Cardinality(before) \in Nat /\ Cardinality(ids) \in Nat
    BY <2>2, FS_CardinalityType
  <2>4. Cardinality(before) < limit
    BY <2>2, <2>3
  <2>. QED BY <2>4 DEF before
<1>. QED BY <1>1 DEF Take

LEMMA PackedFinds ==
  ASSUME IInv, Packed(h)
  PROVE  FindCorrect
<1>. DEFINE retained == Retained(h)
            ahead(d, from, timeline) ==
              {id \in retained : /\ IF d = "forward" THEN id >= from ELSE id <= from
                                 /\ timeline = AnyTimeline \/ log[id].timeline = timeline}
            page(d, from, timeline, limit) == Take(d, ahead(d, from, timeline), limit)
            right(d, from, timeline, limit) ==
              Page("ok", page(d, from, timeline, limit),
                   IF Cardinality(ahead(d, from, timeline)) < limit THEN 0
                   ELSE NextId(d, page(d, from, timeline, limit), Min(retained), h.next_id - 1))
<1>1. ASSUME NEW from \in retained, NEW d \in Directions, NEW timeline, NEW limit \in 1 .. 2
      PROVE  Find(h, d, from, timeline, limit) = right(d, from, timeline, limit)
  <2>. DEFINE A == ahead(d, from, timeline)
              P == Take(d, A, limit)
              N == NextId(d, P, Min(retained), h.next_id - 1)
  <2>1. /\ h.next_id \in Nat /\ from \in 1 .. h.next_id - 1
        /\ retained \in SUBSET (1 .. h.next_id - 1)
    BY DEF IInv, Recorded, Good, Sound, Arenas, Retained
  <2>2. PICK s \in Blocks, last \in Nat :
          /\ Holds(h, s, from) /\ Path(h, d, s, last)
          /\ LET hits == Hits(h, d, s, from, timeline, 0 .. last)
                 taken == Take(d, hits, limit)
             IN Find(h, d, from, timeline, limit) =
                  IF Cardinality(hits) >= limit
                  THEN Page("ok", taken, NextId(d, taken, Min(Retained(h)), h.next_id - 1))
                  ELSE Page("ok", hits, 0)
    BY FindWalks
  <2>3. Hits(h, d, s, from, timeline, 0 .. last) = A
    <3>1. from \in Nat
      BY <2>1
    <3>2. Hits(h, d, s, from, timeline, 0 .. last) =
            {id \in Retained(h) : Ahead(d, from, id)
                                  /\ (timeline = AnyTimeline \/ log[id].timeline = timeline)}
      BY <2>2, <3>1, HitsAre
    <3>. QED BY <3>2 DEF Ahead
  <2>. HIDE DEF A
  <2>4. Find(h, d, from, timeline, limit) =
          IF Cardinality(A) >= limit THEN Page("ok", P, N) ELSE Page("ok", A, 0)
    BY <2>2, <2>3
  <2>5. IsFiniteSet(A) /\ Cardinality(A) \in Nat /\ limit \in Nat
    <3>. DEFINE n == h.next_id - 1
    <3>0. n \in Int
      BY <2>1
    <3>. HIDE DEF n
    <3>1. IsFiniteSet(1 .. n)
      BY <3>0, FS_Interval
    <3>2. A \in SUBSET (1 .. n)
      BY <2>1 DEF A, n
    <3>3. IsFiniteSet(A)
      BY <3>1, <3>2, FS_Subset
    <3>. QED BY <3>3, FS_CardinalityType
  <2>6. Cardinality(A) < limit => P = A
    BY <2>5, TakesAll
  <2>. HIDE DEF P, N
  <2>7. Cardinality(A) >= limit <=> ~(Cardinality(A) < limit)
    BY <2>5
  <2>8. Find(h, d, from, timeline, limit) =
          Page("ok", P, IF Cardinality(A) < limit THEN 0 ELSE N)
    BY <2>4, <2>6, <2>7
  <2>. QED BY <2>8 DEF A, P, N
<1>2. \A from \in retained, d \in {"forward", "backward"},
         timeline \in {AnyTimeline, h.timeline}, limit \in 1 .. 2 :
        Find(h, d, from, timeline, limit) = right(d, from, timeline, limit)
  <2>. HIDE DEF right, retained
  <2>. QED BY <1>1 DEF Directions
<1>. QED BY <1>2, Zenon DEF FindCorrect

-----------------------------------------------------------------------------
(* What holds unless the Inspector records while HST1 is stopped.          *)

LEMMA InitPacked == Init => Packed(h)
<1>. SUFFICES ASSUME Init PROVE Packed(h)
  OBVIOUS
<1>1. (\A b \in Blocks : h.blocks[b] = EmptyBlock) /\ h.retain_oldest_id = 0
  BY DEF Init
<1>. QED BY <1>1, EmptyPacked

LEMMA StepPacked ==
  ASSUME MediaWhileStopped = FALSE
  PROVE  IInv /\ Packed(h) /\ [Next]_vars => Packed(h)'
<1>1. ASSUME IInv, Packed(h), Next PROVE Packed(h')
  BY <1>1, NextPacked
<1>2. ASSUME Packed(h), UNCHANGED vars PROVE Packed(h')
  BY <1>2 DEF vars
<1>. QED BY <1>1, <1>2 DEF Packed, Sized, Dense, Age, Full

\* The oldest id that status reports is that of the oldest record that can be
\* looked up, if the Inspector does not record while HST1 is stopped (a media
\* write would then force a block that stays empty): no other call leaves a
\* block of the epoch empty, and every cut is at the first record of its block.
THEOREM ReportsOldest ==
  ASSUME MediaWhileStopped = FALSE
  PROVE  Spec => []FirstIsOldest
BY InitPacked, StepPacked, Invariant, PackedFirst, PTL DEF Spec

\* Under the same condition FIND never fails from a retained record, in either
\* direction: each block visited continues where the one before it ended, its
\* records fill what it says it uses, the walk ends at the newest or the oldest
\* record, and what it scans is what is retained from the start on.
THEOREM FindsRight ==
  ASSUME MediaWhileStopped = FALSE
  PROVE  Spec => []FindCorrect
BY InitPacked, StepPacked, Invariant, PackedFinds, PTL DEF Spec
=============================================================================
