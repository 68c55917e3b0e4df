------------------------ MODULE ParallelBuildProofs ------------------------
(***************************************************************************)
(* The parallel build finds what the sequential build finds, for every     *)
(* buffer, every number of threads and every schedule of the tasks.        *)
(***************************************************************************)
EXTENDS ParallelBuild, Lemmas

PartStarts(w) == {parts[w].offsets[i].start : i \in 1 .. Len(parts[w].offsets)}

(* The chunks cut so far cover the buffer up to the cut, in order.         *)
RangesInv ==
  /\ \A w \in 1 .. Len(ranges) :
       /\ ranges[w].lo < ranges[w].hi
       /\ ranges[w].hi <= Cut
  /\ Cut <= Len(buf)
  /\ pc # "split" => Cut = Len(buf)
  /\ \A v, w \in 1 .. Len(ranges) : v < w => ranges[v].hi <= ranges[w].lo
  /\ \A o \in 0 .. Cut - 1 : \E w \in 1 .. Len(ranges) : InChunk(w, o)

(* What a task has recorded: messages of its chunk, in order and disjoint. *)
PartOffsets(w) ==
  /\ \A i \in 1 .. Len(parts[w].offsets) :
       LET m == parts[w].offsets[i]
       IN /\ ParseOk(buf, m.start)
          /\ m = OffsetAt(buf, m.start)
          /\ InChunk(w, m.start)
          /\ EndOf(buf, m.start) <= parts[w].cursor
  /\ \A i, j \in 1 .. Len(parts[w].offsets) :
       i < j => EndOf(buf, parts[w].offsets[i].start) <= parts[w].offsets[j].start

(* What a task has left out of the part of its chunk it has scanned.       *)
PartScan(w) ==
  \A q \in CompleteIn(buf) \ PartStarts(w) :
    InChunk(w, q) /\ (q < parts[w].cursor \/ parts[w].finished) =>
      \E p \in PartStarts(w) : p < q /\ q < EndOf(buf, p)

(* The part's secondary index answers for the part's own ordinals.         *)
PartSecondary(w) == ListsExactly(parts[w].secondary, buf, parts[w].offsets)

PartInv(w) ==
  ranges[w].lo <= parts[w].cursor /\ PartOffsets(w) /\ PartScan(w) /\ PartSecondary(w)

PartsInv == \A w \in 1 .. Len(parts) : PartInv(w)

(* The stitched messages are those of the parts merged so far.             *)
StitchInv ==
  /\ pc \in {"split", "scan"} => stitched = 0
  /\ pc \in {"stitch", "done"} => \A w \in 1 .. Len(parts) : parts[w].finished
  /\ pc = "done" => stitched = Len(parts)
  /\ Starts = UNION {PartStarts(w) : w \in 1 .. stitched}
  /\ StartsIncrease
  /\ SecondaryIsExact

IInv == TypeOK /\ RangesInv /\ PartsInv /\ StitchInv
-----------------------------------------------------------------------------
LEMMA TypeInit == Init => TypeOK
<1> SUFFICES ASSUME Init PROVE TypeOK
  OBVIOUS
<1>1. buf \in Seq(Cell) /\ threads \in Nat \ {0}
  BY ConstantsAssumption DEF Init
<1>2. ranges \in Seq(Chunk) /\ parts \in Seq(ChunkResult) /\ Len(parts) = Len(ranges)
  BY DEF Init
<1>3. messages \in Seq(MessageOffset) /\ stitched \in 0 .. Len(parts)
  BY DEF Init
<1>4. secondary \in [HotPairs -> Seq(Nat)]
  BY DEF Init, EmptySecondary
<1> QED  BY <1>1, <1>2, <1>3, <1>4 DEF Init, TypeOK

LEMMA CutType == ASSUME TypeOK PROVE Cut \in Nat
<1>1. CASE ranges = << >>
  BY <1>1 DEF Cut
<1>2. CASE ranges # << >>
  <2>1. ranges[Len(ranges)] \in Chunk
    BY <1>2 DEF TypeOK
  <2> QED  BY <1>2, <2>1 DEF Cut, Chunk
<1> QED  BY <1>1, <1>2

(* A loop of chunk_ranges always advances.                                 *)
LEMMA TargetPositive ==
  ASSUME TypeOK, Len(buf) > 0
  PROVE  target \in Nat /\ target > 0
<1>1. Len(buf) \in Nat /\ MinChunkSize \in Nat /\ MinChunkSize > 0
  BY ConstantsAssumption DEF TypeOK
<1>2. Len(buf) \div threads \in Int
  BY <1>1 DEF TypeOK
<1> QED  BY <1>1, <1>2 DEF target

LEMMA MarkerBounds ==
  ASSUME TypeOK, NEW c \in Nat, NEW o, NextMarker(buf, c, o)
  PROVE  /\ o \in 0 .. Len(buf) - 1
         /\ c <= o
         /\ AfterMarker(buf, o) \in o + 1 .. Len(buf)
<1>1. o \in 0 .. Len(buf) - 1 /\ c <= o
  BY DEF NextMarker, IsBegin
<1>2. CASE ParseOk(buf, o)
  BY <1>1, <1>2, MessageBounds DEF AfterMarker, TypeOK
<1>3. CASE ~ ParseOk(buf, o)
  BY <1>1, <1>3 DEF AfterMarker, TypeOK
<1> QED  BY <1>1, <1>2, <1>3

LEMMA NoMessageBefore ==
  ASSUME TypeOK, NEW c \in Nat, NEW o, NextMarker(buf, c, o),
         NEW q \in CompleteIn(buf), q < o
  PROVE  q < c
<1>1. IsBegin(buf, q) /\ q \in Nat
  BY DEF CompleteIn, ParseOk, IsBegin
<1>2. ~ (q \in c .. o - 1)
  BY <1>1 DEF NextMarker, NoBeginIn
<1> QED  BY <1>1, <1>2, MarkerBounds

LEMMA OffsetType ==
  ASSUME TypeOK, NEW o, ParseOk(buf, o)
  PROVE  /\ OffsetAt(buf, o) \in MessageOffset
         /\ OffsetAt(buf, o).start = o
         /\ end(OffsetAt(buf, o)) = EndOf(buf, o)
<1>1. o \in Nat /\ EndOf(buf, o) \in Nat /\ o + 2 <= EndOf(buf, o)
  BY MessageBounds DEF TypeOK
<1> QED  BY <1>1 DEF OffsetAt, MessageOffset, end

LEMMA MergeType ==
  ASSUME NEW a \in [HotPairs -> Seq(Nat)], NEW b \in [HotPairs -> Seq(Nat)], NEW n \in Nat
  PROVE  merge_rebased(a, b, n) \in [HotPairs -> Seq(Nat)]
<1> SUFFICES ASSUME NEW k \in HotPairs
             PROVE  a[k] \o [i \in 1 .. Len(b[k]) |-> b[k][i] + n] \in Seq(Nat)
  BY DEF merge_rebased
<1>1. [i \in 1 .. Len(b[k]) |-> b[k][i] + n] \in Seq(Nat)
  <2>1. b[k] \in Seq(Nat)
    OBVIOUS
  <2>2. Len(b[k]) \in Nat /\ \A i \in 1 .. Len(b[k]) : b[k][i] + n \in Nat
    BY <2>1
  <2> QED  BY <2>2
<1>2. a[k] \in Seq(Nat)
  OBVIOUS
<1> QED  BY <1>1, <1>2, ConcatProperties

LEMMA TypeStep == TypeOK /\ [Next]_vars => TypeOK'
<1> SUFFICES ASSUME TypeOK, [Next]_vars PROVE TypeOK'
  OBVIOUS
<1>0. /\ buf \in Seq(Cell) /\ threads \in Nat \ {0} /\ ranges \in Seq(Chunk)
      /\ parts \in Seq(ChunkResult) /\ Len(parts) = Len(ranges) /\ Len(parts) \in Nat
      /\ stitched \in 0 .. Len(parts) /\ messages \in Seq(MessageOffset)
      /\ consumed \in Nat /\ secondary \in [HotPairs -> Seq(Nat)]
      /\ \A w \in 1 .. Len(parts) : parts[w] \in ChunkResult
  BY DEF TypeOK
<1>1. CASE PushRange
  <2>1. Cut \in Nat /\ target \in Nat
    BY <1>0, <1>1, CutType, TargetPositive DEF PushRange
  <2> DEFINE hi == IF Cut + target < Len(buf) THEN Cut + target ELSE Len(buf)
             r == [lo |-> Cut, hi |-> hi]
             p == [offsets |-> << >>, secondary |-> EmptySecondary, cursor |-> Cut, finished |-> FALSE]
  <2>2. r \in Chunk
    BY <1>0, <2>1 DEF Chunk
  <2>3. p \in ChunkResult
    <3>1. << >> \in Seq(MessageOffset) /\ EmptySecondary \in [HotPairs -> Seq(Nat)]
      BY DEF EmptySecondary
    <3> QED  BY <2>1, <3>1 DEF ChunkResult
  <2>4. ranges' = Append(ranges, r) /\ parts' = Append(parts, p)
    BY <1>1 DEF PushRange
  <2> HIDE DEF r, p
  <2>5. /\ ranges' \in Seq(Chunk) /\ parts' \in Seq(ChunkResult)
        /\ Len(ranges') = Len(ranges) + 1 /\ Len(parts') = Len(parts) + 1
    BY <1>0, <2>2, <2>3, <2>4
  <2> QED  BY <1>0, <1>1, <2>5 DEF PushRange, TypeOK
<1>2. CASE StartScan
  BY <1>0, <1>2 DEF StartScan, TypeOK
<1>3. ASSUME NEW w \in 1 .. Len(parts), NEW o \in 0 .. Len(buf) - 1, PushMessage(w, o)
      PROVE  TypeOK'
  <2>2. /\ parts[w].offsets \in Seq(MessageOffset) /\ parts[w].cursor \in Nat
        /\ parts[w].secondary \in [HotPairs -> Seq(Nat)]
    BY <1>0 DEF ChunkResult
  <2> DEFINE r == [offsets   |-> Append(parts[w].offsets, OffsetAt(buf, o)),
                   secondary |-> record(parts[w].secondary, PairsAt(buf, o), Len(parts[w].offsets)),
                   cursor    |-> AfterMarker(buf, o),
                   finished  |-> FALSE]
  <2>3. parts' = [parts EXCEPT ![w] = r]
    BY <1>3 DEF PushMessage, OwnMessage
  <2>4. r \in ChunkResult
    <3>1. Append(parts[w].offsets, OffsetAt(buf, o)) \in Seq(MessageOffset)
      BY <1>3, <2>2, OffsetType DEF PushMessage, OwnMessage
    <3>2. record(parts[w].secondary, PairsAt(buf, o), Len(parts[w].offsets)) \in [HotPairs -> Seq(Nat)]
      <4>1. Len(parts[w].offsets) \in Nat
        BY <2>2
      <4> QED  BY <2>2, <4>1, RecordType
    <3>3. AfterMarker(buf, o) \in Nat
      <4>1. AfterMarker(buf, o) \in o + 1 .. Len(buf)
        BY <1>3, <2>2, MarkerBounds DEF PushMessage, OwnMessage
      <4> QED  BY <4>1, <1>0
    <3> QED  BY <3>1, <3>2, <3>3 DEF ChunkResult
  <2> HIDE DEF r
  <2>5. parts' \in Seq(ChunkResult) /\ Len(parts') = Len(parts)
    BY <1>0, <2>3, <2>4
  <2> QED  BY <1>0, <1>3, <2>5 DEF PushMessage, TypeOK
<1>4. ASSUME NEW w \in 1 .. Len(parts), NEW o \in 0 .. Len(buf) - 1, SkipMarker(w, o)
      PROVE  TypeOK'
  <2>1. parts[w] \in ChunkResult /\ parts[w].cursor \in Nat
    BY <1>0 DEF ChunkResult
  <2>2. AfterMarker(buf, o) \in Nat
    <3>1. AfterMarker(buf, o) \in o + 1 .. Len(buf)
      BY <1>4, <2>1, MarkerBounds DEF SkipMarker
    <3> QED  BY <3>1, <1>0
  <2>3. [parts[w] EXCEPT !.cursor = AfterMarker(buf, o)] \in ChunkResult
    BY <2>1, <2>2 DEF ChunkResult
  <2>4. parts' \in Seq(ChunkResult) /\ Len(parts') = Len(parts)
    BY <1>0, <1>4, <2>3 DEF SkipMarker
  <2> QED  BY <1>0, <1>4, <2>4 DEF SkipMarker, TypeOK
<1>5. ASSUME NEW w \in 1 .. Len(parts), FinishChunk(w) PROVE TypeOK'
  <2>1. [parts[w] EXCEPT !.finished = TRUE] \in ChunkResult
    BY <1>0 DEF ChunkResult
  <2>2. parts' \in Seq(ChunkResult) /\ Len(parts') = Len(parts)
    BY <1>0, <1>5, <2>1 DEF FinishChunk
  <2> QED  BY <1>0, <1>5, <2>2 DEF FinishChunk, TypeOK
<1>6. CASE Collect
  BY <1>0, <1>6 DEF Collect, TypeOK
<1>7. CASE MergePart
  <2> DEFINE part == parts[stitched + 1]
  <2>1. part \in ChunkResult /\ stitched' \in 0 .. Len(parts)
    BY <1>0, <1>7 DEF MergePart
  <2>2. part.offsets \in Seq(MessageOffset) /\ part.secondary \in [HotPairs -> Seq(Nat)]
    BY <2>1 DEF ChunkResult
  <2>3. secondary' \in [HotPairs -> Seq(Nat)]
    <3>1. secondary' = merge_rebased(secondary, part.secondary, Len(messages))
      BY <1>7 DEF MergePart
    <3>2. Len(messages) \in Nat
      BY <1>0
    <3> HIDE DEF part
    <3> QED  BY <1>0, <2>2, <3>1, <3>2, MergeType
  <2>4. messages' \in Seq(MessageOffset)
    BY <1>0, <1>7, <2>2 DEF MergePart
  <2> QED  BY <1>0, <1>7, <2>1, <2>3, <2>4 DEF MergePart, TypeOK
<1>8. CASE FinishStitch
  <2>1. consumed' \in Nat
    <3>1. CASE messages = << >>
      BY <1>8, <3>1 DEF FinishStitch
    <3>2. CASE messages # << >>
      <4>1. messages[Len(messages)] \in MessageOffset
        BY <1>0, <3>2
      <4> QED  BY <1>8, <3>2, <4>1 DEF FinishStitch, end, MessageOffset
    <3> QED  BY <3>1, <3>2
  <2> QED  BY <1>0, <1>8, <2>1 DEF FinishStitch, TypeOK
<1>9. CASE UNCHANGED vars
  BY <1>9 DEF vars, TypeOK
<1> QED  BY <1>1, <1>2, <1>3, <1>4, <1>5, <1>6, <1>7, <1>8, <1>9 DEF Next, Caller, Task

(* Type correctness of the parallel build.                                 *)
THEOREM TypeCorrect == Spec => []TypeOK
<1> QED  BY TypeInit, TypeStep, PTL DEF Spec
-----------------------------------------------------------------------------
LEMMA InvInit == Init => IInv
<1> SUFFICES ASSUME Init PROVE IInv
  OBVIOUS
<1>1. TypeOK
  BY TypeInit
<1>2. /\ ranges = << >> /\ parts = << >> /\ messages = << >> /\ stitched = 0 /\ pc = "split"
      /\ Len(ranges) = 0 /\ Len(parts) = 0 /\ Len(messages) = 0 /\ Len(buf) \in Nat
  BY <1>1 DEF Init, TypeOK
<1>3. RangesInv
  BY <1>2 DEF RangesInv, Cut
<1>4. PartsInv
  BY <1>2 DEF PartsInv
<1>5. Starts = {} /\ StartsIncrease
  BY <1>2 DEF Starts, StartsIncrease
<1>6. SecondaryIsExact
  <2>1. \A k \in HotPairs : secondary[k] = << >> /\ Len(secondary[k]) = 0
    BY DEF Init, EmptySecondary
  <2>2. DOMAIN secondary = HotPairs
    BY DEF Init, EmptySecondary
  <2> QED  BY <1>2, <2>1, <2>2 DEF SecondaryIsExact, ListsExactly
<1>7. StitchInv
  BY <1>2, <1>5, <1>6 DEF StitchInv
<1> QED  BY <1>1, <1>3, <1>4, <1>7 DEF IInv

(* Cutting a chunk off.                                                    *)
LEMMA RangesPush ==
  ASSUME IInv, PushRange
  PROVE  RangesInv'
<1> DEFINE hi == IF Cut + target < Len(buf) THEN Cut + target ELSE Len(buf)
           r == [lo |-> Cut, hi |-> hi]
<1>1. TypeOK /\ TypeOK'
  BY TypeStep DEF IInv, Next, Caller
<1>2. /\ Cut \in Nat /\ target \in Nat /\ target > 0 /\ Cut < Len(buf) /\ Len(buf) \in Nat
      /\ pc' = "split" /\ pc = "split" /\ buf' = buf
  BY <1>1, CutType, TargetPositive DEF PushRange, TypeOK
<1>3. r.lo = Cut /\ r.hi = hi /\ hi \in Nat /\ Cut < hi /\ hi <= Len(buf)
  BY <1>2
<1>4. r \in Chunk /\ ranges \in Seq(Chunk) /\ ranges' = Append(ranges, r)
  BY <1>1, <1>3 DEF PushRange, TypeOK, Chunk
<1> HIDE DEF r, hi
<1>5. /\ Len(ranges') = Len(ranges) + 1 /\ Len(ranges) \in Nat
      /\ ranges'[Len(ranges) + 1] = r
      /\ \A w \in 1 .. Len(ranges) : ranges'[w] = ranges[w]
  BY <1>4
<1>6. Cut' = hi
  <2>1. ranges' # << >> /\ ranges'[Len(ranges')] = r
    BY <1>5
  <2> QED  BY <2>1, <1>3 DEF Cut
<1>7. \A w \in 1 .. Len(ranges) :
        /\ ranges[w].lo \in Nat /\ ranges[w].hi \in Nat
        /\ ranges[w].lo < ranges[w].hi /\ ranges[w].hi <= Cut
  <2>1. \A w \in 1 .. Len(ranges) : ranges[w] \in Chunk
    BY <1>1 DEF TypeOK
  <2> QED  BY <2>1 DEF IInv, RangesInv, Chunk
<1>8. ASSUME NEW w \in 1 .. Len(ranges')
      PROVE  ranges'[w].lo < ranges'[w].hi /\ ranges'[w].hi <= hi
  <2>1. CASE w = Len(ranges) + 1
    BY <2>1, <1>3, <1>5
  <2>2. CASE w \in 1 .. Len(ranges)
    BY <2>2, <1>2, <1>3, <1>5, <1>7
  <2> QED  BY <2>1, <2>2, <1>5
<1>9. ASSUME NEW v \in 1 .. Len(ranges'), NEW w \in 1 .. Len(ranges'), v < w
      PROVE  ranges'[v].hi <= ranges'[w].lo
  <2>1. v \in 1 .. Len(ranges) /\ ranges'[v] = ranges[v]
    BY <1>5, <1>9
  <2>2. CASE w = Len(ranges) + 1
    BY <2>1, <2>2, <1>3, <1>5, <1>7
  <2>3. CASE w \in 1 .. Len(ranges)
    BY <2>1, <2>3, <1>5, <1>9 DEF IInv, RangesInv
  <2> QED  BY <2>2, <2>3, <1>5
<1>10. ASSUME NEW o \in 0 .. hi - 1
       PROVE  \E w \in 1 .. Len(ranges') : ranges'[w].lo <= o /\ o < ranges'[w].hi
  <2>1. CASE o < Cut
    <3>1. PICK w \in 1 .. Len(ranges) : InChunk(w, o)
      BY <2>1, <1>2, <1>3 DEF IInv, RangesInv
    <3>2. w \in 1 .. Len(ranges') /\ ranges'[w] = ranges[w]
      BY <1>5, <3>1
    <3> QED  BY <3>1, <3>2 DEF InChunk
  <2>2. CASE o >= Cut
    <3>1. Len(ranges) + 1 \in 1 .. Len(ranges')
      BY <1>5
    <3> QED  BY <2>2, <3>1, <1>3, <1>5
  <2> QED  BY <2>1, <2>2, <1>2, <1>3
<1> QED  BY <1>2, <1>3, <1>6, <1>8, <1>9, <1>10 DEF RangesInv, InChunk

LEMMA RangesStep == IInv /\ [Next]_vars => RangesInv'
<1> SUFFICES ASSUME IInv, [Next]_vars PROVE RangesInv'
  OBVIOUS
<1>1. CASE PushRange
  BY <1>1, RangesPush
<1>2. CASE StartScan
  <2>1. Cut = Len(buf) /\ Cut' = Cut /\ UNCHANGED <<buf, ranges>>
    BY <1>2, CutType DEF StartScan, IInv, RangesInv, Cut, TypeOK
  <2> QED  BY <1>2, <2>1 DEF IInv, RangesInv, InChunk
<1>3. CASE /\ UNCHANGED <<buf, ranges>>
           /\ pc' = "split" => pc = "split"
           /\ pc = "split" => pc' = "split"
  <2>1. Cut' = Cut
    BY <1>3 DEF Cut
  <2> QED  BY <1>3, <2>1 DEF IInv, RangesInv, InChunk
<1> QED
  BY <1>1, <1>2, <1>3
  DEF Next, Caller, Task, PushMessage, SkipMarker, FinishChunk, Collect, MergePart,
      FinishStitch, vars
-----------------------------------------------------------------------------
LEMMA PartTypes ==
  ASSUME TypeOK, NEW w \in 1 .. Len(parts)
  PROVE  /\ parts[w] \in ChunkResult
         /\ parts[w].offsets \in Seq(MessageOffset)
         /\ parts[w].secondary \in [HotPairs -> Seq(Nat)]
         /\ parts[w].cursor \in Nat
         /\ parts[w].finished \in BOOLEAN
         /\ ranges[w] \in Chunk /\ ranges[w].lo \in Nat /\ ranges[w].hi \in Nat
<1>1. parts \in Seq(ChunkResult) /\ ranges \in Seq(Chunk) /\ w \in 1 .. Len(ranges)
  BY DEF TypeOK
<1>2. parts[w] \in ChunkResult /\ ranges[w] \in Chunk
  BY <1>1
<1> QED  BY <1>2 DEF ChunkResult, Chunk

(* A part whose chunk and result a step leaves alone keeps its invariant.  *)
LEMMA PartUntouched ==
  ASSUME NEW w, PartInv(w), buf' = buf, parts'[w] = parts[w], ranges'[w] = ranges[w]
  PROVE  PartInv(w)'
BY DEF PartInv, PartOffsets, PartScan, PartSecondary, PartStarts, InChunk

(* A new part has nothing recorded and nothing scanned.                    *)
LEMMA PartsPushRange ==
  ASSUME IInv, PushRange
  PROVE  PartsInv'
<1> DEFINE n == Len(parts)
           hi == IF Cut + target < Len(buf) THEN Cut + target ELSE Len(buf)
           r == [lo |-> Cut, hi |-> hi]
           p == [offsets |-> << >>, secondary |-> EmptySecondary, cursor |-> Cut, finished |-> FALSE]
<1>1. TypeOK /\ TypeOK'
  BY TypeStep DEF IInv, Next, Caller
<1>2. /\ ranges' = Append(ranges, r) /\ parts' = Append(parts, p) /\ buf' = buf
      /\ Cut \in Nat
  BY <1>1, CutType DEF PushRange
<1>3. /\ p.offsets = << >> /\ p.secondary = EmptySecondary /\ p.cursor = Cut /\ ~ p.finished
      /\ r.lo = Cut
  OBVIOUS
<1> HIDE DEF r, p
<1>4. /\ n \in Nat /\ Len(parts') = n + 1 /\ Len(ranges) = n
      /\ parts'[n + 1] = p /\ ranges'[n + 1] = r
      /\ \A w \in 1 .. n : parts'[w] = parts[w] /\ ranges'[w] = ranges[w]
  BY <1>1, <1>2 DEF TypeOK
<1>5. ASSUME NEW w \in 1 .. n PROVE PartInv(w)'
  BY <1>2, <1>4, PartUntouched DEF IInv, PartsInv
<1>6. ASSUME NEW w, w = n + 1 PROVE PartInv(w)'
  <2>0. /\ parts'[w].offsets = << >> /\ Len(parts'[w].offsets) = 0
        /\ parts'[w].cursor = Cut /\ parts'[w].finished = FALSE
        /\ parts'[w].secondary = EmptySecondary
        /\ ranges'[w].lo = Cut
    BY <1>3, <1>4, <1>6
  <2>1. PartOffsets(w)'
    BY <2>0 DEF PartOffsets
  <2>2. PartScan(w)'
    <3>1. ASSUME NEW q \in CompleteIn(buf), ranges'[w].lo <= q, q < Cut
          PROVE  FALSE
      BY <1>2, <2>0, <3>1 DEF CompleteIn
    <3> QED  BY <1>2, <2>0, <3>1 DEF PartScan, InChunk
  <2>3. PartSecondary(w)'
    <3>1. \A k \in HotPairs : EmptySecondary[k] = << >> /\ Len(EmptySecondary[k]) = 0
      BY DEF EmptySecondary
    <3>2. DOMAIN EmptySecondary = HotPairs
      BY DEF EmptySecondary
    <3> QED  BY <2>0, <3>1, <3>2 DEF PartSecondary, ListsExactly
  <2>4. ranges'[w].lo <= parts'[w].cursor
    BY <2>0, <1>2
  <2> QED  BY <2>1, <2>2, <2>3, <2>4 DEF PartInv
<1>7. \A w \in 1 .. Len(parts') : w \in 1 .. n \/ w = n + 1
  BY <1>4
<1> QED  BY <1>5, <1>6, <1>7 DEF PartsInv

LEMMA PartsPushMessage ==
  ASSUME IInv, NEW w \in 1 .. Len(parts), NEW o \in 0 .. Len(buf) - 1, PushMessage(w, o)
  PROVE  PartInv(w)'
<1> DEFINE m == OffsetAt(buf, o)
           offsets == parts[w].offsets
           n == Len(offsets)
<1>1. TypeOK /\ TypeOK'
  BY TypeStep DEF IInv, Next, Task
<1>2. /\ NextMarker(buf, parts[w].cursor, o) /\ ParseOk(buf, o) /\ o < ranges[w].hi
      /\ buf' = buf /\ ranges' = ranges
  BY DEF PushMessage, OwnMessage
<1>3. /\ offsets \in Seq(MessageOffset) /\ parts[w].cursor \in Nat
      /\ parts[w].secondary \in [HotPairs -> Seq(Nat)]
      /\ ranges[w].lo \in Nat /\ ranges[w].hi \in Nat
  BY <1>1, PartTypes
<1>4. /\ parts'[w].offsets = Append(offsets, m)
      /\ parts'[w].secondary = record(parts[w].secondary, PairsAt(buf, o), n)
      /\ parts'[w].cursor = EndOf(buf, o)
      /\ parts'[w].finished = FALSE
  BY <1>1, <1>2 DEF PushMessage, OwnMessage, AfterMarker, TypeOK
<1>5. m \in MessageOffset /\ m.start = o /\ end(m) = EndOf(buf, o)
  BY <1>1, <1>2, OffsetType
<1>6. /\ o \in Nat /\ EndOf(buf, o) \in Nat /\ o + 2 <= EndOf(buf, o)
      /\ parts[w].cursor <= o /\ ranges[w].lo <= parts[w].cursor
  BY <1>1, <1>2, <1>3, MessageBounds, MarkerBounds DEF TypeOK, IInv, PartsInv, PartInv
<1>7. PartOffsets(w) /\ PartScan(w) /\ PartSecondary(w)
  BY DEF IInv, PartsInv, PartInv
<1> HIDE DEF m
<1>8. /\ n \in Nat /\ Len(parts'[w].offsets) = n + 1
      /\ parts'[w].offsets[n + 1] = m
      /\ \A i \in 1 .. n : parts'[w].offsets[i] = offsets[i]
  BY <1>3, <1>4, <1>5
<1>9. PartStarts(w)' = PartStarts(w) \cup {o}
  <2>1. ASSUME NEW x \in PartStarts(w)' PROVE x \in PartStarts(w) \cup {o}
    <3>1. PICK i \in 1 .. n + 1 : x = parts'[w].offsets[i].start
      BY <1>8 DEF PartStarts
    <3>2. CASE i = n + 1
      BY <1>5, <1>8, <3>1, <3>2
    <3>3. CASE i \in 1 .. n
      BY <1>8, <3>1, <3>3 DEF PartStarts
    <3> QED  BY <1>8, <3>2, <3>3
  <2>2. ASSUME NEW x \in PartStarts(w) PROVE x \in PartStarts(w)'
    <3>1. PICK i \in 1 .. n : x = offsets[i].start
      BY DEF PartStarts
    <3>2. i \in 1 .. Len(parts'[w].offsets) /\ x = parts'[w].offsets[i].start
      BY <1>8, <3>1
    <3> QED  BY <3>2 DEF PartStarts
  <2>3. o \in PartStarts(w)'
    <3>1. n + 1 \in 1 .. Len(parts'[w].offsets)
      BY <1>8
    <3> QED  BY <3>1, <1>5, <1>8 DEF PartStarts
  <2> QED  BY <2>1, <2>2, <2>3
<1>10. ASSUME NEW i \in 1 .. n
       PROVE  /\ ParseOk(buf, offsets[i].start)
              /\ offsets[i] = OffsetAt(buf, offsets[i].start)
              /\ InChunk(w, offsets[i].start)
              /\ EndOf(buf, offsets[i].start) <= parts[w].cursor
              /\ EndOf(buf, offsets[i].start) \in Nat
  <2>1. ParseOk(buf, offsets[i].start)
    BY <1>7 DEF PartOffsets
  <2>2. EndOf(buf, offsets[i].start) \in Nat
    BY <2>1, <1>1, MessageBounds DEF TypeOK
  <2> QED  BY <1>7, <2>1, <2>2 DEF PartOffsets
<1>11. PartOffsets(w)'
  <2>1. ASSUME NEW i \in 1 .. n + 1
        PROVE  LET x == parts'[w].offsets[i]
               IN /\ ParseOk(buf, x.start)
                  /\ x = OffsetAt(buf, x.start)
                  /\ InChunk(w, x.start)
                  /\ EndOf(buf, x.start) <= EndOf(buf, o)
    <3>1. CASE i = n + 1
      BY <3>1, <1>2, <1>5, <1>6, <1>8, <1>3 DEF m, InChunk
    <3>2. CASE i \in 1 .. n
      <4>0. EndOf(buf, offsets[i].start) <= parts[w].cursor /\ EndOf(buf, offsets[i].start) \in Nat
        BY <3>2, <1>10
      <4>1. EndOf(buf, offsets[i].start) <= EndOf(buf, o)
        BY <4>0, <1>3, <1>6
      <4> QED  BY <3>2, <4>1, <1>8, <1>10
    <3> QED  BY <3>1, <3>2, <1>8
  <2>2. ASSUME NEW i \in 1 .. n + 1, NEW j \in 1 .. n + 1, i < j
        PROVE  EndOf(buf, parts'[w].offsets[i].start) <= parts'[w].offsets[j].start
    <3>1. i \in 1 .. n
      BY <2>2, <1>8
    <3>2. CASE j = n + 1
      <4>0. EndOf(buf, offsets[i].start) <= parts[w].cursor /\ EndOf(buf, offsets[i].start) \in Nat
        BY <3>1, <1>10
      <4>1. EndOf(buf, offsets[i].start) <= o
        BY <4>0, <1>3, <1>6
      <4> QED  BY <3>1, <3>2, <4>1, <1>5, <1>8
    <3>3. CASE j \in 1 .. n
      BY <2>2, <3>1, <3>3, <1>7, <1>8 DEF PartOffsets
    <3> QED  BY <3>2, <3>3, <1>8
  <2> QED  BY <2>1, <2>2, <1>2, <1>4, <1>8 DEF PartOffsets, InChunk
<1>12. PartScan(w)'
  <2> SUFFICES ASSUME NEW q \in CompleteIn(buf), q \notin PartStarts(w) \cup {o},
                      InChunk(w, q), q < EndOf(buf, o)
               PROVE  \E p \in PartStarts(w) \cup {o} : p < q /\ q < EndOf(buf, p)
    BY <1>2, <1>4, <1>9 DEF PartScan, InChunk
  <2>1. q \in Nat /\ q # o
    BY DEF CompleteIn
  <2>2. CASE q < o
    <3>1. q < parts[w].cursor
      BY <2>2, <1>1, <1>2, <1>3, NoMessageBefore
    <3> QED  BY <3>1, <1>7 DEF PartScan
  <2>3. CASE o < q
    BY <2>3
  <2> QED  BY <2>1, <2>2, <2>3, <1>6
<1>13. PartSecondary(w)'
  <2>1. ListsExactly(record(parts[w].secondary, PairsAt(buf, m.start), n), buf, Append(offsets, m))
    BY <1>3, <1>5, <1>7, RecordExact DEF PartSecondary
  <2> QED  BY <2>1, <1>2, <1>4, <1>5 DEF PartSecondary
<1> QED
  <2>1. ranges'[w].lo <= parts'[w].cursor
    BY <1>2, <1>3, <1>4, <1>6
  <2> QED  BY <2>1, <1>11, <1>12, <1>13 DEF PartInv

LEMMA PartsSkipMarker ==
  ASSUME IInv, NEW w \in 1 .. Len(parts), NEW o \in 0 .. Len(buf) - 1, SkipMarker(w, o)
  PROVE  PartInv(w)'
<1>1. TypeOK /\ PartInv(w)
  BY DEF IInv, PartsInv
<1>2. /\ parts[w] \in ChunkResult /\ parts \in Seq(ChunkResult)
      /\ parts[w].cursor \in Nat /\ ranges[w].lo \in Nat
  BY <1>1, PartTypes DEF TypeOK
<1>3. /\ NextMarker(buf, parts[w].cursor, o) /\ ~ ParseOk(buf, o)
      /\ buf' = buf /\ ranges' = ranges
      /\ parts' = [parts EXCEPT ![w].cursor = o + 1]
  BY DEF SkipMarker, AfterMarker
<1>4. /\ parts'[w].offsets = parts[w].offsets
      /\ parts'[w].secondary = parts[w].secondary
      /\ parts'[w].finished = parts[w].finished
      /\ parts'[w].cursor = o + 1
  BY <1>2, <1>3 DEF ChunkResult
<1>5. o \in Nat /\ parts[w].cursor <= o
  BY <1>1, <1>2, <1>3, MarkerBounds
<1>6. PartOffsets(w)'
  <2>1. ASSUME NEW i \in 1 .. Len(parts[w].offsets)
        PROVE  EndOf(buf, parts[w].offsets[i].start) <= o + 1
    <3>1. /\ ParseOk(buf, parts[w].offsets[i].start)
          /\ EndOf(buf, parts[w].offsets[i].start) <= parts[w].cursor
      BY <1>1 DEF PartInv, PartOffsets
    <3>2. EndOf(buf, parts[w].offsets[i].start) \in Nat
      BY <1>1, <3>1, MessageBounds DEF TypeOK
    <3> QED  BY <1>2, <1>5, <3>1, <3>2
  <2> QED  BY <2>1, <1>1, <1>3, <1>4 DEF PartInv, PartOffsets, InChunk
<1>7. PartStarts(w)' = PartStarts(w)
  BY <1>4 DEF PartStarts
<1>8. PartScan(w)'
  <2> SUFFICES ASSUME NEW q \in CompleteIn(buf) \ PartStarts(w), InChunk(w, q),
                      q < o + 1 \/ parts[w].finished
               PROVE  \E p \in PartStarts(w) : p < q /\ q < EndOf(buf, p)
    BY <1>3, <1>4, <1>7 DEF PartScan, InChunk
  <2>1. q \in Nat /\ q # o
    BY <1>3 DEF CompleteIn
  <2>2. q < parts[w].cursor \/ parts[w].finished
    <3>1. CASE q < o
      BY <3>1, <1>1, <1>2, <1>3, NoMessageBefore
    <3> QED  BY <3>1, <2>1, <1>5
  <2> QED  BY <2>2, <1>1 DEF PartInv, PartScan
<1>9. PartSecondary(w)'
  BY <1>1, <1>3, <1>4 DEF PartInv, PartSecondary
<1>10. ranges'[w].lo <= parts'[w].cursor
  BY <1>1, <1>2, <1>3, <1>4, <1>5 DEF PartInv
<1> QED  BY <1>6, <1>8, <1>9, <1>10 DEF PartInv

LEMMA PartsFinishChunk ==
  ASSUME IInv, NEW w \in 1 .. Len(parts), FinishChunk(w)
  PROVE  PartInv(w)'
<1>1. TypeOK /\ PartInv(w)
  BY DEF IInv, PartsInv
<1>2. /\ parts[w] \in ChunkResult /\ parts \in Seq(ChunkResult)
      /\ parts[w].cursor \in Nat /\ ranges[w].lo \in Nat /\ ranges[w].hi \in Nat
  BY <1>1, PartTypes DEF TypeOK
<1>3. buf' = buf /\ ranges' = ranges /\ parts' = [parts EXCEPT ![w].finished = TRUE]
  BY DEF FinishChunk
<1>4. /\ parts'[w].offsets = parts[w].offsets
      /\ parts'[w].secondary = parts[w].secondary
      /\ parts'[w].cursor = parts[w].cursor
  BY <1>2, <1>3 DEF ChunkResult
<1>5. PartOffsets(w)' /\ PartSecondary(w)' /\ ranges'[w].lo <= parts'[w].cursor
  BY <1>1, <1>3, <1>4 DEF PartInv, PartOffsets, PartSecondary, InChunk
<1>6. PartStarts(w)' = PartStarts(w)
  BY <1>4 DEF PartStarts
<1>7. ASSUME NEW q \in CompleteIn(buf), InChunk(w, q) PROVE q < parts[w].cursor
  <2>1. q \in 0 .. Len(buf) - 1 /\ q < ranges[w].hi /\ IsBegin(buf, q) /\ Len(buf) \in Nat
    BY <1>1, <1>7 DEF CompleteIn, InChunk, ParseOk, TypeOK
  <2>2. CASE NoBeginIn(buf, parts[w].cursor, Len(buf))
    BY <2>1, <2>2, <1>2 DEF NoBeginIn
  <2>3. CASE \E o \in ranges[w].hi .. Len(buf) - 1 : NextMarker(buf, parts[w].cursor, o)
    <3>1. PICK o \in ranges[w].hi .. Len(buf) - 1 : NextMarker(buf, parts[w].cursor, o)
      BY <2>3
    <3>2. q < o
      BY <1>2, <2>1, <3>1
    <3> QED  BY <1>1, <1>2, <3>1, <3>2, NoMessageBefore
  <2> QED  BY <2>2, <2>3 DEF FinishChunk
<1>8. PartScan(w)'
  BY <1>1, <1>3, <1>4, <1>6, <1>7 DEF PartInv, PartScan, InChunk
<1> QED  BY <1>5, <1>8 DEF PartInv

LEMMA PartsStep == IInv /\ [Next]_vars => PartsInv'
<1> SUFFICES ASSUME IInv, [Next]_vars PROVE PartsInv'
  OBVIOUS
<1>1. CASE PushRange
  BY <1>1, PartsPushRange
<1>2. ASSUME NEW w \in 1 .. Len(parts), Task(w) PROVE PartsInv'
  <2>1. PartInv(w)'
    BY <1>2, PartsPushMessage, PartsSkipMarker, PartsFinishChunk DEF Task
  <2>2. /\ buf' = buf /\ ranges' = ranges /\ Len(parts') = Len(parts)
        /\ \A v \in 1 .. Len(parts) : v # w => parts'[v] = parts[v]
    BY <1>2 DEF Task, PushMessage, SkipMarker, FinishChunk, IInv, TypeOK
  <2>3. ASSUME NEW v \in 1 .. Len(parts), v # w PROVE PartInv(v)'
    BY <2>2, <2>3, PartUntouched DEF IInv, PartsInv
  <2> QED  BY <2>1, <2>2, <2>3 DEF PartsInv
<1>3. CASE UNCHANGED <<buf, ranges, parts>>
  <2>1. ASSUME NEW v \in 1 .. Len(parts) PROVE PartInv(v)'
    BY <1>3, PartUntouched DEF IInv, PartsInv
  <2> QED  BY <1>3, <2>1 DEF PartsInv
<1> QED
  BY <1>1, <1>2, <1>3
  DEF Next, Caller, StartScan, Collect, MergePart, FinishStitch, vars
-----------------------------------------------------------------------------
LEMMA ShiftElements ==
  ASSUME NEW l1 \in Seq(Nat), NEW l2 \in Seq(Nat), NEW n \in Nat,
         NEW c, c = l1 \o [i \in 1 .. Len(l2) |-> l2[i] + n]
  PROVE  /\ Len(c) = Len(l1) + Len(l2)
         /\ \A i \in 1 .. Len(l1) : c[i] = l1[i]
         /\ \A i \in 1 .. Len(l2) : c[Len(l1) + i] = l2[i] + n
<1> DEFINE s == [i \in 1 .. Len(l2) |-> l2[i] + n]
<1>1. Len(l1) \in Nat /\ Len(l2) \in Nat /\ \A i \in 1 .. Len(l2) : l2[i] \in Nat
  OBVIOUS
<1>2. s \in Seq(Nat) /\ Len(s) = Len(l2) /\ \A i \in 1 .. Len(l2) : s[i] = l2[i] + n
  BY <1>1
<1> HIDE DEF s
<1>3. /\ Len(c) = Len(l1) + Len(s)
      /\ \A i \in 1 .. Len(l1) : c[i] = l1[i]
      /\ \A i \in 1 .. Len(s) : c[Len(l1) + i] = s[i]
  BY <1>1, <1>2 DEF s
<1> QED  BY <1>2, <1>3

(* Merging a list of later ordinals, moved by n, after a list below n.     *)
LEMMA ConcatShift ==
  ASSUME NEW l1 \in Seq(Nat), NEW l2 \in Seq(Nat), NEW n \in Nat, NEW c,
         Increasing(l1), Increasing(l2), ListedIn(l1) \subseteq 0 .. n - 1,
         Len(c) = Len(l1) + Len(l2),
         \A i \in 1 .. Len(l1) : c[i] = l1[i],
         \A i \in 1 .. Len(l2) : c[Len(l1) + i] = l2[i] + n
  PROVE  /\ ListedIn(c) = ListedIn(l1) \cup {x + n : x \in ListedIn(l2)}
         /\ Increasing(c)
<1> DEFINE n1 == Len(l1)
           n2 == Len(l2)
<1>1. /\ n1 \in Nat /\ n2 \in Nat
      /\ \A i \in 1 .. n1 : l1[i] \in Nat
      /\ \A i \in 1 .. n2 : l2[i] \in Nat
  OBVIOUS
<1>3. Len(c) = n1 + n2 /\ \A i \in 1 .. n1 : c[i] = l1[i]
  OBVIOUS
<1>4. \A i \in 1 .. n2 : c[n1 + i] = l2[i] + n
  OBVIOUS
<1>5. \A i \in 1 .. Len(c) : i \in 1 .. n1 \/ \E j \in 1 .. n2 : i = n1 + j
  <2> SUFFICES ASSUME NEW i \in 1 .. Len(c), i \notin 1 .. n1
               PROVE  i - n1 \in 1 .. n2 /\ i = n1 + (i - n1)
    OBVIOUS
  <2> QED  BY <1>1, <1>3
<1> HIDE DEF n1, n2
<1>6. \A i \in 1 .. n1 : l1[i] \in ListedIn(l1) /\ l1[i] < n
  <2>1. \A i \in 1 .. n1 : l1[i] \in ListedIn(l1)
    BY DEF ListedIn, n1
  <2> QED  BY <2>1, <1>1
<1>7. ListedIn(c) = ListedIn(l1) \cup {x + n : x \in ListedIn(l2)}
  <2>1. ASSUME NEW x \in ListedIn(c) PROVE x \in ListedIn(l1) \cup {y + n : y \in ListedIn(l2)}
    <3>1. PICK i \in 1 .. Len(c) : x = c[i]
      BY DEF ListedIn
    <3>2. CASE i \in 1 .. n1
      BY <3>1, <3>2, <1>3, <1>6
    <3>3. ASSUME NEW j \in 1 .. n2, i = n1 + j PROVE x \in {y + n : y \in ListedIn(l2)}
      <4>1. l2[j] \in ListedIn(l2) /\ x = l2[j] + n
        BY <3>1, <3>3, <1>4 DEF ListedIn, n2
      <4> QED  BY <4>1
    <3> QED  BY <3>2, <3>3, <1>5
  <2>2. ASSUME NEW x \in ListedIn(l1) PROVE x \in ListedIn(c)
    <3>1. PICK i \in 1 .. n1 : x = l1[i]
      BY DEF ListedIn, n1
    <3>2. i \in 1 .. Len(c) /\ x = c[i]
      BY <3>1, <1>1, <1>3
    <3> QED  BY <3>2 DEF ListedIn
  <2>3. ASSUME NEW x \in ListedIn(l2) PROVE x + n \in ListedIn(c)
    <3>1. PICK j \in 1 .. n2 : x = l2[j]
      BY DEF ListedIn, n2
    <3>2. n1 + j \in 1 .. Len(c) /\ x + n = c[n1 + j]
      BY <3>1, <1>1, <1>3, <1>4
    <3> QED  BY <3>2 DEF ListedIn
  <2> QED  BY <2>1, <2>2, <2>3
<1>8. ASSUME NEW i \in 1 .. Len(c), NEW j \in 1 .. Len(c), i < j
      PROVE  c[i] < c[j]
  <2>1. CASE i \in 1 .. n1 /\ j \in 1 .. n1
    BY <2>1, <1>8, <1>3 DEF Increasing, n1
  <2>2. ASSUME NEW u \in 1 .. n2, j = n1 + u, i \in 1 .. n1 PROVE c[i] < c[j]
    <3>1. c[i] = l1[i] /\ l1[i] \in Nat /\ l1[i] < n
      BY <2>2, <1>1, <1>3, <1>6 DEF n1
    <3>2. c[j] = l2[u] + n /\ l2[u] \in Nat
      BY <2>2, <1>1, <1>4 DEF n2
    <3> QED  BY <3>1, <3>2
  <2>3. ASSUME NEW t \in 1 .. n2, NEW u \in 1 .. n2, i = n1 + t, j = n1 + u PROVE c[i] < c[j]
    <3>1. t < u
      BY <2>3, <1>1, <1>8 DEF n1, n2
    <3>2. l2[t] < l2[u] /\ l2[t] \in Nat /\ l2[u] \in Nat
      BY <3>1, <1>1 DEF Increasing, n2
    <3>3. c[i] = l2[t] + n /\ c[j] = l2[u] + n
      BY <2>3, <1>4 DEF n2
    <3> QED  BY <3>2, <3>3
  <2>4. ASSUME NEW t \in 1 .. n2, i = n1 + t, j \in 1 .. n1 PROVE FALSE
    BY <2>4, <1>1, <1>8 DEF n1, n2
  <2> QED  BY <2>1, <2>2, <2>3, <2>4, <1>5
<1> QED  BY <1>7, <1>8 DEF Increasing

(* merge_rebased keeps the lists exact for the concatenated offsets.       *)
LEMMA MergeExact ==
  ASSUME NEW b, NEW x \in Seq(MessageOffset), NEW y \in Seq(MessageOffset),
         NEW sx \in [HotPairs -> Seq(Nat)], NEW sy \in [HotPairs -> Seq(Nat)],
         ListsExactly(sx, b, x), ListsExactly(sy, b, y)
  PROVE  ListsExactly(merge_rebased(sx, sy, Len(x)), b, x \o y)
<1> DEFINE n == Len(x)
           r == merge_rebased(sx, sy, n)
           c == x \o y
<1>1. /\ n \in Nat /\ Len(y) \in Nat /\ Len(c) = n + Len(y)
      /\ \A i \in 1 .. n : c[i] = x[i]
      /\ \A i \in 1 .. Len(y) : c[n + i] = y[i]
  OBVIOUS
<1>2. r \in [HotPairs -> Seq(Nat)]
  BY <1>1, MergeType
<1> SUFFICES ASSUME NEW k \in HotPairs
             PROVE  ListedIn(r[k]) = MentionedBy(b, c, k) /\ Increasing(r[k])
  BY <1>2, ListsExactlyParts
<1>3. /\ ListedIn(sx[k]) = MentionedBy(b, x, k) /\ Increasing(sx[k]) /\ sx[k] \in Seq(Nat)
      /\ ListedIn(sy[k]) = MentionedBy(b, y, k) /\ Increasing(sy[k]) /\ sy[k] \in Seq(Nat)
  BY DEF ListsExactly, ListedIn, MentionedBy, Increasing
<1>4. r[k] = sx[k] \o [i \in 1 .. Len(sy[k]) |-> sy[k][i] + n]
  BY DEF merge_rebased
<1>5. /\ Len(r[k]) = Len(sx[k]) + Len(sy[k])
      /\ \A i \in 1 .. Len(sx[k]) : r[k][i] = sx[k][i]
      /\ \A i \in 1 .. Len(sy[k]) : r[k][Len(sx[k]) + i] = sy[k][i] + n
  <2> HIDE DEF r
  <2> QED  BY <1>1, <1>3, <1>4, ShiftElements
<1> HIDE DEF r, c
<1>6. ListedIn(sx[k]) \subseteq 0 .. n - 1
  BY <1>3 DEF MentionedBy
<1>7. ListedIn(r[k]) = ListedIn(sx[k]) \cup {z + n : z \in ListedIn(sy[k])} /\ Increasing(r[k])
  BY <1>1, <1>3, <1>5, <1>6, ConcatShift
<1>8. MentionedBy(b, c, k) = MentionedBy(b, x, k) \cup {z + n : z \in MentionedBy(b, y, k)}
  <2>1. ASSUME NEW m \in MentionedBy(b, c, k)
        PROVE  m \in MentionedBy(b, x, k) \cup {z + n : z \in MentionedBy(b, y, k)}
    <3>1. m \in 0 .. Len(c) - 1 /\ k \in PairsAt(b, c[m + 1].start)
      BY DEF MentionedBy
    <3>2. CASE m < n
      <4>1. m \in 0 .. n - 1 /\ c[m + 1] = x[m + 1]
        BY <1>1, <3>1, <3>2
      <4> QED  BY <3>1, <4>1 DEF MentionedBy
    <3>3. CASE n <= m
      <4>0. m - n \in 0 .. Len(y) - 1 /\ (m - n) + 1 \in 1 .. Len(y)
        BY <1>1, <3>1, <3>3
      <4>1. m - n \in 0 .. Len(y) - 1 /\ c[n + ((m - n) + 1)] = y[(m - n) + 1]
        BY <1>1, <4>0
      <4>2. n + ((m - n) + 1) = m + 1 /\ (m - n) + n = m
        BY <1>1, <3>1
      <4>3. m - n \in MentionedBy(b, y, k)
        BY <3>1, <4>1, <4>2 DEF MentionedBy
      <4> QED  BY <4>2, <4>3
    <3> QED  BY <1>1, <3>1, <3>2, <3>3
  <2>2. ASSUME NEW m \in MentionedBy(b, x, k) PROVE m \in MentionedBy(b, c, k)
    <3>1. m \in 0 .. n - 1 /\ k \in PairsAt(b, x[m + 1].start)
      BY DEF MentionedBy
    <3>2. m \in 0 .. Len(c) - 1 /\ c[m + 1] = x[m + 1]
      BY <1>1, <3>1
    <3> QED  BY <3>1, <3>2 DEF MentionedBy
  <2>3. ASSUME NEW m \in MentionedBy(b, y, k) PROVE m + n \in MentionedBy(b, c, k)
    <3>1. m \in 0 .. Len(y) - 1 /\ k \in PairsAt(b, y[m + 1].start)
      BY DEF MentionedBy
    <3>2. m + n \in 0 .. Len(c) - 1 /\ c[n + (m + 1)] = y[m + 1] /\ n + (m + 1) = (m + n) + 1
      BY <1>1, <3>1
    <3> QED  BY <3>1, <3>2 DEF MentionedBy
  <2> QED  BY <2>1, <2>2, <2>3
<1> QED  BY <1>3, <1>7, <1>8
-----------------------------------------------------------------------------
(* What is known of a recorded start.                                      *)
LEMMA PartStartFacts ==
  ASSUME IInv, NEW w \in 1 .. Len(parts), NEW p \in PartStarts(w)
  PROVE  /\ ParseOk(buf, p) /\ p \in CompleteIn(buf) /\ p \in Nat
         /\ InChunk(w, p)
<1>1. PICK i \in 1 .. Len(parts[w].offsets) : p = parts[w].offsets[i].start
  BY DEF PartStarts
<1>2. ParseOk(buf, p) /\ InChunk(w, p)
  BY <1>1 DEF IInv, PartsInv, PartInv, PartOffsets
<1> QED  BY <1>2 DEF CompleteIn, ParseOk, IsBegin

(* Chunks do not overlap, so a start belongs to one chunk only.            *)
LEMMA OneChunk ==
  ASSUME IInv, NEW v \in 1 .. Len(parts), NEW w \in 1 .. Len(parts), NEW o \in Nat,
         InChunk(v, o), InChunk(w, o)
  PROVE  v = w
<1>1. /\ ranges[v].lo \in Nat /\ ranges[v].hi \in Nat /\ Len(parts) = Len(ranges)
      /\ ranges[w].lo \in Nat /\ ranges[w].hi \in Nat
  BY PartTypes DEF IInv, TypeOK
<1>2. ~ (v < w) /\ ~ (w < v)
  BY <1>1 DEF IInv, RangesInv, InChunk
<1> QED  BY <1>2

LEMMA StitchMerge ==
  ASSUME IInv, MergePart
  PROVE  StitchInv'
<1> DEFINE s == stitched + 1
           part == parts[s]
           n == Len(messages)
           new == part.offsets
<1>1. TypeOK /\ s \in 1 .. Len(parts) /\ stitched \in Nat /\ Len(parts) \in Nat
  BY DEF IInv, TypeOK, MergePart
<1>2. /\ new \in Seq(MessageOffset) /\ part.secondary \in [HotPairs -> Seq(Nat)]
      /\ messages \in Seq(MessageOffset) /\ secondary \in [HotPairs -> Seq(Nat)]
  BY <1>1, PartTypes DEF TypeOK
<1>3. /\ stitched' = s /\ pc' = "stitch" /\ pc = "stitch" /\ messages' = messages \o new
      /\ secondary' = merge_rebased(secondary, part.secondary, n)
      /\ UNCHANGED <<buf, ranges, parts>>
  BY DEF MergePart
<1> HIDE DEF part, new
<1>4. /\ n \in Nat /\ Len(new) \in Nat /\ Len(messages') = n + Len(new)
      /\ \A i \in 1 .. n : messages'[i] = messages[i]
      /\ \A i \in 1 .. Len(new) : messages'[n + i] = new[i]
  BY <1>2, <1>3
<1>5. \A i \in 1 .. Len(messages') : i \in 1 .. n \/ \E j \in 1 .. Len(new) : i = n + j
  <2> SUFFICES ASSUME NEW i \in 1 .. Len(messages'), i \notin 1 .. n
               PROVE  i - n \in 1 .. Len(new) /\ i = n + (i - n)
    OBVIOUS
  <2> QED  BY <1>4
<1> HIDE DEF n, s
<1>6. PartStarts(s) = {new[i].start : i \in 1 .. Len(new)}
  BY DEF PartStarts, new, part
<1>7. Starts' = Starts \cup PartStarts(s)
  <2>1. ASSUME NEW x \in Starts' PROVE x \in Starts \cup PartStarts(s)
    <3>1. PICK i \in 1 .. Len(messages') : x = messages'[i].start
      BY DEF Starts
    <3>2. CASE i \in 1 .. n
      BY <1>4, <3>1, <3>2 DEF Starts, n
    <3>3. ASSUME NEW j \in 1 .. Len(new), i = n + j PROVE x \in PartStarts(s)
      BY <1>4, <1>6, <3>1, <3>3
    <3> QED  BY <1>5, <3>2, <3>3
  <2>2. ASSUME NEW x \in Starts PROVE x \in Starts'
    <3>1. PICK i \in 1 .. n : x = messages[i].start
      BY DEF Starts, n
    <3>2. i \in 1 .. Len(messages') /\ x = messages'[i].start
      BY <1>4, <3>1
    <3> QED  BY <3>2 DEF Starts
  <2>3. ASSUME NEW x \in PartStarts(s) PROVE x \in Starts'
    <3>1. PICK j \in 1 .. Len(new) : x = new[j].start
      BY <1>6
    <3>2. n + j \in 1 .. Len(messages') /\ x = messages'[n + j].start
      BY <1>4, <3>1
    <3> QED  BY <3>2 DEF Starts
  <2> QED  BY <2>1, <2>2, <2>3
<1>8. Starts' = UNION {PartStarts(w) : w \in 1 .. s}
  <2>1. Starts = UNION {PartStarts(w) : w \in 1 .. stitched}
    BY DEF IInv, StitchInv
  <2>2. 1 .. s = (1 .. stitched) \cup {s}
    BY <1>1 DEF s
  <2> QED  BY <1>7, <2>1, <2>2
<1>9. PartInv(s) /\ StartsIncrease
  BY <1>1 DEF IInv, PartsInv, StitchInv
<1>10. \A i \in 1 .. Len(new) :
         /\ ParseOk(buf, new[i].start) /\ new[i] = OffsetAt(buf, new[i].start)
         /\ InChunk(s, new[i].start) /\ new[i].start \in Nat
         /\ EndOf(buf, new[i].start) \in Nat /\ new[i].start < EndOf(buf, new[i].start)
  <2> TAKE i \in 1 .. Len(new)
  <2>1. /\ ParseOk(buf, new[i].start) /\ new[i] = OffsetAt(buf, new[i].start)
        /\ InChunk(s, new[i].start)
    BY <1>9 DEF PartInv, PartOffsets, new, part
  <2>2. /\ new[i].start \in Nat /\ EndOf(buf, new[i].start) \in Nat
        /\ new[i].start + 2 <= EndOf(buf, new[i].start)
    BY <1>1, <2>1, MessageBounds DEF TypeOK
  <2> QED  BY <2>1, <2>2
<1>11. \A i \in 1 .. n :
         /\ ParseOk(buf, messages[i].start) /\ messages[i] = OffsetAt(buf, messages[i].start)
         /\ messages[i].start \in Nat
         /\ messages[i].start < ranges[s].lo
  <2> TAKE i \in 1 .. n
  <2>1. ParseOk(buf, messages[i].start) /\ messages[i] = OffsetAt(buf, messages[i].start)
    BY <1>9 DEF StartsIncrease, n
  <2>2. messages[i].start \in Starts
    BY DEF Starts, n
  <2>3. PICK v \in 1 .. stitched : messages[i].start \in PartStarts(v)
    BY <2>2 DEF IInv, StitchInv
  <2>4. v \in 1 .. Len(parts) /\ v < s
    BY <1>1, <2>3 DEF s
  <2>5. InChunk(v, messages[i].start) /\ messages[i].start \in Nat
    BY <2>3, <2>4, PartStartFacts
  <2>6. ranges[v].hi <= ranges[s].lo /\ ranges[v].hi \in Nat /\ ranges[s].lo \in Nat
    BY <1>1, <2>4, PartTypes DEF IInv, RangesInv, TypeOK
  <2> QED  BY <2>1, <2>5, <2>6 DEF InChunk
<1>12. StartsIncrease'
  <2>1. ASSUME NEW i \in 1 .. Len(messages')
        PROVE  /\ ParseOk(buf, messages'[i].start)
               /\ messages'[i] = OffsetAt(buf, messages'[i].start)
    <3>1. CASE i \in 1 .. n
      BY <1>4, <1>11, <3>1
    <3>2. ASSUME NEW j \in 1 .. Len(new), i = n + j
          PROVE  /\ ParseOk(buf, messages'[i].start)
                 /\ messages'[i] = OffsetAt(buf, messages'[i].start)
      <4>1. messages'[i] = new[j]
        BY <1>4, <3>2
      <4> QED  BY <4>1, <1>10
    <3> QED  BY <1>5, <3>1, <3>2
  <2>2. ASSUME NEW i \in 1 .. Len(messages'), NEW j \in 1 .. Len(messages'), i < j
        PROVE  messages'[i].start < messages'[j].start
    <3>1. CASE i \in 1 .. n /\ j \in 1 .. n
      BY <1>4, <1>9, <2>2, <3>1 DEF StartsIncrease, n
    <3>2. ASSUME NEW u \in 1 .. Len(new), i \in 1 .. n, j = n + u
          PROVE  messages'[i].start < messages'[j].start
      <4>1. messages'[j] = new[u] /\ messages'[i] = messages[i]
        BY <1>4, <3>2
      <4>2. ranges[s].lo <= new[u].start /\ new[u].start \in Nat /\ ranges[s].lo \in Nat
        BY <1>1, <1>10, PartTypes DEF InChunk
      <4>3. messages[i].start < ranges[s].lo /\ messages[i].start \in Nat
        BY <1>11, <3>2
      <4> QED  BY <4>1, <4>2, <4>3
    <3>3. ASSUME NEW t \in 1 .. Len(new), NEW u \in 1 .. Len(new), i = n + t, j = n + u
          PROVE  messages'[i].start < messages'[j].start
      <4>1. messages'[i] = new[t] /\ messages'[j] = new[u] /\ t < u
        BY <1>4, <2>2, <3>3
      <4>2. EndOf(buf, new[t].start) <= new[u].start
        BY <1>9, <4>1 DEF PartInv, PartOffsets, new, part
      <4> QED  BY <1>10, <4>1, <4>2
    <3>4. ASSUME NEW t \in 1 .. Len(new), i = n + t, j \in 1 .. n PROVE FALSE
      BY <1>4, <2>2, <3>4
    <3> QED  BY <1>5, <3>1, <3>2, <3>3, <3>4
  <2> QED  BY <2>1, <2>2, <1>3 DEF StartsIncrease
<1>13. SecondaryIsExact'
  <2>1. ListsExactly(secondary, buf, messages) /\ ListsExactly(part.secondary, buf, new)
    BY <1>9 DEF IInv, StitchInv, SecondaryIsExact, PartInv, PartSecondary, new, part
  <2>2. ListsExactly(merge_rebased(secondary, part.secondary, n), buf, messages \o new)
    BY <1>2, <2>1, MergeExact DEF n
  <2> QED  BY <1>3, <2>2 DEF SecondaryIsExact
<1>14. \A w \in 1 .. Len(parts) : parts[w].finished
  BY <1>3 DEF IInv, StitchInv
<1>15. Starts' = UNION {PartStarts(w)' : w \in 1 .. stitched'}
  BY <1>3, <1>8 DEF PartStarts
<1> QED  BY <1>3, <1>12, <1>13, <1>14, <1>15 DEF StitchInv

LEMMA StitchStep == IInv /\ [Next]_vars => StitchInv'
<1> SUFFICES ASSUME IInv, [Next]_vars PROVE StitchInv'
  OBVIOUS
<1>1. CASE MergePart
  BY <1>1, StitchMerge
<1>2. CASE pc \in {"split", "scan"} /\ pc' \in {"split", "scan"}
           /\ UNCHANGED <<buf, messages, secondary, stitched>>
  <2>1. stitched = 0 /\ stitched' = 0 /\ Starts = {} /\ Starts' = Starts
    <3>1. stitched = 0
      BY <1>2 DEF IInv, StitchInv
    <3>2. Starts = {}
      BY <3>1 DEF IInv, StitchInv
    <3> QED  BY <1>2, <3>1, <3>2 DEF Starts
  <2>2. StartsIncrease' /\ SecondaryIsExact'
    BY <1>2 DEF IInv, StitchInv, StartsIncrease, SecondaryIsExact
  <2>3. Starts' = UNION {PartStarts(w)' : w \in 1 .. stitched'}
    BY <2>1
  <2> QED  BY <1>2, <2>1, <2>2, <2>3 DEF StitchInv
<1>3. CASE Collect \/ FinishStitch \/ UNCHANGED vars
  <2>1. UNCHANGED <<buf, parts, messages, secondary, stitched>>
    BY <1>3 DEF Collect, FinishStitch, vars
  <2>2. Starts' = UNION {PartStarts(w)' : w \in 1 .. stitched'}
    <3>1. Starts' = Starts
      BY <2>1 DEF Starts
    <3>2. \A w : PartStarts(w)' = PartStarts(w)
      BY <2>1 DEF PartStarts
    <3>3. Starts = UNION {PartStarts(w) : w \in 1 .. stitched}
      BY DEF IInv, StitchInv
    <3> QED  BY <2>1, <3>1, <3>2, <3>3
  <2>3. StartsIncrease' /\ SecondaryIsExact'
    BY <2>1 DEF IInv, StitchInv, StartsIncrease, SecondaryIsExact
  <2>4. /\ pc' \in {"split", "scan"} => stitched' = 0
        /\ pc' \in {"stitch", "done"} => \A w \in 1 .. Len(parts') : parts'[w].finished
        /\ pc' = "done" => stitched' = Len(parts')
    BY <1>3, <2>1 DEF IInv, StitchInv, Collect, FinishStitch, vars
  <2> QED  BY <2>2, <2>3, <2>4 DEF StitchInv
<1> QED
  BY <1>1, <1>2, <1>3
  DEF Next, Caller, Task, PushRange, StartScan, PushMessage, SkipMarker, FinishChunk

LEMMA InvStep == IInv /\ [Next]_vars => IInv'
BY TypeStep, RangesStep, PartsStep, StitchStep DEF IInv

LEMMA InvAlways == Spec => []IInv
<1> QED  BY InvInit, InvStep, PTL DEF Spec
-----------------------------------------------------------------------------
(* Every offset of the buffer belongs to exactly one chunk.                *)
THEOREM ChunksCorrect == Spec => []ChunksPartition
<1>1. IInv => ChunksPartition
  BY DEF IInv, RangesInv, ChunksPartition, InChunk
<1> QED  BY InvAlways, <1>1, PTL

(* The stitched messages are complete and in file order.                   *)
THEOREM StartsCorrect == Spec => []StartsIncrease
<1>1. IInv => StartsIncrease
  BY DEF IInv, StitchInv
<1> QED  BY InvAlways, <1>1, PTL

(* The lookups of the stitched index are exact, at every merge.            *)
THEOREM SecondaryCorrect == Spec => []SecondaryIsExact
<1>1. IInv => SecondaryIsExact
  BY DEF IInv, StitchInv
<1> QED  BY InvAlways, <1>1, PTL

LEMMA DoneIsScanPerChunk == IInv => ScheduleIndependent
<1> SUFFICES ASSUME IInv, pc = "done" PROVE
      Starts = {o \in CompleteIn(buf) :
                  ~ \E p \in Starts :
                      /\ p < o /\ o < EndOf(buf, p)
                      /\ \E w \in 1 .. Len(ranges) : InChunk(w, p) /\ InChunk(w, o)}
  BY DEF ScheduleIndependent
<1>1. /\ Starts = UNION {PartStarts(w) : w \in 1 .. Len(parts)}
      /\ Len(parts) = Len(ranges) /\ Cut = Len(buf)
      /\ \A w \in 1 .. Len(parts) : parts[w].finished
  BY DEF IInv, StitchInv, TypeOK, RangesInv
<1>2. ASSUME NEW o \in Starts
      PROVE  /\ o \in CompleteIn(buf)
             /\ ~ \E p \in Starts :
                    /\ p < o /\ o < EndOf(buf, p)
                    /\ \E w \in 1 .. Len(ranges) : InChunk(w, p) /\ InChunk(w, o)
  <2>1. PICK v \in 1 .. Len(parts) : o \in PartStarts(v)
    BY <1>1
  <2>2. o \in CompleteIn(buf) /\ InChunk(v, o) /\ o \in Nat
    BY <2>1, PartStartFacts
  <2>3. ASSUME NEW p \in Starts, p < o, o < EndOf(buf, p),
               NEW w \in 1 .. Len(parts), InChunk(w, p), InChunk(w, o)
        PROVE  FALSE
    <3>1. PICK u \in 1 .. Len(parts) : p \in PartStarts(u)
      BY <1>1
    <3>2. InChunk(u, p) /\ p \in Nat
      BY <3>1, PartStartFacts
    <3>3. u = w /\ v = w
      BY <2>2, <2>3, <3>2, OneChunk
    <3>4. PICK i \in 1 .. Len(parts[w].offsets) : p = parts[w].offsets[i].start
      BY <3>1, <3>3 DEF PartStarts
    <3>5. PICK j \in 1 .. Len(parts[w].offsets) : o = parts[w].offsets[j].start
      BY <2>1, <3>3 DEF PartStarts
    <3>6. EndOf(buf, p) \in Nat /\ EndOf(buf, o) \in Nat /\ o < EndOf(buf, o)
      <4>1. ParseOk(buf, p) /\ ParseOk(buf, o)
        BY <2>1, <3>1, PartStartFacts
      <4>2. EndOf(buf, p) \in Nat /\ EndOf(buf, o) \in Nat /\ o + 2 <= EndOf(buf, o)
        BY <4>1, MessageBounds DEF IInv, TypeOK
      <4> QED  BY <4>2, <2>2
    <3>7. /\ i < j => EndOf(buf, p) <= o
          /\ j < i => EndOf(buf, o) <= p
      BY <3>4, <3>5 DEF IInv, PartsInv, PartInv, PartOffsets
    <3> QED  BY <2>2, <2>3, <3>2, <3>4, <3>5, <3>6, <3>7
  <2> QED  BY <1>1, <2>2, <2>3
<1>3. ASSUME NEW o \in CompleteIn(buf), o \notin Starts
      PROVE  \E p \in Starts :
               /\ p < o /\ o < EndOf(buf, p)
               /\ \E w \in 1 .. Len(ranges) : InChunk(w, p) /\ InChunk(w, o)
  <2>1. o \in 0 .. Cut - 1
    BY <1>1 DEF CompleteIn
  <2>2. PICK w \in 1 .. Len(ranges) : InChunk(w, o)
    BY <2>1 DEF IInv, RangesInv
  <2>3. o \notin PartStarts(w) /\ PartScan(w) /\ parts[w].finished
    BY <1>1, <1>3 DEF IInv, PartsInv, PartInv
  <2>4. PICK p \in PartStarts(w) : p < o /\ o < EndOf(buf, p)
    BY <2>2, <2>3 DEF PartScan
  <2>5. p \in Starts /\ InChunk(w, p)
    BY <1>1, <2>4, PartStartFacts
  <2> QED  BY <2>2, <2>4, <2>5
<1> QED  BY <1>2, <1>3

(* The result of the build does not depend on the schedule.                *)
THEOREM ScheduleCorrect == Spec => []ScheduleIndependent
<1> QED  BY InvAlways, DoneIsScanPerChunk, PTL

(* Where no complete message lies inside another, the parallel build finds *)
(* what the sequential build finds.                                        *)
THEOREM ParallelEqualsSequential == Spec => []SameAsSequential
<1>1. ASSUME IInv PROVE SameAsSequential
  <2> SUFFICES ASSUME pc = "done", NoNesting(buf)
               PROVE  /\ Starts = CompleteIn(buf)
                      /\ IsScan(buf, Starts)
                      /\ \A i, j \in 1 .. Len(messages) :
                           i < j => end(messages[i]) <= messages[j].start
    BY DEF SameAsSequential
  <2>1. \A p, q \in CompleteIn(buf) : p < q => EndOf(buf, p) <= q
    BY DEF NoNesting
  <2>2. \A p \in CompleteIn(buf) : p \in Nat /\ EndOf(buf, p) \in Nat
    BY <1>1, MessageBounds DEF CompleteIn, IInv, TypeOK
  <2>3. Starts \subseteq CompleteIn(buf)
    BY <1>1, DoneIsScanPerChunk DEF ScheduleIndependent
  <2>4. Starts = CompleteIn(buf)
    <3> SUFFICES ASSUME NEW o \in CompleteIn(buf), NEW p \in Starts, p < o, o < EndOf(buf, p)
                 PROVE  FALSE
      BY <1>1, <2>3, DoneIsScanPerChunk DEF ScheduleIndependent
    <3> QED  BY <2>1, <2>2, <2>3
  <2>5. IsScan(buf, Starts)
    <3> SUFFICES ASSUME NEW o \in CompleteIn(buf), NEW p \in CompleteIn(buf), p < o, o < EndOf(buf, p)
                 PROVE  FALSE
      BY <2>4 DEF IsScan
    <3> QED  BY <2>1, <2>2
  <2>6. ASSUME NEW i \in 1 .. Len(messages), NEW j \in 1 .. Len(messages), i < j
        PROVE  end(messages[i]) <= messages[j].start
    <3>1. messages[i].start \in Starts /\ messages[j].start \in Starts
      BY DEF Starts
    <3>2. messages[i].start < messages[j].start
      BY <1>1, <2>6 DEF IInv, StitchInv, StartsIncrease
    <3>3. end(messages[i]) = EndOf(buf, messages[i].start)
      BY <1>1, OffsetType DEF IInv, StitchInv, StartsIncrease
    <3> QED  BY <2>1, <2>4, <3>1, <3>2, <3>3
  <2> QED  BY <2>4, <2>5, <2>6
<1> QED  BY InvAlways, <1>1, PTL
=============================================================================
