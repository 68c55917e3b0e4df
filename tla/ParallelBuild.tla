--------------------------- MODULE ParallelBuild ---------------------------
(***************************************************************************)
(* fixlog-index: build_from_bytes_parallel.  The calling thread cuts the   *)
(* buffer into chunks, one rayon task per chunk scans for the messages that*)
(* start in its chunk, and the calling thread stitches the partial results *)
(* together in chunk order.                                                *)
(***************************************************************************)
EXTENDS FixBuffer

CONSTANTS
  HotPairs,     (* the (tag, value) pairs whose tag is in HotTags          *)
  Bufs,         (* the buffers that are built over                         *)
  ThreadCounts, (* the possible sizes of the rayon pool                    *)
  MinBufSize,   (* MIN_BUF_SIZE_FOR_PARALLEL                               *)
  MinChunkSize  (* MIN_CHUNK_SIZE                                          *)

ASSUME ConstantsAssumption ==
  /\ HotPairs \subseteq Nat
  /\ Bufs \subseteq Seq(Cell)
  /\ ThreadCounts \subseteq Nat \ {0}
  /\ MinBufSize \in Nat
  /\ MinChunkSize \in Nat \ {0}

VARIABLES
  buf,        (* the buffer, shared and read only                          *)
  threads,    (* rayon::current_num_threads                                *)
  pc,         (* what the calling thread does                              *)
  ranges,     (* the chunks [lo, hi), in buffer order                      *)
  parts,      (* per chunk: ChunkResult and the state of its task          *)
  stitched,   (* number of parts that stitch has merged                    *)
  messages,   (* LogIndex.messages                                         *)
  consumed,   (* LogIndex.consumed                                         *)
  secondary   (* LogIndex.secondary, restricted to the hot pairs           *)

vars == <<buf, threads, pc, ranges, parts, stitched, messages, consumed, secondary>>

Chunk == [lo : Nat, hi : Nat]

ChunkResult == [offsets : Seq(MessageOffset), secondary : [HotPairs -> Seq(Nat)],
                cursor : Nat, finished : BOOLEAN]

EmptySecondary == [k \in HotPairs |-> << >>]

Starts == {messages[i].start : i \in 1 .. Len(messages)}

-----------------------------------------------------------------------------
Init ==
  /\ buf \in Bufs
  /\ threads \in ThreadCounts
  /\ pc = "split"
  /\ ranges = << >>
  /\ parts = << >>
  /\ stitched = 0
  /\ messages = << >>
  /\ consumed = 0
  /\ secondary = EmptySecondary

(* The single-threaded path is one scan of the whole buffer.               *)
Sequential == threads = 1 \/ Len(buf) < MinBufSize

target ==
  IF Sequential THEN Len(buf)
  ELSE IF Len(buf) \div threads > MinChunkSize THEN Len(buf) \div threads ELSE MinChunkSize

(* The end of the last chunk cut so far.                                   *)
Cut == IF ranges = << >> THEN 0 ELSE ranges[Len(ranges)].hi

(* chunk_ranges, one turn of its loop; the chunk's task is ready to run.   *)
PushRange ==
  /\ pc = "split"
  /\ Cut < Len(buf)
  /\ LET hi == IF Cut + target < Len(buf) THEN Cut + target ELSE Len(buf)
     IN ranges' = Append(ranges, [lo |-> Cut, hi |-> hi])
  /\ parts' = Append(parts, [offsets |-> << >>, secondary |-> EmptySecondary,
                             cursor |-> Cut, finished |-> FALSE])
  /\ UNCHANGED <<buf, threads, pc, stitched, messages, consumed, secondary>>

StartScan ==
  /\ pc = "split"
  /\ Cut >= Len(buf)
  /\ pc' = "scan"
  /\ UNCHANGED <<buf, threads, ranges, parts, stitched, messages, consumed, secondary>>

(* The parser's next message, when it starts in chunk w.                    *)
OwnMessage(w, o) ==
  NextMarker(buf, parts[w].cursor, o) /\ ParseOk(buf, o) /\ o < ranges[w].hi

(* scan_chunk, one turn of its loop, in the task of chunk w: the parser    *)
(* yields a message that starts in the chunk.                              *)
PushMessage(w, o) ==
  /\ pc = "scan"
  /\ ~ parts[w].finished
  /\ OwnMessage(w, o)
  /\ parts' = [parts EXCEPT ![w] =
       [offsets   |-> Append(@.offsets, OffsetAt(buf, o)),
        secondary |-> record(@.secondary, PairsAt(buf, o), Len(@.offsets)),
        cursor    |-> AfterMarker(buf, o),
        finished  |-> FALSE]]
  /\ UNCHANGED <<buf, threads, pc, ranges, stitched, messages, consumed, secondary>>

(* An Err item is dropped, wherever it starts.                             *)
SkipMarker(w, o) ==
  /\ pc = "scan"
  /\ ~ parts[w].finished
  /\ NextMarker(buf, parts[w].cursor, o)
  /\ ~ ParseOk(buf, o)
  /\ parts' = [parts EXCEPT ![w].cursor = AfterMarker(buf, o)]
  /\ UNCHANGED <<buf, threads, pc, ranges, stitched, messages, consumed, secondary>>

(* The next message belongs to a later chunk, or there is none.            *)
FinishChunk(w) ==
  /\ pc = "scan"
  /\ ~ parts[w].finished
  /\ \/ NoBeginIn(buf, parts[w].cursor, Len(buf))
     \/ \E o \in ranges[w].hi .. Len(buf) - 1 :
          NextMarker(buf, parts[w].cursor, o) /\ ParseOk(buf, o)
  /\ parts' = [parts EXCEPT ![w].finished = TRUE]
  /\ UNCHANGED <<buf, threads, pc, ranges, stitched, messages, consumed, secondary>>

Task(w) ==
  (\E o \in 0 .. Len(buf) - 1 : PushMessage(w, o) \/ SkipMarker(w, o)) \/ FinishChunk(w)

(* collect: every task has returned.                                       *)
Collect ==
  /\ pc = "scan"
  /\ \A w \in 1 .. Len(parts) : parts[w].finished
  /\ pc' = "stitch"
  /\ UNCHANGED <<buf, threads, ranges, parts, stitched, messages, consumed, secondary>>

(* Mutant of merge_rebased: the ordinals are not moved.                    *)
merge_verbatim(sec, other, base) == [k \in HotPairs |-> sec[k] \o other[k]]

(* SecondaryIndex::merge_rebased                                           *)
merge_rebased(sec, other, base) ==
  [k \in HotPairs |-> sec[k] \o [i \in 1 .. Len(other[k]) |-> other[k][i] + base]]

(* stitch, one turn of its loop: the part's ordinals start at the number   *)
(* of messages merged before it.                                           *)
MergePart ==
  /\ pc = "stitch"
  /\ stitched < Len(parts)
  /\ stitched' = stitched + 1
  /\ LET part == parts[stitched + 1]
     IN /\ secondary' = merge_rebased(secondary, part.secondary, Len(messages))
        /\ messages' = messages \o part.offsets
  /\ UNCHANGED <<buf, threads, pc, ranges, parts, consumed>>

FinishStitch ==
  /\ pc = "stitch"
  /\ stitched = Len(parts)
  /\ consumed' = IF messages = << >> THEN 0 ELSE end(messages[Len(messages)])
  /\ pc' = "done"
  /\ UNCHANGED <<buf, threads, ranges, parts, stitched, messages, secondary>>

Caller == PushRange \/ StartScan \/ Collect \/ MergePart \/ FinishStitch

Next == Caller \/ \E w \in 1 .. Len(parts) : Task(w)

Spec == Init /\ [][Next]_vars

-----------------------------------------------------------------------------
TypeOK ==
  /\ buf \in Seq(Cell)
  /\ threads \in Nat \ {0}
  /\ pc \in {"split", "scan", "stitch", "done"}
  /\ ranges \in Seq(Chunk)
  /\ parts \in Seq(ChunkResult)
  /\ Len(parts) = Len(ranges)
  /\ stitched \in 0 .. Len(parts)
  /\ messages \in Seq(MessageOffset)
  /\ consumed \in Nat
  /\ secondary \in [HotPairs -> Seq(Nat)]

(* parallel.rs: "Each worker owns the messages whose start offset falls     *)
(* inside its chunk": every offset of the buffer belongs to one chunk.      *)
ChunksPartition ==
  pc # "split" =>
    /\ \A o \in 0 .. Len(buf) - 1 :
         \E w \in 1 .. Len(ranges) : ranges[w].lo <= o /\ o < ranges[w].hi
    /\ \A v, w \in 1 .. Len(ranges) : v < w => ranges[v].hi <= ranges[w].lo

InChunk(w, o) == ranges[w].lo <= o /\ o < ranges[w].hi

(* Whatever order the tasks ran in, the index has the messages that one     *)
(* scan per chunk finds: a message is left out only when an earlier message *)
(* of the same chunk covers its marker.                                     *)
ScheduleIndependent ==
  pc = "done" =>
    Starts = {o \in CompleteIn(buf) :
                ~ \E p \in Starts :
                    /\ p < o /\ o < EndOf(buf, p)
                    /\ \E w \in 1 .. Len(ranges) : InChunk(w, p) /\ InChunk(w, o)}

(* lib.rs: messages is "Monotonic in start"; every entry is a message.      *)
StartsIncrease ==
  /\ \A i \in 1 .. Len(messages) :
       /\ ParseOk(buf, messages[i].start)
       /\ messages[i] = OffsetAt(buf, messages[i].start)
  /\ \A i, j \in 1 .. Len(messages) : i < j => messages[i].start < messages[j].start

(* parallel.rs: "No double counting, no lost messages".  When no complete   *)
(* message lies inside another, the parallel build finds each message once, *)
(* as the sequential build does, and no two ranges share a byte.            *)
SameAsSequential ==
  pc = "done" /\ NoNesting(buf) =>
    /\ Starts = CompleteIn(buf)
    /\ IsScan(buf, Starts)
    /\ \A i, j \in 1 .. Len(messages) : i < j => end(messages[i]) <= messages[j].start

(* After stitching, a lookup answers the messages that mention the pair, in *)
(* increasing order: the ordinals of every chunk were moved by the number   *)
(* of messages of the chunks before it.                                     *)
SecondaryIsExact == ListsExactly(secondary, buf, messages)

-----------------------------------------------------------------------------
(* parallel.rs:24: "Everything above behaves identically to                 *)
(* build_from_bytes", without a condition on the buffer.                    *)
IdenticalToSequential == pc = "done" => IsScan(buf, Starts)

(* parallel.rs:124, on chunk_ranges: "at most `threads` contiguous          *)
(* half-open ranges".                                                       *)
AtMostThreadsRanges == ~ Sequential => Len(ranges) <= threads
=============================================================================
