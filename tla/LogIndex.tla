------------------------------ MODULE LogIndex ------------------------------
(***************************************************************************)
(* fixlog-index: the offset index over a log that a live producer keeps    *)
(* appending to, built by build_from_bytes and grown by append_from_offset.*)
(*                                                                         *)
(* The producer and the indexer are two processes.  A call of the indexer  *)
(* works on the slice it was given, the first `mapped` cells of the file,  *)
(* one marker per step, while the producer goes on writing.                *)
(***************************************************************************)
EXTENDS FixBuffer

CONSTANTS
  HotPairs,   (* the (tag, value) pairs whose tag is in HotTags            *)
  Cells,      (* the cells the producer writes                             *)
  MaxLen      (* bound on the length of the file, in cells                 *)

ASSUME ConstantsAssumption ==
  /\ HotPairs \subseteq Nat
  /\ Cells \subseteq Cell
  /\ MaxLen \in Nat

VARIABLES
  file,       (* the log on disk                                           *)
  mapped,     (* length of the slice that the last accepted call was given *)
  messages,   (* LogIndex.messages                                         *)
  consumed,   (* LogIndex.consumed                                         *)
  secondary,  (* LogIndex.secondary, restricted to the hot pairs           *)
  cursor,     (* position of the parser's scan                             *)
  running,    (* a call is in extend_index                                 *)
  result      (* what the last call is, or returned                        *)

vars == <<file, mapped, messages, consumed, secondary, cursor, running, result>>

buf == SubSeq(file, 1, mapped)

Starts == {messages[i].start : i \in 1 .. Len(messages)}

Results == {"none", "build", "append", "NonContiguousAppend", "BufferShrank"}

-----------------------------------------------------------------------------
(* LogIndex::with_hot_tags                                                 *)
EmptyIndex ==
  /\ messages' = << >>
  /\ consumed' = 0
  /\ secondary' = [k \in HotPairs |-> << >>]

Init ==
  /\ file = << >>
  /\ mapped = 0
  /\ messages = << >>
  /\ consumed = 0
  /\ secondary = [k \in HotPairs |-> << >>]
  /\ cursor = 0
  /\ running = FALSE
  /\ result = "none"

(* The producer appends a cell.                                            *)
Write(c) ==
  /\ Len(file) < MaxLen
  /\ file' = Append(file, c)
  /\ UNCHANGED <<mapped, messages, consumed, secondary, cursor, running, result>>

(* build_from_bytes over the first n cells of the file.                    *)
Build(n) ==
  /\ ~ running
  /\ mapped' = n
  /\ EmptyIndex
  /\ cursor' = 0
  /\ running' = TRUE
  /\ result' = "build"
  /\ UNCHANGED file

(* append_from_offset(buf, from): the two refusals leave the index alone.  *)
Refuse(n, from) ==
  /\ ~ running
  /\ \/ from # consumed /\ result' = "NonContiguousAppend"
     \/ from = consumed /\ n < consumed /\ result' = "BufferShrank"
  /\ UNCHANGED <<file, mapped, messages, consumed, secondary, cursor, running>>

AppendFromOffset(n, from) ==
  /\ ~ running
  /\ from = consumed
  /\ n >= consumed
  /\ mapped' = n
  /\ cursor' = from
  /\ running' = TRUE
  /\ result' = "append"
  /\ UNCHANGED <<file, messages, consumed, secondary>>

(* extend_index, one turn of its loop: the parser yields a message.        *)
PushMessage(o) ==
  /\ running
  /\ NextMarker(buf, cursor, o)
  /\ ParseOk(buf, o)
  /\ messages' = Append(messages, OffsetAt(buf, o))
  /\ consumed' = end(OffsetAt(buf, o))
  /\ secondary' = record(secondary, PairsAt(buf, o), Len(messages))
  /\ cursor' = AfterMarker(buf, o)
  /\ UNCHANGED <<file, mapped, running, result>>

(* extend_index drops the Err items (flatten); the parser goes on one byte *)
(* after the marker.                                                       *)
SkipMarker(o) ==
  /\ running
  /\ NextMarker(buf, cursor, o)
  /\ ~ ParseOk(buf, o)
  /\ cursor' = AfterMarker(buf, o)
  /\ UNCHANGED <<file, mapped, messages, consumed, secondary, running, result>>

(* Mutant of Return: the call claims the trailing bytes.                   *)
ReturnClaimsTail ==
  /\ running
  /\ NoBeginIn(buf, cursor, mapped)
  /\ running' = FALSE
  /\ consumed' = mapped
  /\ UNCHANGED <<file, mapped, messages, secondary, cursor, result>>

(* The parser finds no further marker; the call returns.                   *)
Return ==
  /\ running
  /\ NoBeginIn(buf, cursor, mapped)
  /\ running' = FALSE
  /\ UNCHANGED <<file, mapped, messages, consumed, secondary, cursor, result>>

Scan == (\E o \in 0 .. mapped - 1 : PushMessage(o) \/ SkipMarker(o)) \/ Return

Next ==
  \/ \E c \in Cells : Write(c)
  \/ \E n \in 0 .. Len(file) : Build(n)
  \/ \E n \in 0 .. Len(file), from \in 0 .. Len(file) :
       Refuse(n, from) \/ AppendFromOffset(n, from)
  \/ Scan

Spec == Init /\ [][Next]_vars

-----------------------------------------------------------------------------
TypeOK ==
  /\ file \in Seq(Cell)
  /\ mapped \in 0 .. Len(file)
  /\ messages \in Seq(MessageOffset)
  /\ consumed \in Nat
  /\ secondary \in [HotPairs -> Seq(Nat)]
  /\ cursor \in Nat
  /\ running \in BOOLEAN
  /\ result \in Results

(* lib.rs: "one MessageOffset per parsed message ... Monotonic in start".   *)
(* Every recorded range is a complete message of the slice, the ranges come *)
(* in file order, and no two of them share a byte.                          *)
OffsetsAreMessages ==
  /\ \A i \in 1 .. Len(messages) :
       /\ ParseOk(buf, messages[i].start)
       /\ end(messages[i]) = EndOf(buf, messages[i].start)
  /\ \A i, j \in 1 .. Len(messages) :
       i < j => end(messages[i]) <= messages[j].start

(* builder.rs, Invariants: consumed is the offset immediately past the last *)
(* message indexed, so the trailing bytes are not claimed.                  *)
ConsumedIsLastEnd ==
  consumed = IF messages = << >> THEN 0 ELSE end(messages[Len(messages)])

(* Two ranges that share a byte.                                            *)
Overlap(b, p, q) ==
  \/ p < q /\ q < EndOf(b, p)
  \/ q < p /\ p < EndOf(b, q)

(* lib.rs, consumed: "what makes the append path robust to partial writes   *)
(* from a live producer".  After a call, however the file grew between the  *)
(* calls, a complete message of the slice that is not in the index overlaps *)
(* one that is.                                                             *)
NothingLost ==
  ~ running =>
    \A q \in CompleteIn(buf) \ Starts : \E p \in Starts : Overlap(buf, p, q)

(* The test append_from_offset_produces_same_index_as_single_build, over    *)
(* every split of every file: when no complete message lies inside another, *)
(* the index has exactly the complete messages, however many calls made it. *)
SameAsSingleBuild ==
  ~ running /\ NoNesting(buf) => Starts = CompleteIn(buf)

(* A fresh build finds what one left to right scan finds, whatever the      *)
(* nesting: a message is left out only when its marker was jumped over.     *)
BuildIsScan ==
  ~ running /\ result = "build" => IsScan(buf, Starts)

(* secondary.rs: ordinals are indices into messages, always monotonic, and  *)
(* a lookup answers which messages mention the pair at least once.          *)
SecondaryIsExact == ListsExactly(secondary, buf, messages)

-----------------------------------------------------------------------------
(* builder.rs:46 says that a message that straddled the previous boundary   *)
(* "is rescanned from its original start", so appending must give the index *)
(* of a single build even when a complete message lies inside it.           *)
StraddlingMessageRescanned ==
  ~ running /\ result = "append" => IsScan(buf, Starts)
=============================================================================
