----------------------------- MODULE StreamDrain -----------------------------
(***************************************************************************)
(* fixlog-analysis: push_source and drain_complete of                      *)
(* orders_consolidated.rs, which hand the messages of one source to        *)
(* handle_message.  The source is read in chunks; what follows the last    *)
(* complete message stays in a buffer for the next chunk, and a watchdog   *)
(* bounds that buffer.                                                     *)
(*                                                                         *)
(* The source is a sequence of cells (FixBuffer), and a cell is delivered  *)
(* in two halves: offset 2 * o is the first byte of cell o, 2 * o + 1 is   *)
(* behind its 8=FIX if it is a begin cell, and inside it if it is another. *)
(* buf is always the stretch of the source from base to read, so that the  *)
(* offsets of the code are these less base.                                *)
(***************************************************************************)
EXTENDS FixBuffer, SequencesExt

CONSTANTS
  Cells,      (* the cells of the source                                   *)
  MaxLen,     (* bound on the length of the source                         *)
  ReadChunk,  (* READ_CHUNK: the most that one read delivers               *)
  MaxBuffer   (* MAX_BUFFER                                                *)

ASSUME ConstantsAssumption ==
  /\ Cells \subseteq Cell
  /\ MaxLen \in Nat
  /\ ReadChunk \in Nat \ {0}
  /\ MaxBuffer \in Nat

VARIABLES
  source,     (* what src will deliver                                     *)
  base,       (* the buffer is the source from base ...                    *)
  read,       (* ... to read                                               *)
  cursor,     (* drain_complete's cursor                                   *)
  pc,         (* "read", "drain", "check", "last" (drain at EOF), "done"   *)
  handled,    (* the cells at which the messages handled begin             *)
  dropped     (* history: the bytes that the watchdog has discarded        *)

vars == <<source, base, read, cursor, pc, handled, dropped>>

Size == 2 * Len(source)

(* The 8=FIX of cell o is in the buffer, and is the first from cursor on.   *)
Found(o) == IsBegin(source, o) /\ cursor <= 2 * o /\ 2 * o < read

FirstFound(o) == Found(o) /\ \A p \in 0 .. o - 1 : ~ Found(p)

NoneFound == \A o \in 0 .. Len(source) - 1 : ~ Found(o)

(* parse_one_with_format can tell what is at o once it has all of the field *)
(* that should be the CheckSum; noise in its place has no = of its own, so  *)
(* that the parser looks for one in what comes after.                       *)
Noisy(o) == source[o + 1].kind = "noise"

Told(o) ==
  \E e \in BodyEnd(source, o) .. Len(source) - 1 :
    /\ \A i \in BodyEnd(source, o) .. e - 1 : Noisy(i)
    /\ ~ Noisy(e)
    /\ read >= IF e = BodyEnd(source, o) THEN 2 * e + 2 ELSE 2 * e + 1

-----------------------------------------------------------------------------
Sources == UNION {[1 .. n -> Cells] : n \in 0 .. MaxLen}

Init ==
  /\ source \in Sources
  /\ base = 0 /\ read = 0 /\ cursor = 0
  /\ pc = "read"
  /\ handled = << >>
  /\ dropped = {}

(* src.read: a chunk of any length up to READ_CHUNK, or none at the end.    *)
ReadSome(n) ==
  /\ pc = "read"
  /\ read + n <= Size
  /\ read' = read + n
  /\ cursor' = base
  /\ pc' = "drain"
  /\ UNCHANGED <<source, base, handled, dropped>>

ReadEof ==
  /\ pc = "read"
  /\ read = Size
  /\ cursor' = base
  /\ pc' = "last"
  /\ UNCHANGED <<source, base, read, handled, dropped>>

(* drain_complete, one turn: a complete message is handled ...              *)
HandleMessage(o) ==
  /\ pc \in {"drain", "last"}
  /\ FirstFound(o) /\ Told(o)
  /\ ParseOk(source, o)
  /\ handled' = Append(handled, o)
  /\ cursor' = 2 * EndOf(source, o)
  /\ UNCHANGED <<source, base, read, pc, dropped>>

(* Mutants of SkipMalformed: the scan stays where it is, or skips the       *)
(* declared body too.                                                       *)
SkipMalformedStays(o) ==
  /\ pc \in {"drain", "last"}
  /\ FirstFound(o) /\ Told(o)
  /\ ~ ParseOk(source, o)
  /\ cursor' = 2 * o
  /\ UNCHANGED <<source, base, read, pc, handled, dropped>>

SkipMalformedBody(o) ==
  /\ pc \in {"drain", "last"}
  /\ FirstFound(o) /\ Told(o)
  /\ ~ ParseOk(source, o)
  /\ cursor' = 2 * EndOf(source, o)
  /\ UNCHANGED <<source, base, read, pc, handled, dropped>>

(* ... of a malformed one only the marker is passed ...                     *)
SkipMalformed(o) ==
  /\ pc \in {"drain", "last"}
  /\ FirstFound(o) /\ Told(o)
  /\ ~ ParseOk(source, o)
  /\ cursor' = 2 * o + 1
  /\ UNCHANGED <<source, base, read, pc, handled, dropped>>

(* ... and an incomplete one, or the lack of a marker, ends the turns.      *)
(* push_source drains what was consumed; the mutant takes the incomplete    *)
(* message for consumed too.                                                *)
DrainAll(consumed) == base' = read

DrainConsumed(consumed) == base' = consumed

StopDrain ==
  /\ pc = "drain"
  /\ \/ NoneFound /\ DrainConsumed(cursor)
     \/ \E o \in 0 .. Len(source) - 1 : FirstFound(o) /\ ~ Told(o) /\ DrainConsumed(2 * o)
  /\ pc' = "check"
  /\ UNCHANGED <<source, read, cursor, handled, dropped>>

StopLast ==
  /\ pc = "last"
  /\ \/ NoneFound
     \/ \E o \in 0 .. Len(source) - 1 : FirstFound(o) /\ ~ Told(o)
  /\ pc' = "done"
  /\ UNCHANGED <<source, base, read, cursor, handled, dropped>>

(* The watchdog leaves the last half of MAX_BUFFER.                         *)
CheckBuffer ==
  /\ pc = "check"
  /\ LET from == IF read - base > MaxBuffer THEN read - MaxBuffer \div 2 ELSE base
     IN base' = from /\ dropped' = dropped \cup base .. from - 1
  /\ pc' = "read"
  /\ UNCHANGED <<source, read, cursor, handled>>

Drain ==
  \/ \E o \in 0 .. Len(source) - 1 : HandleMessage(o) \/ SkipMalformed(o)
  \/ StopDrain \/ StopLast

Next == (\E n \in 1 .. ReadChunk : ReadSome(n)) \/ ReadEof \/ Drain \/ CheckBuffer

Spec == Init /\ [][Next]_vars

(* push_source is a loop without waits: the source "eventually terminates". *)
FairSpec == Spec /\ WF_vars(Next)
-----------------------------------------------------------------------------
(* Properties.                                                              *)

(* The buffer is a stretch of what has been read, and the cursor is in it   *)
(* while it is drained: no index of buf[start..] or buf.drain(..n) is out   *)
(* of range.                                                                *)
TypeOK ==
  /\ source \in Seq(Cell)
  /\ base \in 0 .. read /\ read \in 0 .. Size
  /\ pc \in {"read", "drain", "check", "last", "done"}
  /\ cursor \in Nat
  /\ pc \in {"drain", "last"} => cursor \in base .. read
  /\ handled \in Seq(Nat)
  /\ dropped \subseteq 0 .. Size - 1

(* The bytes that stay in the buffer are parsed again with the next chunk,  *)
(* but no byte is ever part of two messages handled: no fill is counted     *)
(* twice because a chunk ended near it.                                     *)
HandledOnce ==
  /\ \A i \in DOMAIN handled : ParseOk(source, handled[i])
  /\ \A i, j \in DOMAIN handled : i < j => EndOf(source, handled[i]) <= handled[j]

Reached(o) ==
  IsBegin(source, o) /\ ~ \E p \in ToSet(handled) : p < o /\ o < EndOf(source, p)

(* Where the chunks end does not matter, be it inside a message, inside a   *)
(* field or between two fields: as long as the watchdog has not bitten, the *)
(* messages handled are those of one scan over the whole source, up to the  *)
(* first that never gets complete.                                          *)
ChunksDoNotMatter ==
  pc = "done" /\ dropped = {} =>
    ToSet(handled) =
      {o \in CompleteIn(source) :
         Reached(o) /\ \A b \in 0 .. o - 1 : Reached(b) => Told(b)}

(* With the watchdog too, a complete message is left out for a reason: it   *)
(* shares bytes with a message handled or with what was discarded, or it is *)
(* behind a message in the buffer that never got complete.                  *)
OnlyDroppedIsLost ==
  pc = "done" =>
    \A q \in CompleteIn(source) \ ToSet(handled) :
      \/ \E p \in ToSet(handled) : p < EndOf(source, q) /\ q < EndOf(source, p)
      \/ (2 * q .. 2 * EndOf(source, q) - 1) \cap dropped # {}
      \/ \E b \in 0 .. q - 1 : IsBegin(source, b) /\ base <= 2 * b /\ ~ Told(b)

(* orders_consolidated.rs:151: the buffer cannot grow without bound, not on *)
(* a source without markers nor behind a message that is never complete.    *)
BufferIsBounded ==
  /\ pc = "read" => read - base <= MaxBuffer
  /\ read - base <= MaxBuffer + ReadChunk

(* push_source returns: no turn of its loops leaves everything as it was.   *)
SourceEnds == <>(pc = "done")
=============================================================================
