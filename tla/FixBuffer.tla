------------------------------ MODULE FixBuffer ------------------------------
(***************************************************************************)
(* A log buffer as the tokenizer of fixlog-parser sees it.                 *)
(*                                                                         *)
(* The buffer is a sequence of cells.  A cell is a stretch of bytes that   *)
(* the tokenizer reads or skips as one piece: the BeginString field        *)
(* together with the BodyLength field, any other complete field, a         *)
(* CheckSum field, or bytes that are not a field (prefixes, newlines,      *)
(* truncated fields).  Offsets count cells instead of bytes and start at   *)
(* 0, as in the code: the cell at offset o is buf[o + 1].                  *)
(***************************************************************************)
EXTENDS Integers, Sequences

(* arg is the declared BodyLength of a "begin" cell, the (tag, value) pair  *)
(* of a "field" cell, and 0 in the others.                                  *)
Cell == [kind : {"begin", "field", "end", "noise"}, arg : Nat]

Begin(n) == [kind |-> "begin", arg |-> n]
Field(k) == [kind |-> "field", arg |-> k]
End      == [kind |-> "end",   arg |-> 0]
Noise    == [kind |-> "noise", arg |-> 0]

(* find_begin_string: the offsets at which the 8=FIX marker is found.       *)
IsBegin(buf, o) == o \in 0 .. Len(buf) - 1 /\ buf[o + 1].kind = "begin"

NoBeginIn(buf, lo, hi) == \A o \in lo .. hi - 1 : ~ IsBegin(buf, o)

(* Where the CheckSum field must start, and where the message then ends.    *)
BodyEnd(buf, o) == o + 1 + buf[o + 1].arg
EndOf(buf, o)   == BodyEnd(buf, o) + 1

(* parse_one_inner fails with UnexpectedEof: the CheckSum field is not yet  *)
(* in the buffer.                                                           *)
UnexpectedEof(buf, o) == IsBegin(buf, o) /\ BodyEnd(buf, o) >= Len(buf)

(* parse_one_inner returns Ok: the cell at BodyEnd is the CheckSum, and the *)
(* second walk finds nothing but fields in the body.  A complete message    *)
(* embedded in the body is a run of fields like any other.                  *)
ParseOk(buf, o) ==
  /\ IsBegin(buf, o)
  /\ BodyEnd(buf, o) < Len(buf)
  /\ buf[BodyEnd(buf, o) + 1].kind = "end"
  /\ \A i \in o + 1 .. BodyEnd(buf, o) - 1 : buf[i + 1].kind # "noise"

(* Every other outcome of parse_one_inner: InvalidBodyLength, InvalidTag.   *)
Malformed(buf, o) ==
  IsBegin(buf, o) /\ ~ UnexpectedEof(buf, o) /\ ~ ParseOk(buf, o)

(* The pairs (tag, value) among the tags of the message at offset o.        *)
PairsAt(buf, o) ==
  {buf[i + 1].arg : i \in {j \in o .. BodyEnd(buf, o) : buf[j + 1].kind = "field"}}

-----------------------------------------------------------------------------
(* Parser::next, one call: the next marker at or after the cursor, and the *)
(* cursor it leaves behind.                                                *)
NextMarker(buf, cursor, o) ==
  /\ IsBegin(buf, o)
  /\ cursor <= o
  /\ NoBeginIn(buf, cursor, o)

(* Mutant of AfterMarker: the scan skips the declared body of a malformed   *)
(* marker.                                                                  *)
AfterMarkerSkipsBody(buf, o) == EndOf(buf, o)

AfterMarker(buf, o) == IF ParseOk(buf, o) THEN EndOf(buf, o) ELSE o + 1

-----------------------------------------------------------------------------
(* What the index keeps of a message.                                      *)
MessageOffset == [start : Nat, len : Nat]

end(m) == m.start + m.len

OffsetAt(buf, o) == [start |-> o, len |-> EndOf(buf, o) - o]

(* Mutant of record: the ordinal is taken after the message was pushed.    *)
recordNext(secondary, pairs, ordinal) ==
  [k \in DOMAIN secondary |->
     IF k \in pairs THEN Append(secondary[k], ordinal + 1) ELSE secondary[k]]

(* SecondaryIndex::record: the ordinal goes to the list of every hot pair  *)
(* of the message, once for a pair that occurs twice.                      *)
record(secondary, pairs, ordinal) ==
  [k \in DOMAIN secondary |->
     IF k \in pairs THEN Append(secondary[k], ordinal) ELSE secondary[k]]

(* Every list of secondary has the ordinals of the offsets whose message    *)
(* mentions the pair, each once and in increasing order.                    *)
ListsExactly(secondary, buf, offsets) ==
  \A k \in DOMAIN secondary :
    /\ {secondary[k][i] : i \in 1 .. Len(secondary[k])} =
         {n \in 0 .. Len(offsets) - 1 : k \in PairsAt(buf, offsets[n + 1].start)}
    /\ \A i, j \in 1 .. Len(secondary[k]) : i < j => secondary[k][i] < secondary[k][j]

-----------------------------------------------------------------------------
CompleteIn(buf) == {o \in 0 .. Len(buf) - 1 : ParseOk(buf, o)}

(* No complete message lies inside another one.                            *)
NoNesting(buf) ==
  \A p, q \in CompleteIn(buf) : p < q => EndOf(buf, p) <= q

(* starts is what a scan that begins at offset 0 finds: a complete message *)
(* is found unless the scan jumped over its marker inside an earlier one.  *)
IsScan(buf, starts) ==
  starts = {o \in CompleteIn(buf) :
              ~ \E p \in starts : p < o /\ o < EndOf(buf, p)}
=============================================================================
