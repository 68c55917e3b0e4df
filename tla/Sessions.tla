------------------------------ MODULE Sessions ------------------------------
(***************************************************************************)
(* fixlog-analysis, sessions.rs: the messages grouped by the unordered pair *)
(* of their CompIDs, with the gaps of MsgSeqNum in each direction.  A map   *)
(* is built over an index, or extended after the index grew.  The counts    *)
(* per message type are left out.                                           *)
(***************************************************************************)
EXTENDS IndexedLog

CONSTANTS MaxSeq  (* u32::MAX *)

ASSUME MaxSeqAssumption == MaxSeq \in Nat

canonical(x, y) == IF x <= y THEN [sender |-> x, target |-> y] ELSE [sender |-> y, target |-> x]

is_in(key, sender) == sender = key.sender

(* Of a value that is no number, or too large a one, nothing.              *)
parse_u32_ascii(value) == IF value \in 0 .. MaxSeq THEN value ELSE None

seq(msg) == parse_u32_ascii(find_tag(msg, MsgSeqNum))

EmptyStats == [in_count |-> 0, out_count |-> 0, seq_min |-> None, seq_max |-> None,
               gaps |-> << >>, ordinals |-> << >>]

EmptyMap == [by_key |-> << >>, by_ordinal |-> << >>]

(* What a message adds to its session.                                     *)
counted(stats, key, msg, ordinal) ==
  LET n == seq(msg)
      b == IF is_in(key, find_tag(msg, SenderCompID)) THEN 1 ELSE 0
  IN [stats EXCEPT
        !.in_count = @ + b, !.out_count = @ + 1 - b,
        !.seq_min = IF n = None THEN @ ELSE IF @ = None THEN n ELSE Min({@, n}),
        !.seq_max = IF n = None THEN @ ELSE IF @ = None THEN n ELSE Max({@, n}),
        !.ordinals = Append(@, ordinal)]

add(map, index, ordinal) ==
  LET msg    == message(index, ordinal)
      sender == find_tag(msg, SenderCompID)
      target == find_tag(msg, TargetCompID)
      key    == canonical(sender, target)
      stats  == IF key \in DOMAIN map.by_key THEN map.by_key[key] ELSE EmptyStats
  IN IF None \in {sender, target}
     THEN [map EXCEPT !.by_ordinal = Append(@, None)]
     ELSE [by_key |-> [k \in DOMAIN map.by_key \cup {key} |->
                         IF k = key THEN counted(stats, key, msg, ordinal) ELSE map.by_key[k]],
           by_ordinal |-> Append(map.by_ordinal, key)]

append_internal(map, index, from) ==
  LET done[n \in from .. Len(index)] == IF n = from THEN map ELSE add(done[n - 1], index, n - 1)
  IN done[Len(index)]

-----------------------------------------------------------------------------
(* The pairs of sequence number and ordinal, by number; sort_by_key is     *)
(* stable and the ordinals come in increasing order.                       *)
NumberLess(p, q) == p[1] < q[1] \/ (p[1] = q[1] /\ p[2] < q[2])

sorted(pairs) == Ranked(pairs, {x \in pairs \X pairs : NumberLess(x[1], x[2])})

(* Mutant of seq_after: one number further.                                *)
seq_after_next(n) == n + 2

(* s1 + 1 on u32.                                                          *)
seq_after(n) == (n + 1) % (MaxSeq + 1)

detect_gaps(pairs) ==
  LET p    == sorted(pairs)
      gaps == [i \in 1 .. Len(p) - 1 |->
                 [from_seq |-> p[i][1], to_seq |-> p[i + 1][1],
                  ordinal_before |-> p[i][2], ordinal_after |-> p[i + 1][2]]]
  IN Chosen(gaps, {i \in 1 .. Len(p) - 1 : p[i + 1][1] > seq_after(p[i][1])})

Direction(index, key, stats, in) ==
  {<<seq(message(index, o)), o>> : o \in
     {x \in ToSet(stats.ordinals) :
        /\ seq(message(index, x)) # None
        /\ is_in(key, find_tag(message(index, x), SenderCompID)) = in}}

(* Mutant of recompute_gaps: the gaps found before stay.                   *)
recompute_more_gaps(map, index) ==
  [map EXCEPT !.by_key = [key \in DOMAIN map.by_key |->
     [map.by_key[key] EXCEPT
        !.gaps = @ \o detect_gaps(Direction(index, key, map.by_key[key], TRUE))
                   \o detect_gaps(Direction(index, key, map.by_key[key], FALSE))]]]

recompute_gaps(map, index) ==
  [map EXCEPT !.by_key = [key \in DOMAIN map.by_key |->
     [map.by_key[key] EXCEPT
        !.gaps = detect_gaps(Direction(index, key, map.by_key[key], TRUE))
                   \o detect_gaps(Direction(index, key, map.by_key[key], FALSE))]]]

(* The ordinal to append from is the length of by_ordinal, as asserted.    *)
append_from(map, index) ==
  recompute_gaps(append_internal(map, index, Len(map.by_ordinal)), index)

build(index) == append_from(EmptyMap, index)
=============================================================================
