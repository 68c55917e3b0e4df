----------------------------- MODULE LogFormat -----------------------------
(***************************************************************************)
(* fixlog-format: the layout of a log, guessed from the first bytes of the *)
(* file.  A byte is itself, but for FIX in 8=FIX, which is one.            *)
(***************************************************************************)
EXTENDS Integers, Sequences, SequencesExt, FiniteSetsExt

SOH == "SOH"
CR  == "CR"
LF  == "LF"

Numerals == {"0", "1", "2", "3", "4", "5", "6", "7", "8", "9"}

(* The separators that are tried, and in this order.                       *)
CANDIDATES == <<SOH, "|", "^", ";">>

(* Where sample has the bytes of needle.                                   *)
Occurrences(sample, needle) ==
  {i \in DOMAIN sample : /\ i + Len(needle) - 1 <= Len(sample)
                         /\ SubSeq(sample, i, i + Len(needle) - 1) = needle}

detect_line_ending(sample) ==
  IF Occurrences(sample, <<CR, LF>>) # {} THEN "CrLf" ELSE "Lf"

(* The places where the separator is followed by digits and an equals sign. *)
count_field_boundaries(sample, sep) ==
  Cardinality({i \in Occurrences(sample, <<sep>>) :
    \E j \in i + 2 .. Len(sample) :
      sample[j] = "=" /\ \A k \in i + 1 .. j - 1 : sample[k] \in Numerals})

(* The candidate with the most of them, the first of two that are equal.   *)
detect_separator(sample) ==
  LET counts == [i \in DOMAIN CANDIDATES |-> count_field_boundaries(sample, CANDIDATES[i])]
      most   == {i \in DOMAIN counts : \A j \in DOMAIN counts : counts[j] <= counts[i]}
  IN IF \A i \in DOMAIN counts : counts[i] = 0 THEN "NoSeparator" ELSE CANDIDATES[Min(most)]

(* sample_lines, find_subslice: what precedes the first 8=FIX of each line  *)
(* that has one.                                                           *)
LineStart(sample, i) == Max({0} \cup {j \in 1 .. i - 1 : sample[j] = LF}) + 1

prefix_lens(sample) ==
  LET begins == Occurrences(sample, <<"8", "=", "FIX">>)
  IN {i - LineStart(sample, i) :
        i \in {b \in begins : ~ \E c \in begins : c < b /\ LineStart(sample, b) <= c}}

(* Lines that differ are taken to have no prefix; none is 0.  The mutant   *)
(* takes the longest.                                                      *)
line_prefix_longest(lens) == Max(lens)

line_prefix(lens) == IF Cardinality(lens) = 1 THEN Max(lens) ELSE 0

Error(e) == [error |-> e]

(* sniff: a layout, or the error it fails with.                            *)
sniff(sample) ==
  IF sample = << >> THEN Error("EmptySample")
  ELSE IF detect_separator(sample) = "NoSeparator" THEN Error("NoSeparator")
  ELSE IF prefix_lens(sample) = {} THEN Error("NoBeginString")
  ELSE [separator |-> detect_separator(sample), line_prefix |-> line_prefix(prefix_lens(sample)),
        line_ending |-> detect_line_ending(sample)]

-----------------------------------------------------------------------------
(* A log in a layout: its lines, each the values of some fields after what  *)
(* the line begins with.                                                   *)
Line(separator, ending, line) ==
  line.prefix \o <<"8", "=", "FIX", separator>>
    \o FlattenSeq([i \in DOMAIN line.values |-> <<"5", "5", "=">> \o line.values[i] \o <<separator>>])
    \o (IF ending = "CrLf" THEN <<CR, LF>> ELSE <<LF>>)

WrittenLog(separator, ending, lines) ==
  FlattenSeq([i \in DOMAIN lines |-> Line(separator, ending, lines[i])])
=============================================================================
