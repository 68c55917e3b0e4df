----------------------------- MODULE Histogram ------------------------------
(***************************************************************************)
(* fixlog-analysis, histogram.rs: the messages counted in buckets of time,  *)
(* how the counts are drawn in a line of so many characters, and the        *)
(* greatest of them; and the text that names a bucket.                      *)
(***************************************************************************)
EXTENDS Calendar

CONSTANTS
  Digits,   (* the digits of a number written in a text, and its value      *)
  Units     (* the nanoseconds of ns, us, ms, s and m                       *)

(* The suffixes in the order in which they are tried; ms before s.          *)
UnitTexts == << <<"m", "s">>, <<"u", "s">>, <<"n", "s">>, <<"s">>, <<"m">> >>

suffix(text) == SelectInSeq(UnitTexts, LAMBDA u : IsSuffix(u, text))

(* What a number is written with; the blanks around it are trimmed.         *)
NumberChars == {"0", "1", "2", "3", "4", "5", "6", "7", "8", "9", "+", " "}

ASSUME HistogramAssumption ==
  /\ DOMAIN Digits \subseteq Seq(NumberChars) \ {<< >>}
  /\ \A n \in DOMAIN Digits : Digits[n] \in Nat
  /\ DOMAIN Units = DOMAIN UnitTexts
  /\ \A u \in DOMAIN Units : Units[u] \in Nat

(* What precedes the suffix must be a number; the TUI takes a second for    *)
(* what it does not recognise.                                              *)
parse_duration(text) ==
  LET u == suffix(text)
      n == IF u \in DOMAIN UnitTexts
           THEN SubSeq(text, 1, Len(text) - Len(UnitTexts[u])) ELSE << >>
  IN IF n \notin DOMAIN Digits THEN Units[4] ELSE Digits[n] * Units[u]

-----------------------------------------------------------------------------
Times(index) ==
  LET timed == Chosen(index, {i \in DOMAIN index : sending_time(index[i]) # None})
  IN [k \in DOMAIN timed |-> system_time_to_nanos(sending_time(timed[k]))]

(* Mutant of end_of: rounded up, as the comment has it.                     *)
end_of_ceil(t_max, width) == ((t_max + width - 1) \div width) * width

end_of(t_max, width) == (t_max \div width + 1) * width

histogram_of(index, bucket) ==
  LET width == Max({bucket, 1})
      times == Times(index)
      start == (Min(ToSet(times)) \div width) * width
      end   == end_of(Max(ToSet(times)), width)
      n     == (end - start) \div width
      idx(t) == Min({(t - start) \div width, n - 1})
      bin(i) == [start |-> start + i * width, end |-> start + (i + 1) * width,
                 count |-> Cardinality({k \in DOMAIN times : idx(times[k]) = i})]
  IN [bucket |-> width, dropped |-> Len(index) - Len(times),
      bins |-> IF times = << >> THEN << >> ELSE [i \in 1 .. n |-> bin(i - 1)]]

Total(counts) ==
  LET sum[k \in 0 .. Len(counts)] == IF k = 0 THEN 0 ELSE sum[k - 1] + counts[k]
  IN sum[Len(counts)]

Counts(h) == [i \in DOMAIN h.bins |-> h.bins[i].count]

(* The counts of the bins behind each of width characters.                  *)
merged(h, width) ==
  LET n == Len(h.bins)
      from(i) == (i * n) \div width
      to(i)   == Min({Max({((i + 1) * n) \div width, from(i) + 1}), n})
  IN IF n = 0 THEN << >>
     ELSE [i \in 1 .. width |-> Total(SubSeq(Counts(h), from(i - 1) + 1, to(i - 1)))]

(* The positions of numbers, from the least on.                             *)
SmallerFirst(sums) ==
  {p \in (DOMAIN sums) \X (DOMAIN sums) :
     sums[p[1]] < sums[p[2]] \/ (sums[p[1]] = sums[p[2]] /\ p[1] < p[2])}

(* Nine levels; the 95th percentile is the highest.                         *)
render_sparkline(h, width) ==
  LET sums   == merged(h, width)
      sorted == Ranked(DOMAIN sums, SmallerFirst(sums))
      p95    == sums[sorted[Max({Len(sums) * 95 - 1, 0}) \div 100 + 1]]
      scale  == Max({p95, 1})
  IN [i \in DOMAIN sums |-> Min({(sums[i] * 8) \div scale, 8})]

(* The k greatest bins, the earlier of equals first.                        *)
GreaterFirst(h, busy) ==
  {p \in busy \X busy :
     \/ h.bins[p[1]].count > h.bins[p[2]].count
     \/ h.bins[p[1]].count = h.bins[p[2]].count /\ h.bins[p[1]].start < h.bins[p[2]].start}

peaks(h, k) ==
  LET busy == {i \in DOMAIN h.bins : h.bins[i].count > 0}
      all  == Ranked(busy, GreaterFirst(h, busy))
  IN [j \in 1 .. Min({k, Len(all)}) |-> h.bins[all[j]]]
=============================================================================
