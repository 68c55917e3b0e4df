------------------------------ MODULE Calendar ------------------------------
(***************************************************************************)
(* The time of a message: what fixlog-analysis, util.rs, reads of tag 52,   *)
(* what the overlay of an order shows of it, and the bytes that the list    *)
(* is sorted by.  A text is the numbers between its separators; its         *)
(* fraction is the list of its digits, and is empty when there is none.     *)
(* An instant is a day, a second of the day and a part of the second, so    *)
(* that years beyond 2038 fit TLC's integers.                               *)
(***************************************************************************)
EXTENDS IndexedLog

SendingTime == 52

CONSTANTS
  TimeOf,      (* the text of a value, or None if its shape is another      *)
  FracDigits   (* the digits of a fraction: 9                               *)

Text == [year : Nat, month : Nat, day : Nat, hour : Nat, minute : Nat, second : Nat,
         frac : Seq(0 .. 9)]

ASSUME CalendarAssumption ==
  /\ \A v \in DOMAIN TimeOf : TimeOf[v] \in Text \cup {None}
  /\ None \notin DOMAIN TimeOf
  /\ FracDigits \in Nat \ {0}

(* Ten times ten, as often as there are digits.                            *)
NanosPerSecond ==
  LET power[k \in 0 .. FracDigits] == IF k = 0 THEN 1 ELSE 10 * power[k - 1] IN power[FracDigits]

(* Mutant of days_from_civil: every fourth year is a leap year.             *)
days_from_civil_julian(y, m, d) ==
  LET yy  == IF m <= 2 THEN y - 1 ELSE y
      era == yy \div 400
      yoe == yy - era * 400
      doy == (153 * (IF m > 2 THEN m - 3 ELSE m + 9) + 2) \div 5 + d - 1
      days == era * 146097 + yoe * 365 + yoe \div 4 + doy - 719468
  IN IF m \notin 1 .. 12 \/ d \notin 1 .. 31 \/ days < 0 THEN None ELSE days

(* Years begin in March; the day of the month is checked against 31.        *)
days_from_civil(y, m, d) ==
  LET yy  == IF m <= 2 THEN y - 1 ELSE y
      era == yy \div 400
      yoe == yy - era * 400
      doy == (153 * (IF m > 2 THEN m - 3 ELSE m + 9) + 2) \div 5 + d - 1
      days == era * 146097 + yoe * 365 + yoe \div 4 - yoe \div 100 + doy - 719468
  IN IF m \notin 1 .. 12 \/ d \notin 1 .. 31 \/ days < 0 THEN None ELSE days

(* Mutant of nanos: the digits as a number.                                 *)
nanos_unscaled(frac) ==
  LET n[k \in 0 .. Len(frac)] == IF k = 0 THEN 0 ELSE 10 * n[k - 1] + frac[k] IN n[Len(frac)]

(* The digits as a number, and tenfold for each that is missing.           *)
nanos(frac) ==
  LET digit(k) == IF k <= Len(frac) THEN frac[k] ELSE 0
      n[k \in 0 .. FracDigits] == IF k = 0 THEN 0 ELSE 10 * n[k - 1] + digit(k)
  IN n[FracDigits]

parse_sending_time(t) ==
  IF t = None THEN None
  ELSE LET days == days_from_civil(t.year, t.month, t.day)
           secs == t.hour * 3600 + t.minute * 60 + t.second
       IN IF Len(t.frac) > FracDigits \/ days = None THEN None
          ELSE [day |-> days + secs \div 86400, second |-> secs % 86400, nanos |-> nanos(t.frac)]

(* What a message's tag 52 says.                                            *)
time_text(msg) ==
  LET v == find_tag(msg, SendingTime) IN IF v \in DOMAIN TimeOf THEN TimeOf[v] ELSE None

sending_time(msg) == parse_sending_time(time_text(msg))

system_time_to_nanos(t) == (t.day * 86400 + t.second) * NanosPerSecond + t.nanos

civil_from_days(z) ==
  LET from == z + 719468
      era == from \div 146097
      doe == from - era * 146097
      yoe == (doe - doe \div 1460 + doe \div 36524 - doe \div 146096) \div 365
      doy == doe - (365 * yoe + yoe \div 4 - yoe \div 100)
      mp  == (5 * doy + 2) \div 153
      m   == IF mp < 10 THEN mp + 3 ELSE mp - 9
  IN [year |-> yoe + era * 400 + IF m <= 2 THEN 1 ELSE 0, month |-> m,
      day |-> doy - (153 * mp + 2) \div 5 + 1]

(* The numbers that a timeline shows.                                       *)
format_time(t) ==
  LET c == civil_from_days(t.day)
  IN <<c.year, c.month, c.day, t.second \div 3600, (t.second % 3600) \div 60, t.second % 60>>

(* time_key: the list compares the bytes, that is, the numbers of fixed     *)
(* width and then the digits, a shorter text before those it begins.        *)
numerals(t) == <<t.year, t.month, t.day, t.hour, t.minute, t.second>>

time_key(t) == numerals(t) \o t.frac

KeyLess(a, b) ==
  \/ IsStrictPrefix(a, b)
  \/ \E i \in DOMAIN a \cap DOMAIN b :
       a[i] < b[i] /\ \A j \in 1 .. i - 1 : a[j] = b[j]

-----------------------------------------------------------------------------
(* The calendar itself: the texts that are a time of it, from 1970 on, the  *)
(* leap second too, and how many days have gone by.                         *)
IsLeap(y) == y % 4 = 0 /\ (y % 100 # 0 \/ y % 400 = 0)

DaysIn(y, m) ==
  CASE m = 2 -> (IF IsLeap(y) THEN 29 ELSE 28) [] m \in {4, 6, 9, 11} -> 30 [] OTHER -> 31

Exists(t) ==
  /\ t # None
  /\ t.year >= 1970 /\ t.month \in 1 .. 12 /\ t.day \in 1 .. DaysIn(t.year, t.month)
  /\ t.hour < 24 /\ t.minute < 60
  /\ t.second < 60 \/ (t.second = 60 /\ t.hour = 23 /\ t.minute = 59)
  /\ Len(t.frac) <= FracDigits

(* The days of a common year before each month.                             *)
MonthStarts == <<0, 31, 59, 90, 120, 151, 181, 212, 243, 273, 304, 334>>

DaysBefore(t) ==
  365 * (t.year - 1970) + Cardinality({y \in 1970 .. t.year - 1 : IsLeap(y)})
    + MonthStarts[t.month] + (IF t.month > 2 /\ IsLeap(t.year) THEN 1 ELSE 0) + t.day - 1

(* To the nanosecond, or to the second.                                    *)
NotAfter(a, b, coarse) ==
  \/ a.day < b.day
  \/ a.day = b.day /\ a.second < b.second
  \/ a.day = b.day /\ a.second = b.second /\ (a.nanos <= b.nanos \/ coarse)
=============================================================================
