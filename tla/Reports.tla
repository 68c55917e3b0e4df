------------------------------ MODULE Reports -------------------------------
(***************************************************************************)
(* What is asked of an index that grows and does not depend on what is      *)
(* filtered: a session map extended with it, the timeline of an order,      *)
(* built in one command, and a histogram, that stays as it was.             *)
(***************************************************************************)
EXTENDS Sessions, OrderTimeline, Histogram

CONSTANTS
  Logs,       (* the logs, each the messages that it will have             *)
  Asked,      (* the ClOrdIDs whose timeline is asked for                  *)
  TimedLogs,  (* bound: those of which histograms are made                 *)
  Buckets,    (* the texts typed after :histogram, and what each means ... *)
  Widths      (* ... and the widths that a histogram or a bar is drawn in  *)

(* A message has a tag and a value in each field; numbers stand for the     *)
(* bytes of a value, in their order, and no value is no value.              *)
ASSUME ReportsAssumption ==
  /\ \A l \in Logs : l \in Seq(Seq(Nat \X Nat))
  /\ Widths \subseteq Nat
  /\ None \notin Nat

(* Trimmed: a number and a unit, or not understood, and that is a second.   *)
ASSUME BucketsAssumption ==
  \A text \in DOMAIN Buckets :
    /\ text \in Seq(ToSet(text))
    /\ \/ \E n \in DOMAIN Digits, u \in DOMAIN Units :
            text = n \o UnitTexts[u] /\ Buckets[text] = Digits[n] * Units[u]
       \/ /\ \A n \in DOMAIN Digits, u \in DOMAIN Units : text # n \o UnitTexts[u]
          /\ Buckets[text] = Units[4]

VARIABLES
  log,
  indexed,    (* how many of them are in the index                         *)
  sessions,   (* SessionMap                                                *)
  timeline,   (* OrderTimeline, while it is built and after                *)
  histogram   (* Histogram, the text it was asked for with, and how many   *)
              (* messages were in the index                                *)

reports == <<log, indexed, sessions, timeline, histogram>>

index == SubSeq(log, 1, indexed)

Idle == timeline.pc # "expand"

NoHistogram == [indexed |-> 0]

ReportsInit ==
  /\ log \in Logs
  /\ indexed = 0
  /\ sessions = EmptyMap
  /\ timeline = NoTimeline
  /\ histogram = NoHistogram

(* The index grows, and the map with it.                                   *)
GrowIndex ==
  /\ Idle
  /\ \E n \in indexed + 1 .. Len(log) :
       indexed' = n /\ sessions' = append_from(sessions, SubSeq(log, 1, n))
  /\ timeline' = NoTimeline
  /\ UNCHANGED <<log, histogram>>

(* Bound: timelines are built of whole logs.                               *)
StartTimeline(id) ==
  /\ Idle /\ indexed = Len(log)
  /\ timeline' = started(id) /\ histogram' = NoHistogram
  /\ UNCHANGED <<log, indexed, sessions>>

ExpandTimeline ==
  /\ ~ Idle /\ timeline.pending # << >>
  /\ timeline' = expanded(timeline, index)
  /\ UNCHANGED <<log, indexed, sessions, histogram>>

FinishTimeline ==
  /\ ~ Idle /\ timeline.pending = << >>
  /\ timeline' = finished(timeline, index)
  /\ UNCHANGED <<log, indexed, sessions, histogram>>

CloseTimeline ==
  /\ Idle /\ timeline' = NoTimeline
  /\ UNCHANGED <<log, indexed, sessions, histogram>>

(* :histogram; it is shown instead of a timeline, as either is on its own,  *)
(* and keeps what it shows when the index grows.                            *)
OpenHistogram(text) ==
  /\ Idle /\ log \in TimedLogs
  /\ histogram' = [indexed |-> indexed, text |-> text,
                   shown |-> histogram_of(index, parse_duration(text))]
  /\ timeline' = NoTimeline
  /\ UNCHANGED <<log, indexed, sessions>>

(* What changes neither the index nor what was derived of it.              *)
Ask ==
  \/ \E id \in Asked : StartTimeline(id)
  \/ ExpandTimeline \/ FinishTimeline
  \/ \E text \in DOMAIN Buckets : OpenHistogram(text)

ReportsNext == GrowIndex \/ Ask \/ CloseTimeline

(* A command runs to its end before the next key is read.                  *)
BuildEnds == WF_timeline(ExpandTimeline \/ FinishTimeline)

ReportsSpec == ReportsInit /\ [][ReportsNext]_reports /\ BuildEnds

-----------------------------------------------------------------------------
(* The test append_from_equals_fresh_build, over every log and every way it *)
(* can grow: the gaps found before the growth are found anew, not again.    *)
AppendEqualsBuild == sessions = build(index)

(* sessions.rs: "A gap means to_seq > from_seq + 1 between two consecutive  *)
(* messages (ordered by sequence number) in the same direction".  So the    *)
(* numbers in the gaps of a direction are those its messages lack between   *)
(* the least and the greatest, each in one gap, and a gap names the         *)
(* messages on its two sides.  Two messages of the greatest u32 wrap.       *)
InDirection(key, from) ==
  {o \in OrdinalsOf(index) :
     /\ seq(message(index, o)) # None
     /\ find_tag(message(index, o), SenderCompID) = from
     /\ find_tag(message(index, o), TargetCompID)
          = IF from = key.sender THEN key.target ELSE key.sender}

GapsAreMissing ==
  \A key \in DOMAIN sessions.by_key : \A from \in {key.sender, key.target} :
    LET gaps    == sessions.by_key[key].gaps
        at      == InDirection(key, from)
        numbers == {seq(message(index, o)) : o \in at}
        mine    == {i \in DOMAIN gaps : gaps[i].ordinal_before \in at}
        within(i) == gaps[i].from_seq + 1 .. gaps[i].to_seq - 1
        last    == {o \in at : seq(message(index, o)) = MaxSeq}
    IN Cardinality(last) <= 1 =>
         /\ UNION {within(i) : i \in mine}
              = {n \in 0 .. MaxSeq : \E a, b \in numbers : a < n /\ n < b} \ numbers
         /\ \A i, j \in mine : i # j => within(i) \cap within(j) = {}
         /\ \A i \in mine : /\ gaps[i].ordinal_after \in at
                            /\ seq(message(index, gaps[i].ordinal_before)) = gaps[i].from_seq
                            /\ seq(message(index, gaps[i].ordinal_after)) = gaps[i].to_seq

(* orders.rs: "the whole replacement chain is followed to fixed point",     *)
(* then all that shares an OrderID; None only if the ClOrdID is "never      *)
(* referenced", and the events in the order of the file.                    *)
TimelineIsClosure ==
  /\ timeline.pc = "found" =>
       /\ ToSet(timeline.events) = Reported(index, timeline.clordid)
       /\ \A i, j \in DOMAIN timeline.events : i < j => timeline.events[i] < timeline.events[j]
  /\ timeline.pc = "not_found" => Reported(index, timeline.clordid) = {}

(* Orders that replace each other in a circle do not keep the command       *)
(* from ending.                                                             *)
TimelineEnds == ~ Idle ~> Idle

(* The bar of a timeline: later events are not left of earlier ones, even   *)
(* if the file does not have them in the order of time, and the last event  *)
(* is seen, at the right end if it is later than the first.                 *)
TimelineIsDrawn ==
  timeline.pc = "found" /\ Timed(index, timeline.events) # << >> => \A asked \in Widths :
    LET timed == Timed(index, timeline.events)
        width == gantt_width(asked)
        bar   == render_gantt(index, timeline.events, asked)
        cols  == [o \in ToSet(timed) |-> column(index, timed, width, o)]
        apart == instant(index, Head(timed)) # instant(index, Last(timed))
    IN /\ \A a, b \in ToSet(timed) : instant(index, a) <= instant(index, b) => cols[a] <= cols[b]
       /\ bar[IF apart THEN cols[Last(timed)] ELSE 0] =
            find_tag(message(index, Last(IF apart THEN timed ELSE timeline.events)), MsgType)
       /\ instant(index, Head(timed)) < instant(index, Last(timed)) => cols[Last(timed)] = width - 1

(* The columns of a sparkline all count the same.                           *)
AllEqual(sums) == \A i, j \in DOMAIN sums : sums[i] = sums[j]

(* histogram.rs: the bins "span [t_min, t_max]" in whole buckets of the     *)
(* width asked for, and messages without a time are counted as dropped: no  *)
(* message is lost or counted twice, none in the wrong bin, no bin is       *)
(* missing or to spare, the line of characters loses none, and the first of *)
(* the peaks is the greatest bin.  The line reaches its full height, unless *)
(* its columns all count the same: EqualBinsAreMidLevel is about that.      *)
HistogramIsExact ==
  histogram # NoHistogram =>
    LET h     == histogram.shown
        timed == {o \in 0 .. histogram.indexed - 1 : sending_time(message(log, o)) # None}
        within(bin) == {o \in timed : bin.start <= instant(log, o) /\ instant(log, o) < bin.end}
    IN /\ h.bucket = Max({Buckets[histogram.text], 1})
       /\ h.dropped + Cardinality(timed) = histogram.indexed
       /\ timed = UNION {within(h.bins[i]) : i \in DOMAIN h.bins}
       /\ \A i \in DOMAIN h.bins :
            /\ h.bins[i].count = Cardinality(within(h.bins[i]))
            /\ h.bins[i].end - h.bins[i].start = h.bucket
            /\ i > 1 => h.bins[i].start = h.bins[i - 1].end
            /\ i \in {1, Len(h.bins)} => h.bins[i].count > 0
            /\ h.bins[i].count <= peaks(h, 1)[1].count
       /\ \A width \in Widths \cap 1 .. Len(h.bins) :
            /\ Total(merged(h, width)) = Cardinality(timed)
            /\ ~ AllEqual(merged(h, width)) => 8 \in ToSet(render_sparkline(h, width))

(* histogram.rs: "If every bucket has the same count, spark it at           *)
(* mid-level."  Does not hold: the count is then the 95th percentile too,   *)
(* the scale is that count, and each column is drawn in full.               *)
EqualBinsAreMidLevel ==
  histogram # NoHistogram =>
    \A width \in Widths \cap 1 .. Len(histogram.shown.bins) :
      AllEqual(merged(histogram.shown, width)) =>
        ToSet(render_sparkline(histogram.shown, width)) = {4}

(* util.rs, view/orders.rs: the day is that of the calendar, and the        *)
(* overlay shows the time that the message has.                             *)
TimesRoundTrip ==
  \A o \in OrdinalsOf(index) :
    LET t == time_text(message(index, o))
    IN Exists(t) /\ t.second < 60 =>
         /\ sending_time(message(index, o)).day = DaysBefore(t)
         /\ format_time(sending_time(message(index, o))) = numerals(t)

(* state.rs: "a lexicographic byte compare is equivalent to chronological   *)
(* compare", of any two times, with any fractions.  A leap second is taken  *)
(* for the first second of the next day, so in it fractions do not tell.    *)
KeyIsChronological ==
  \A a, b \in OrdinalsOf(index) :
    LET t == time_text(message(index, a))
        u == time_text(message(index, b))
    IN Exists(t) /\ Exists(u) /\ KeyLess(time_key(t), time_key(u)) =>
         NotAfter(parse_sending_time(t), parse_sending_time(u), t.second = 60)
=============================================================================
