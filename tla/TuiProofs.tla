------------------------------ MODULE TuiProofs ------------------------------
(***************************************************************************)
(* What one AppState keeps: the list is what the filters pass, in the order *)
(* it was sorted, and the detail is that of its cursor, for messages,       *)
(* filters, sort keys, marks and half pages of any kind and files of any    *)
(* number and length; and what a key finds is what the keys before it and   *)
(* the watcher left for it, for every log and every command line.          *)
(***************************************************************************)
EXTENDS MessageList, TuiInput, Lemmas

Option(S) == {<< >>} \cup {<<x>> : x \in S}

(* What restore_filter brings back; AppState has the same fields.          *)
View ==
  [filter : SUBSET Messages, user_filter : SUBSET Messages, hide_heartbeat : BOOLEAN,
   visible : Seq(Nat), cursor : Nat, missed : SUBSET Nat, sorted : Nat, indexed : Nat]

Cached == {<< >>} \cup (Nat \X Option(Messages))

AppState ==
  [mmap : Mapping, indexed : Nat, filter : SUBSET Messages, user_filter : SUBSET Messages,
   hide_heartbeat : BOOLEAN, sort_key : SortKeys, visible : Seq(Nat), cursor : Nat,
   mode : {"Follow", "Browse"}, new_since_browse : Nat, detail_cache : Cached,
   input_mode : {"Normal", "Command"}, filter_snapshot : Option(View),
   bookmarks : [Marks -> Option(Nat)], missed : SUBSET Nat, sorted : Nat]

(* The mapping is of a file that has been at the path, and of the file that *)
(* was indexed the index has every complete message.                       *)
MappingFits(s, b) ==
  /\ s.mmap.gen \in 1 .. Len(logs)
  /\ s.mmap.len \div 2 <= Len(logs[s.mmap.gen])
  /\ b <= s.mmap.gen
  /\ s.mmap.gen = b => s.indexed = s.mmap.len \div 2

(* The rows come in the order of the key, as far as they were sorted.      *)
InKeyOrder(s, visible, sorted) ==
  \A i, j \in DOMAIN visible : i < j =>
    IF visible[j] >= sorted THEN visible[i] < visible[j]
    ELSE \/ SortValue(s, visible[i]) < SortValue(s, visible[j])
         \/ SortValue(s, visible[i]) = SortValue(s, visible[j]) /\ visible[i] < visible[j]

Selected(s, n, filter) == {ord \in 0 .. n - 1 : Passes(s, ord, filter)}

(* A list and its filters, those of the state or of its snapshot, fit each  *)
(* other and the messages that were indexed.                               *)
ViewFits(s, v, b) ==
  /\ v.filter = Compose(v.user_filter, v.hide_heartbeat)
  /\ v.cursor < Len(v.visible) \/ (v.cursor = 0 /\ Len(v.visible) = 0)
  /\ v.indexed <= s.indexed
  /\ s.mmap.gen = b =>
       /\ v.missed \subseteq 0 .. v.indexed - 1 /\ v.sorted <= v.indexed
       /\ ToSet(v.visible) = Selected(s, v.indexed, v.filter) \ v.missed
       /\ IsInjective(v.visible)
       /\ s.sort_key # "Natural" => InKeyOrder(s, v.visible, v.sorted)

CacheFits(s, b) ==
  s.mmap.gen = b /\ s.detail_cache # << >> =>
    s.detail_cache[1] < s.indexed /\ s.detail_cache[2] = message(s, s.detail_cache[1])

(* All but the list, which a filter makes anew.                            *)
Based(s, b) ==
  /\ s \in AppState
  /\ MappingFits(s, b)
  /\ s.filter_snapshot # << >> => ViewFits(s, s.filter_snapshot[1], b)
  /\ s.input_mode = "Command" <=> s.filter_snapshot # << >>

Sound(s, b) == Based(s, b) /\ ViewFits(s, s, b) /\ CacheFits(s, b)

LogsFit == logs \in Seq(Seq(Messages)) /\ logs # << >>

World ==
  /\ LogsFit
  /\ half \in BOOLEAN /\ present \in BOOLEAN
  /\ pc \in {"event", "poll", "remap", "rebuild", "draw", "panicked"}
  /\ base \in 1 .. Len(logs)

IInv == World /\ Sound(state, base) /\ DetailIsOfCursor

-----------------------------------------------------------------------------
(* The messages of a mapping.                                              *)
LEMMA Halves ==
  ASSUME NEW n \in Nat
  PROVE  n \div 2 \in Nat /\ 2 * (n \div 2) <= n /\ n <= 2 * (n \div 2) + 1
OBVIOUS

LEMMA MessageIs ==
  ASSUME LogsFit, NEW s \in AppState, NEW b, MappingFits(s, b), NEW ord \in Nat
  PROVE  /\ message(s, ord) = IF ord < s.mmap.len \div 2 THEN <<logs[s.mmap.gen][ord + 1]>> ELSE << >>
         /\ message(s, ord) \in Option(Messages)
         /\ Len(Mapped(s.mmap)) = s.mmap.len \div 2
<1> DEFINE n == s.mmap.len \div 2
           log == logs[s.mmap.gen]
<1>1. s.mmap.len \in Nat
  BY DEF AppState, Mapping
<1>2. n \in Nat
  BY <1>1, Halves
<1>3. log \in Seq(Messages) /\ n <= Len(log)
  BY DEF LogsFit, MappingFits
<1>4. Mapped(s.mmap) = SubSeq(log, 1, n)
  BY DEF Mapped
<1> HIDE DEF n, log
<1>5. /\ Len(SubSeq(log, 1, n)) = n
      /\ ord < n => SubSeq(log, 1, n)[ord + 1] = log[ord + 1] /\ log[ord + 1] \in Messages
  <2>1. Len(log) \in Nat
    BY <1>3
  <2>2. ord < n => ord + 1 \in 1 .. n /\ ord + 1 \in 1 .. Len(log)
    BY <1>2, <1>3, <2>1
  <2> QED  BY <1>2, <1>3, <2>1, <2>2
<1>6. message(s, ord) = IF ord < n THEN <<log[ord + 1]>> ELSE << >>
  BY <1>4, <1>5 DEF message
<1> QED  BY <1>4, <1>5, <1>6 DEF n, log, Option

LEMMA ValueIsNat ==
  ASSUME LogsFit, NEW s \in AppState, NEW b, MappingFits(s, b), NEW ord \in Nat,
         s.sort_key # "Natural"
  PROVE  SortValue(s, ord) \in Nat
<1>1. message(s, ord) \in Option(Messages)
  BY MessageIs
<1>2. s.sort_key \in {"MsgSeqNum", "TransactTime", "SendingTime"}
  BY DEF AppState, SortKeys, cycle
<1>3. CASE message(s, ord) = << >>
  BY <1>3 DEF SortValue, Absent
<1>4. CASE message(s, ord) # << >>
  <2>1. PICK m \in Messages : message(s, ord) = <<m>>
    BY <1>1, <1>4 DEF Option
  <2>2. m \in Message
    BY ConstantsAssumption
  <2>3. m[s.sort_key] \in Nat
    BY <1>2, <2>2 DEF Message, Absent
  <2>4. SortValue(s, ord) = m[s.sort_key]
    BY <2>1, <1>4 DEF SortValue
  <2> QED  BY <2>3, <2>4
<1> QED  BY <1>3, <1>4

(* What only the mapping and the key decide.                               *)
LEMMA SameMessages ==
  ASSUME NEW s, NEW t, t.mmap = s.mmap
  PROVE  /\ \A ord : message(t, ord) = message(s, ord)
         /\ \A n, filter : Selected(t, n, filter) = Selected(s, n, filter)
         /\ t.sort_key = s.sort_key => \A ord : SortValue(t, ord) = SortValue(s, ord)
<1>1. \A ord : message(t, ord) = message(s, ord)
  BY DEF message
<1> QED  BY <1>1 DEF Selected, Passes, SortValue

(* The ordinals that pass, in the order of the file.                       *)
LEMMA PassingIsSorted ==
  ASSUME NEW s, s.indexed \in Nat, NEW lo \in Nat, NEW filter, NEW w, w = PassingFrom(s, lo, filter)
  PROVE  /\ w \in Seq(Nat) /\ IsInjective(w)
         /\ ToSet(w) = {ord \in lo .. s.indexed - 1 : Passes(s, ord, filter)}
         /\ DOMAIN w = 1 .. Len(w) /\ Len(w) \in Nat
         /\ \A i, j \in 1 .. Len(w) : i < j => w[i] < w[j]
<1> DEFINE S == {ord \in lo .. s.indexed - 1 : Passes(s, ord, filter)}
           less == {p \in S \X S : p[1] < p[2]}
<1>1. IsFiniteSet(S) /\ S \subseteq Nat
  <2>1. IsFiniteSet(lo .. s.indexed - 1)
    BY FS_Interval
  <2> QED  BY <2>1, FS_Subset
<1>2. w = Ranked(S, less)
  BY DEF PassingFrom
<1> HIDE DEF S
<1>3. \A a, c \in S : <<a, c>> \in less <=> a < c
  OBVIOUS
<1> HIDE DEF less
<1>4. Totally(less, S)
  BY <1>1, <1>3 DEF Totally
<1>5. /\ w \in Seq(S) /\ ToSet(w) = S /\ IsInjective(w)
      /\ DOMAIN w = 1 .. Len(w) /\ Len(w) \in Nat
      /\ \A i, j \in 1 .. Len(w) : i < j => <<w[i], w[j]>> \in less
  BY <1>1, <1>2, <1>4, RankedIsSorted
<1>6. \A i \in 1 .. Len(w) : w[i] \in S
  BY <1>5
<1>7. \A i, j \in 1 .. Len(w) : i < j => w[i] < w[j]
  BY <1>3, <1>5, <1>6
<1>8. w \in Seq(Nat)
  BY <1>1, <1>5, SeqOfNats
<1> QED  BY <1>5, <1>7, <1>8 DEF S

LEMMA RowsAreFinite ==
  ASSUME NEW visible \in Seq(Nat)
  PROVE  IsFiniteSet(ToSet(visible)) /\ ToSet(visible) \subseteq Nat
<1>1. IsFiniteSet(1 .. Len(visible))
  BY FS_Interval
<1>2. visible \in Surjection(1 .. Len(visible), ToSet(visible))
  BY DEF Surjection, ToSet
<1>3. IsFiniteSet(ToSet(visible))
  BY <1>1, <1>2, FS_Surjection
<1> QED  BY <1>3 DEF ToSet

(* sort_visible changes the order of the rows, not the rows.               *)
LEMMA SortIsOrder ==
  ASSUME LogsFit, NEW s \in AppState, NEW b, MappingFits(s, b),
         NEW visible \in Seq(Nat), NEW w, w = sort_visible(s, visible)
  PROVE  /\ w \in Seq(Nat) /\ ToSet(w) = ToSet(visible)
         /\ IsInjective(visible) => IsInjective(w)
         /\ s.sort_key # "Natural" => IsInjective(w)
         /\ s.sort_key # "Natural" =>
              \A i, j \in 1 .. Len(w) : i < j =>
                \/ SortValue(s, w[i]) < SortValue(s, w[j])
                \/ SortValue(s, w[i]) = SortValue(s, w[j]) /\ w[i] < w[j]
<1>1. CASE s.sort_key = "Natural"
  BY <1>1 DEF sort_visible
<1>2. CASE s.sort_key # "Natural"
  <2> DEFINE S == ToSet(visible)
             Before(a, c) == \/ SortValue(s, a) < SortValue(s, c)
                             \/ SortValue(s, a) = SortValue(s, c) /\ a < c
             less == {p \in S \X S : Before(p[1], p[2])}
  <2>1. IsFiniteSet(S) /\ S \subseteq Nat
    BY RowsAreFinite
  <2>2. w = Ranked(S, less)
    BY <1>2 DEF sort_visible
  <2> HIDE DEF S
  <2>3. \A a \in S : SortValue(s, a) \in Nat /\ a \in Nat
    BY <1>2, <2>1, ValueIsNat
  <2>4. \A a, c \in S : <<a, c>> \in less <=> Before(a, c)
    <3> HIDE DEF Before
    <3> QED  OBVIOUS
  <2> HIDE DEF less
  <2>5. Totally(less, S)
    <3>1. \A a \in S : ~ Before(a, a)
      BY <2>3
    <3>2. \A a, c, d \in S : Before(a, c) /\ Before(c, d) => Before(a, d)
      BY <2>3
    <3>3. \A a, c \in S : a # c => Before(a, c) \/ Before(c, a)
      BY <2>3
    <3> HIDE DEF Before
    <3> QED  BY <2>4, <3>1, <3>2, <3>3 DEF Totally
  <2>6. /\ w \in Seq(S) /\ ToSet(w) = S /\ IsInjective(w)
        /\ DOMAIN w = 1 .. Len(w) /\ Len(w) \in Nat
        /\ \A i, j \in 1 .. Len(w) : i < j => <<w[i], w[j]>> \in less
    BY <2>1, <2>2, <2>5, RankedIsSorted
  <2>7. \A i, j \in 1 .. Len(w) : i < j => Before(w[i], w[j])
    <3>1. \A i \in 1 .. Len(w) : w[i] \in S
      BY <2>6
    <3> HIDE DEF Before
    <3> QED  BY <2>4, <2>6, <3>1
  <2>8. w \in Seq(Nat)
    BY <2>1, <2>6, SeqOfNats
  <2> QED  BY <2>6, <2>7, <2>8 DEF S
<1> QED  BY <1>1, <1>2

-----------------------------------------------------------------------------
(* The state between two handlers.                                         *)
InRows(cursor, visible) == cursor < Len(visible) \/ (cursor = 0 /\ Len(visible) = 0)

LEMMA RowIs ==
  ASSUME NEW s \in AppState, InRows(s.cursor, s.visible), s.visible # << >>
  PROVE  /\ Row(s) \in Nat /\ Row(s) \in ToSet(s.visible)
         /\ s.cursor + 1 \in DOMAIN s.visible /\ s.cursor < Len(s.visible)
         /\ Len(s.visible) \in Nat /\ last(s.visible) = Len(s.visible) - 1
<1>1. s.visible \in Seq(Nat) /\ s.cursor \in Nat /\ Len(s.visible) \in Nat
  BY DEF AppState
<1>2. s.cursor + 1 \in 1 .. Len(s.visible)
  BY <1>1 DEF InRows
<1>3. s.visible[s.cursor + 1] \in Nat
  BY <1>1, <1>2
<1> QED  BY <1>1, <1>2, <1>3 DEF Row, ToSet, last

LEMMA LastIsRow ==
  ASSUME NEW visible \in Seq(Nat)
  PROVE  last(visible) \in Nat /\ InRows(last(visible), visible)
BY DEF last, InRows

(* A list that stays, under the same mapping and key.                      *)
SameList(v, u) ==
  /\ u.filter = v.filter /\ u.user_filter = v.user_filter
  /\ u.hide_heartbeat = v.hide_heartbeat /\ u.visible = v.visible
  /\ u.missed = v.missed /\ u.sorted = v.sorted /\ u.indexed = v.indexed

LEMMA ViewStays ==
  ASSUME NEW s, NEW t, NEW v, NEW u, NEW b, ViewFits(s, v, b),
         t.mmap = s.mmap, t.sort_key = s.sort_key, t.indexed = s.indexed,
         SameList(v, u), InRows(u.cursor, u.visible)
  PROVE  ViewFits(t, u, b)
<1>1. /\ \A n, filter : Selected(t, n, filter) = Selected(s, n, filter)
      /\ \A ord : SortValue(t, ord) = SortValue(s, ord)
  BY SameMessages
<1>2. InKeyOrder(s, v.visible, v.sorted) => InKeyOrder(t, u.visible, u.sorted)
  BY <1>1 DEF InKeyOrder, SameList
<1> QED  BY <1>1, <1>2 DEF ViewFits, SameList, InRows

LEMMA BasedStays ==
  ASSUME NEW s, NEW b, Based(s, b), NEW t \in AppState,
         t.mmap = s.mmap, t.sort_key = s.sort_key, t.indexed = s.indexed,
         \/ t.filter_snapshot = s.filter_snapshot /\ t.input_mode = s.input_mode
         \/ t.filter_snapshot = << >> /\ t.input_mode = "Normal"
  PROVE  Based(t, b)
<1>1. MappingFits(t, b)
  BY DEF Based, MappingFits
<1>2. ASSUME t.filter_snapshot # << >>
      PROVE  ViewFits(t, t.filter_snapshot[1], b)
  <2> DEFINE v == s.filter_snapshot[1]
  <2>1. ViewFits(s, v, b) /\ t.filter_snapshot[1] = v
    BY <1>2 DEF Based
  <2>2. SameList(v, v) /\ InRows(v.cursor, v.visible)
    BY <2>1 DEF SameList, ViewFits, InRows
  <2> HIDE DEF v
  <2> QED  BY <2>1, <2>2, ViewStays
<1> QED  BY <1>1, <1>2 DEF Based

LEMMA Kept ==
  ASSUME NEW s, NEW b, Sound(s, b), NEW t \in AppState,
         t.mmap = s.mmap, t.sort_key = s.sort_key, t.detail_cache = s.detail_cache,
         SameList(s, t), InRows(t.cursor, t.visible),
         \/ t.filter_snapshot = s.filter_snapshot /\ t.input_mode = s.input_mode
         \/ t.filter_snapshot = << >> /\ t.input_mode = "Normal"
  PROVE  Sound(t, b)
<1>0. t.indexed = s.indexed
  BY DEF SameList
<1>1. Based(t, b)
  BY <1>0, BasedStays DEF Sound
<1>2. ViewFits(t, t, b)
  BY <1>0, ViewStays DEF Sound
<1>3. CacheFits(t, b)
  BY <1>0, SameMessages DEF Sound, CacheFits
<1> QED  BY <1>1, <1>2, <1>3 DEF Sound

(* The frame, and the end of every refilter: the cache is of the row under  *)
(* the cursor.                                                             *)
LEMMA Refreshed ==
  ASSUME LogsFit, NEW s, NEW b, Sound(s, b), NEW t, t = refresh_detail_cache(s)
  PROVE  /\ Sound(t, b)
         /\ t.mmap = s.mmap
         /\ s.mmap.gen = b =>
              t.detail_cache = IF t.visible = << >> THEN << >>
                               ELSE <<Row(t), message(t, Row(t))>>
<1>1. s \in AppState /\ InRows(s.cursor, s.visible) /\ MappingFits(s, b)
  BY DEF Sound, Based, ViewFits, InRows
<1>2. SameList(s, s)
  BY DEF SameList
<1>3. CASE s.visible = << >>
  <2>1. t = [s EXCEPT !.detail_cache = << >>]
    BY <1>3 DEF refresh_detail_cache
  <2>2. t \in AppState
    BY <1>1, <2>1 DEF AppState, Cached
  <2>3. /\ t.mmap = s.mmap /\ t.sort_key = s.sort_key /\ t.indexed = s.indexed
        /\ SameList(s, t) /\ t.cursor = s.cursor /\ t.visible = s.visible
        /\ t.filter_snapshot = s.filter_snapshot /\ t.input_mode = s.input_mode
        /\ t.detail_cache = << >>
    BY <1>1, <2>1 DEF AppState, SameList
  <2>4. Based(t, b) /\ ViewFits(t, t, b)
    BY <1>1, <2>2, <2>3, BasedStays, ViewStays DEF Sound
  <2>5. CacheFits(t, b)
    BY <2>3 DEF CacheFits
  <2> QED  BY <1>3, <2>3, <2>4, <2>5 DEF Sound
<1>4. CASE s.visible # << >>
  <2>1. /\ Row(s) \in Nat /\ message(s, Row(s)) \in Option(Messages)
        /\ Row(s) \in ToSet(s.visible)
    BY <1>1, <1>4, RowIs, MessageIs
  <2>2. s.mmap.gen = b => Row(s) < s.indexed
    <3>1. s.indexed \in Nat
      BY <1>1 DEF AppState
    <3> QED  BY <2>1, <3>1 DEF Sound, ViewFits, Selected
  <2>3. CASE s.detail_cache # << >> /\ s.detail_cache[1] = Row(s)
    <3>1. t = s
      BY <1>4, <2>3 DEF refresh_detail_cache
    <3>2. s.detail_cache \in Nat \X Option(Messages)
      BY <1>1, <2>3 DEF AppState, Cached
    <3>3. s.mmap.gen = b => s.detail_cache[2] = message(s, Row(s))
      BY <2>3 DEF Sound, CacheFits
    <3>4. s.detail_cache = <<s.detail_cache[1], s.detail_cache[2]>>
      BY <3>2
    <3> QED  BY <1>4, <2>3, <3>1, <3>3, <3>4
  <2>4. CASE ~ (s.detail_cache # << >> /\ s.detail_cache[1] = Row(s))
    <3> DEFINE c == <<Row(s), resolve_ordinal(s, Row(s))>>
    <3>1. t = [s EXCEPT !.detail_cache = c]
      BY <1>4, <2>4 DEF refresh_detail_cache
    <3>2. resolve_ordinal(s, Row(s)) \in Option(Messages)
      BY <2>1 DEF resolve_ordinal, Option
    <3>3. s.mmap.gen = b => resolve_ordinal(s, Row(s)) = message(s, Row(s))
      BY <2>2 DEF resolve_ordinal
    <3>4. c \in Cached
      BY <2>1, <3>2 DEF Cached
    <3>10. c[1] = Row(s) /\ c[2] = resolve_ordinal(s, Row(s)) /\ c # << >>
      OBVIOUS
    <3>11. s.mmap.gen = b => c = <<Row(s), message(s, Row(s))>>
      BY <3>3
    <3> HIDE DEF c
    <3>5. t \in AppState
      BY <1>1, <3>1, <3>4 DEF AppState
    <3>6. /\ t.mmap = s.mmap /\ t.sort_key = s.sort_key /\ t.indexed = s.indexed
          /\ SameList(s, t) /\ t.cursor = s.cursor /\ t.visible = s.visible
          /\ t.filter_snapshot = s.filter_snapshot /\ t.input_mode = s.input_mode
          /\ t.detail_cache = c
      BY <1>1, <3>1 DEF AppState, SameList
    <3>7. Based(t, b) /\ ViewFits(t, t, b)
      BY <1>1, <3>5, <3>6, BasedStays, ViewStays DEF Sound
    <3>8. Row(t) = Row(s) /\ message(t, Row(t)) = message(s, Row(s))
      BY <3>6, SameMessages DEF Row
    <3>12. \A ord : message(t, ord) = message(s, ord)
      BY <3>6, SameMessages
    <3>9. CacheFits(t, b)
      BY <2>2, <3>3, <3>6, <3>10, <3>12 DEF CacheFits
    <3> QED  BY <1>4, <3>6, <3>7, <3>8, <3>9, <3>11 DEF Sound
  <2> QED  BY <2>3, <2>4
<1> QED  BY <1>3, <1>4

-----------------------------------------------------------------------------
(* A filter: without one every ordinal is in the list, and each is mapped.  *)
LEMMA EvaluatedIsExact ==
  ASSUME LogsFit, NEW s \in AppState, NEW b, MappingFits(s, b), NEW filter \in SUBSET Messages,
         NEW w, w = evaluate_visible(s, filter)
  PROVE  /\ w \in Seq(Nat)
         /\ s.mmap.gen = b => ToSet(w) = Selected(s, s.indexed, filter) /\ IsInjective(w)
<1>1. s.indexed \in Nat
  BY DEF AppState
<1>2. CASE filter = Messages
  <2> DEFINE n == s.indexed
  <2>1. w = [i \in 1 .. n |-> i - 1]
    BY <1>2 DEF evaluate_visible
  <2>2. ASSUME s.mmap.gen = b, NEW ord \in 0 .. n - 1
        PROVE  Passes(s, ord, filter)
    <3>1. ord \in Nat /\ ord < s.mmap.len \div 2 /\ ord + 1 \in 1 .. Len(logs[s.mmap.gen])
      <4>1. n = s.mmap.len \div 2 /\ n <= Len(logs[s.mmap.gen])
        BY <2>2 DEF MappingFits
      <4>2. logs[s.mmap.gen] \in Seq(Messages) /\ Len(logs[s.mmap.gen]) \in Nat
        BY DEF LogsFit, MappingFits
      <4>3. n \in Nat
        BY <1>1
      <4> HIDE DEF n
      <4> QED  BY <2>2, <4>1, <4>2, <4>3
    <3>2. logs[s.mmap.gen][ord + 1] \in Messages
      BY <3>1 DEF LogsFit, MappingFits
    <3>3. message(s, ord) = <<logs[s.mmap.gen][ord + 1]>>
      BY <3>1, MessageIs
    <3> QED  BY <1>2, <3>2, <3>3 DEF Passes
  <2>3. s.mmap.gen = b => Selected(s, n, filter) = 0 .. n - 1
    BY <2>2 DEF Selected
  <2> HIDE DEF n
  <2>4. n \in Nat
    BY <1>1 DEF n
  <2>5. w \in Seq(Nat) /\ DOMAIN w = 1 .. n /\ \A i \in 1 .. n : w[i] = i - 1
    BY <2>1, <2>4
  <2>6. ToSet(w) = 0 .. n - 1
    <3>1. \A x \in 0 .. n - 1 : x + 1 \in 1 .. n /\ (x + 1) - 1 = x
      BY <2>4
    <3>2. \A i \in 1 .. n : i - 1 \in 0 .. n - 1
      BY <2>4
    <3>3. \A x \in 0 .. n - 1 : \E i \in 1 .. n : w[i] = x
      BY <2>5, <3>1
    <3> QED  BY <2>5, <3>2, <3>3 DEF ToSet
  <2>7. IsInjective(w)
    BY <2>4, <2>5 DEF IsInjective
  <2> QED  BY <2>3, <2>5, <2>6, <2>7 DEF n
<1>3. CASE filter # Messages
  <2>1. w = PassingFrom(s, 0, filter)
    BY <1>3 DEF evaluate_visible
  <2>2. 0 \in Nat
    OBVIOUS
  <2>3. /\ w \in Seq(Nat) /\ IsInjective(w)
        /\ ToSet(w) = {ord \in 0 .. s.indexed - 1 : Passes(s, ord, filter)}
    BY <1>1, <2>1, <2>2, PassingIsSorted
  <2> QED  BY <2>3 DEF Selected
<1> QED  BY <1>2, <1>3

LEMMA Composed ==
  ASSUME NEW user \in SUBSET Messages, NEW hide
  PROVE  Compose(user, hide) \in SUBSET Messages
BY DEF Compose

LEMMA Refiltered ==
  ASSUME LogsFit, NEW s, NEW b, Based(s, b), NEW t, t = recompute_effective_filter(s)
  PROVE  Sound(t, b)
<1> DEFINE filter == Compose(s.user_filter, s.hide_heartbeat)
           all == evaluate_visible(s, filter)
           visible == sort_visible(s, all)
           c == last(visible)
           u == [s EXCEPT !.filter = filter, !.visible = visible, !.cursor = c,
                          !.detail_cache = << >>, !.missed = {}, !.sorted = s.indexed]
<1>1. s \in AppState /\ MappingFits(s, b) /\ s.indexed \in Nat
  BY DEF Based, AppState
<1>2. filter \in SUBSET Messages
  BY <1>1, Composed DEF AppState
<1>3. t = refresh_detail_cache(u)
  BY DEF recompute_effective_filter, apply_filter
<1>4. filter = Compose(s.user_filter, s.hide_heartbeat)
  OBVIOUS
<1> HIDE DEF filter
<1>5. /\ all \in Seq(Nat)
      /\ s.mmap.gen = b => ToSet(all) = Selected(s, s.indexed, filter) /\ IsInjective(all)
  BY <1>1, <1>2, EvaluatedIsExact
<1> HIDE DEF all
<1>6. /\ visible \in Seq(Nat) /\ ToSet(visible) = ToSet(all)
      /\ IsInjective(all) => IsInjective(visible)
      /\ s.sort_key # "Natural" =>
           \A i, j \in 1 .. Len(visible) : i < j =>
             \/ SortValue(s, visible[i]) < SortValue(s, visible[j])
             \/ SortValue(s, visible[i]) = SortValue(s, visible[j]) /\ visible[i] < visible[j]
  BY <1>1, <1>5, SortIsOrder
<1> HIDE DEF visible
<1>7. c \in Nat /\ InRows(c, visible)
  BY <1>6, LastIsRow
<1> HIDE DEF c
<1>8. u \in AppState
  BY <1>1, <1>2, <1>6, <1>7 DEF AppState, Cached
<1>9. /\ u.mmap = s.mmap /\ u.sort_key = s.sort_key /\ u.indexed = s.indexed
      /\ u.filter_snapshot = s.filter_snapshot /\ u.input_mode = s.input_mode
      /\ u.filter = filter /\ u.user_filter = s.user_filter /\ u.hide_heartbeat = s.hide_heartbeat
      /\ u.visible = visible /\ u.cursor = c /\ u.detail_cache = << >>
      /\ u.missed = {} /\ u.sorted = s.indexed
  BY <1>1 DEF AppState
<1> HIDE DEF u
<1>10. Based(u, b)
  BY <1>8, <1>9, BasedStays
<1>11. CacheFits(u, b)
  BY <1>9 DEF CacheFits
<1>12. /\ Selected(u, u.indexed, u.filter) = Selected(s, s.indexed, filter)
       /\ \A ord : SortValue(u, ord) = SortValue(s, ord)
  BY <1>9, SameMessages
<1>13. s.mmap.gen = b /\ s.sort_key # "Natural" => InKeyOrder(u, visible, s.indexed)
  <2> SUFFICES ASSUME s.mmap.gen = b, s.sort_key # "Natural",
                      NEW i \in DOMAIN visible, NEW j \in DOMAIN visible, i < j
               PROVE  /\ ~ (visible[j] >= s.indexed)
                      /\ \/ SortValue(u, visible[i]) < SortValue(u, visible[j])
                         \/ SortValue(u, visible[i]) = SortValue(u, visible[j]) /\ visible[i] < visible[j]
    BY DEF InKeyOrder
  <2>1. DOMAIN visible = 1 .. Len(visible)
    BY <1>6
  <2>2. visible[j] \in Selected(s, s.indexed, filter)
    BY <1>5, <1>6 DEF ToSet
  <2>3. ~ (visible[j] >= s.indexed)
    BY <1>1, <2>2 DEF Selected
  <2> QED  BY <1>6, <1>12, <2>1, <2>3
<1>14. ViewFits(u, u, b)
  <2>1. u.filter = Compose(u.user_filter, u.hide_heartbeat)
    BY <1>4, <1>9
  <2>2. u.cursor < Len(u.visible) \/ (u.cursor = 0 /\ Len(u.visible) = 0)
    BY <1>7, <1>9 DEF InRows
  <2>3. u.indexed <= u.indexed
    BY <1>1, <1>9
  <2>4. ASSUME u.mmap.gen = b
        PROVE  /\ u.missed \subseteq 0 .. u.indexed - 1 /\ u.sorted <= u.indexed
               /\ ToSet(u.visible) = Selected(u, u.indexed, u.filter) \ u.missed
               /\ IsInjective(u.visible)
               /\ u.sort_key # "Natural" => InKeyOrder(u, u.visible, u.sorted)
    BY <1>1, <1>5, <1>6, <1>9, <1>12, <1>13, <2>4
  <2> QED  BY <2>1, <2>2, <2>3, <2>4 DEF ViewFits
<1>15. Sound(u, b)
  BY <1>10, <1>11, <1>14 DEF Sound
<1> QED  BY <1>3, <1>15, Refreshed

(* Esc: what was indexed while the command was typed is missed.            *)
LEMMA Restored ==
  ASSUME LogsFit, NEW s, NEW b, Based(s, b), NEW snap \in View, ViewFits(s, snap, b),
         NEW t, t = restore_filter(s, snap)
  PROVE  Sound(t, b)
<1> DEFINE missed == snap.missed \cup (snap.indexed .. s.indexed - 1)
           u == [s EXCEPT !.filter = snap.filter, !.user_filter = snap.user_filter,
                          !.hide_heartbeat = snap.hide_heartbeat, !.visible = snap.visible,
                          !.cursor = snap.cursor, !.detail_cache = << >>,
                          !.missed = missed, !.sorted = snap.sorted]
<1>1. s \in AppState /\ s.indexed \in Nat
  BY DEF Based, AppState
<1>2. /\ snap.filter \in SUBSET Messages /\ snap.user_filter \in SUBSET Messages
      /\ snap.hide_heartbeat \in BOOLEAN /\ snap.visible \in Seq(Nat) /\ snap.cursor \in Nat
      /\ snap.missed \in SUBSET Nat /\ snap.sorted \in Nat /\ snap.indexed \in Nat
  BY DEF View
<1>3. t = refresh_detail_cache(u)
  BY DEF restore_filter
<1>4. missed \in SUBSET Nat
  BY <1>1, <1>2
<1>5. missed = snap.missed \cup (snap.indexed .. s.indexed - 1)
  OBVIOUS
<1> HIDE DEF missed
<1>6. u \in AppState
  BY <1>1, <1>2, <1>4 DEF AppState, Cached
<1>7. /\ u.mmap = s.mmap /\ u.sort_key = s.sort_key /\ u.indexed = s.indexed
      /\ u.filter_snapshot = s.filter_snapshot /\ u.input_mode = s.input_mode
      /\ u.filter = snap.filter /\ u.user_filter = snap.user_filter
      /\ u.hide_heartbeat = snap.hide_heartbeat
      /\ u.visible = snap.visible /\ u.cursor = snap.cursor /\ u.detail_cache = << >>
      /\ u.missed = missed /\ u.sorted = snap.sorted
  BY <1>1 DEF AppState
<1> HIDE DEF u
<1>8. Based(u, b) /\ CacheFits(u, b)
  BY <1>6, <1>7, BasedStays DEF CacheFits
<1>9. /\ \A n, filter : Selected(u, n, filter) = Selected(s, n, filter)
      /\ \A ord : SortValue(u, ord) = SortValue(s, ord)
  BY <1>7, SameMessages
<1>10. snap.indexed <= s.indexed
  BY DEF ViewFits
<1>11. ASSUME u.mmap.gen = b
       PROVE  /\ u.missed \subseteq 0 .. u.indexed - 1 /\ u.sorted <= u.indexed
              /\ ToSet(u.visible) = Selected(u, u.indexed, u.filter) \ u.missed
              /\ IsInjective(u.visible)
              /\ u.sort_key # "Natural" => InKeyOrder(u, u.visible, u.sorted)
  <2>1. /\ snap.missed \subseteq 0 .. snap.indexed - 1 /\ snap.sorted <= snap.indexed
        /\ ToSet(snap.visible) = Selected(s, snap.indexed, snap.filter) \ snap.missed
        /\ IsInjective(snap.visible)
        /\ s.sort_key # "Natural" => InKeyOrder(s, snap.visible, snap.sorted)
    BY <1>7, <1>11 DEF ViewFits
  <2>2. u.missed \subseteq 0 .. u.indexed - 1 /\ u.sorted <= u.indexed
    BY <1>1, <1>2, <1>5, <1>7, <1>10, <2>1
  <2>3. Selected(s, snap.indexed, snap.filter) \ snap.missed
          = Selected(s, s.indexed, snap.filter) \ missed
    <3>1. \A ord : ord \in 0 .. snap.indexed - 1 <=>
                   ord \in 0 .. s.indexed - 1 /\ ord \notin snap.indexed .. s.indexed - 1
      BY <1>1, <1>2, <1>10
    <3> QED  BY <1>5, <3>1 DEF Selected
  <2>4. u.sort_key # "Natural" => InKeyOrder(u, u.visible, u.sorted)
    BY <1>7, <1>9, <2>1 DEF InKeyOrder
  <2> QED  BY <1>7, <1>9, <2>1, <2>2, <2>3, <2>4
<1>12. ViewFits(u, u, b)
  <2>1. u.filter = Compose(u.user_filter, u.hide_heartbeat)
    BY <1>7 DEF ViewFits
  <2>2. u.cursor < Len(u.visible) \/ (u.cursor = 0 /\ Len(u.visible) = 0)
    BY <1>7 DEF ViewFits
  <2>3. u.indexed <= u.indexed
    BY <1>1, <1>7
  <2> QED  BY <1>11, <2>1, <2>2, <2>3 DEF ViewFits
<1>13. Sound(u, b)
  BY <1>8, <1>12 DEF Sound
<1> QED  BY <1>3, <1>13, Refreshed

(* The o key: the rows in another order, the cursor on its message.        *)
LEMMA Cycled ==
  ASSUME LogsFit, NEW s, NEW b, Sound(s, b), s.input_mode = "Normal"
  PROVE  LET k == [s EXCEPT !.sort_key = cycle[@]]
             t == [k EXCEPT !.visible = sort_visible(k, @), !.sorted = k.indexed]
         IN Sound([t EXCEPT !.cursor =
                     IF s.visible = << >> THEN 0
                     ELSE CHOOSE i \in Positions(t, Row(s)) : TRUE], b)
<1> DEFINE k == [s EXCEPT !.sort_key = cycle[@]]
           visible == sort_visible(k, k.visible)
           t == [k EXCEPT !.visible = visible, !.sorted = k.indexed]
           c == IF s.visible = << >> THEN 0 ELSE CHOOSE i \in Positions(t, Row(s)) : TRUE
           u == [t EXCEPT !.cursor = c]
<1>1. /\ s \in AppState /\ MappingFits(s, b) /\ s.indexed \in Nat /\ s.visible \in Seq(Nat)
      /\ s.filter_snapshot = << >>
  BY DEF Sound, Based, AppState
<1>2. cycle[s.sort_key] \in SortKeys
  <2>1. s.sort_key \in {"Natural", "MsgSeqNum", "TransactTime", "SendingTime"}
    BY <1>1 DEF AppState, SortKeys, cycle
  <2> QED  BY <2>1 DEF SortKeys, cycle
<1>3. /\ k \in AppState /\ k.mmap = s.mmap /\ k.indexed = s.indexed /\ k.visible = s.visible
      /\ MappingFits(k, b) /\ k.sort_key = cycle[s.sort_key]
      /\ k.filter_snapshot = s.filter_snapshot /\ k.input_mode = s.input_mode
      /\ SameList(s, k) /\ k.detail_cache = s.detail_cache
  BY <1>1, <1>2 DEF AppState, MappingFits, SameList
<1> HIDE DEF k
<1>4. /\ visible \in Seq(Nat) /\ ToSet(visible) = ToSet(s.visible)
      /\ IsInjective(s.visible) => IsInjective(visible)
      /\ k.sort_key # "Natural" =>
           \A i, j \in 1 .. Len(visible) : i < j =>
             \/ SortValue(k, visible[i]) < SortValue(k, visible[j])
             \/ SortValue(k, visible[i]) = SortValue(k, visible[j]) /\ visible[i] < visible[j]
  BY <1>1, <1>3, SortIsOrder
<1> HIDE DEF visible
<1>6. /\ t \in AppState /\ t.visible = visible /\ t.sorted = s.indexed
      /\ t.mmap = s.mmap /\ t.indexed = s.indexed /\ t.sort_key = k.sort_key
      /\ t.filter_snapshot = << >> /\ t.input_mode = "Normal"
      /\ t.filter = s.filter /\ t.user_filter = s.user_filter
      /\ t.hide_heartbeat = s.hide_heartbeat /\ t.detail_cache = s.detail_cache
      /\ t.missed = s.missed
  BY <1>1, <1>3, <1>4 DEF AppState, SameList
<1> HIDE DEF t
<1>7. c \in Nat /\ InRows(c, visible)
  <2>1. CASE s.visible = << >>
    <3>1. ToSet(visible) = {}
      BY <1>4, <2>1 DEF ToSet
    <3>2. Len(visible) = 0
      <4>1. Len(visible) \in Nat /\ DOMAIN visible = 1 .. Len(visible)
        BY <1>4
      <4>2. 1 \notin DOMAIN visible
        BY <3>1 DEF ToSet
      <4> QED  BY <4>1, <4>2
    <3> QED  BY <2>1, <3>2 DEF InRows
  <2>2. CASE s.visible # << >>
    <3>1. Row(s) \in ToSet(visible)
      BY <1>1, <1>4, <2>2, RowIs DEF Sound, ViewFits, InRows
    <3>2. PICK i \in 1 .. Len(visible) : visible[i] = Row(s)
      BY <1>4, <3>1 DEF ToSet
    <3>3. Len(visible) \in Nat /\ i - 1 \in 0 .. Len(visible) - 1 /\ (i - 1) + 1 = i
      BY <1>4
    <3>4. i - 1 \in Positions(t, Row(s))
      BY <1>6, <3>2, <3>3 DEF Positions
    <3>5. c \in Positions(t, Row(s))
      BY <2>2, <3>4
    <3>6. c \in 0 .. Len(visible) - 1
      BY <1>6, <3>5 DEF Positions
    <3> HIDE DEF c
    <3> QED  BY <3>3, <3>6 DEF InRows
  <2> QED  BY <2>1, <2>2
<1> HIDE DEF c
<1>9. u \in AppState
  BY <1>6, <1>7 DEF AppState
<1>10. /\ u.mmap = s.mmap /\ u.indexed = s.indexed /\ u.sort_key = k.sort_key
       /\ u.filter_snapshot = << >> /\ u.input_mode = "Normal"
       /\ u.filter = s.filter /\ u.user_filter = s.user_filter
       /\ u.hide_heartbeat = s.hide_heartbeat
       /\ u.visible = visible /\ u.cursor = c /\ u.detail_cache = s.detail_cache
       /\ u.missed = s.missed /\ u.sorted = s.indexed
  BY <1>6, <1>7 DEF AppState
<1> HIDE DEF u
<1>11. /\ \A ord : message(u, ord) = message(s, ord)
       /\ \A n, filter : Selected(u, n, filter) = Selected(s, n, filter)
       /\ \A ord : SortValue(u, ord) = SortValue(k, ord)
  BY <1>3, <1>10, SameMessages
<1>12. Based(u, b)
  BY <1>9, <1>10 DEF Sound, Based, MappingFits
<1>13. CacheFits(u, b)
  BY <1>10, <1>11 DEF Sound, CacheFits
<1>14. s.mmap.gen = b =>
         /\ s.missed \subseteq 0 .. s.indexed - 1
         /\ ToSet(s.visible) = Selected(s, s.indexed, s.filter) \ s.missed
         /\ IsInjective(s.visible)
  BY DEF Sound, ViewFits
<1>15. s.mmap.gen = b /\ k.sort_key # "Natural" => InKeyOrder(u, visible, s.indexed)
  <2> SUFFICES ASSUME s.mmap.gen = b, k.sort_key # "Natural",
                      NEW i \in DOMAIN visible, NEW j \in DOMAIN visible, i < j
               PROVE  /\ ~ (visible[j] >= s.indexed)
                      /\ \/ SortValue(u, visible[i]) < SortValue(u, visible[j])
                         \/ SortValue(u, visible[i]) = SortValue(u, visible[j]) /\ visible[i] < visible[j]
    BY DEF InKeyOrder
  <2>1. DOMAIN visible = 1 .. Len(visible)
    BY <1>4
  <2>2. visible[j] \in Selected(s, s.indexed, s.filter)
    BY <1>4, <1>14 DEF ToSet
  <2>3. ~ (visible[j] >= s.indexed)
    BY <1>1, <2>2 DEF Selected
  <2> QED  BY <1>4, <1>11, <2>1, <2>3
<1>16. ViewFits(u, u, b)
  <2>1. u.filter = Compose(u.user_filter, u.hide_heartbeat)
    BY <1>10 DEF Sound, ViewFits
  <2>2. u.cursor < Len(u.visible) \/ (u.cursor = 0 /\ Len(u.visible) = 0)
    BY <1>7, <1>10 DEF InRows
  <2>3. u.indexed <= u.indexed /\ u.sorted <= u.indexed
    BY <1>1, <1>10
  <2>4. ASSUME u.mmap.gen = b
        PROVE  /\ u.missed \subseteq 0 .. u.indexed - 1
               /\ ToSet(u.visible) = Selected(u, u.indexed, u.filter) \ u.missed
               /\ IsInjective(u.visible)
               /\ u.sort_key # "Natural" => InKeyOrder(u, u.visible, u.sorted)
    BY <1>4, <1>10, <1>11, <1>14, <1>15, <2>4
  <2> QED  BY <2>1, <2>2, <2>3, <2>4 DEF ViewFits
<1>17. Sound(u, b)
  BY <1>12, <1>13, <1>16 DEF Sound
<1> QED  BY <1>17 DEF u, c, t, visible, k

-----------------------------------------------------------------------------
(* The file at the path, and its mapping.                                  *)
LEMMA FileIs ==
  ASSUME LogsFit, half \in BOOLEAN
  PROVE  /\ file \in Mapping /\ file.gen = Len(logs) /\ file.gen \in 1 .. Len(logs)
         /\ Len(logs) \in Nat /\ file.len \in Nat
         /\ file.len \div 2 = Len(logs[Len(logs)]) /\ file.len \div 2 \in Nat
         /\ 2 * (file.len \div 2) <= file.len
<1> DEFINE n == Len(logs[Len(logs)])
<1>1. Len(logs) \in Nat /\ Len(logs) \in 1 .. Len(logs)
  BY DEF LogsFit
<1>2. n \in Nat
  BY <1>1 DEF LogsFit
<1> DEFINE m == 2 * n + IF half THEN 1 ELSE 0
<1>3. file = [gen |-> Len(logs), len |-> m]
  BY DEF file
<1> HIDE DEF n
<1>4. m \in Nat /\ m \in {2 * n, 2 * n + 1}
  BY <1>2
<1> HIDE DEF m
<1>5. file.gen = Len(logs) /\ file.len \in {2 * n, 2 * n + 1}
  BY <1>3, <1>4
<1>6. file \in Mapping
  BY <1>1, <1>3, <1>4 DEF Mapping
<1>7. file.len \in Nat /\ file.len \div 2 = n
  BY <1>2, <1>5
<1> QED  BY <1>1, <1>2, <1>5, <1>6, <1>7 DEF n

(* bootstrap: nothing of the old state but the filter is left.             *)
LEMMA Booted ==
  ASSUME LogsFit, half \in BOOLEAN, NEW user \in SUBSET Messages, NEW key \in SortKeys
  PROVE  Sound(bootstrap(user, key), Len(logs))
<1> DEFINE s == [mmap |-> file, indexed |-> file.len \div 2, filter |-> Messages,
     user_filter |-> user, hide_heartbeat |-> FALSE, sort_key |-> key,
     visible |-> << >>, cursor |-> 0, mode |-> "Follow", new_since_browse |-> 0,
     detail_cache |-> << >>, input_mode |-> "Normal", filter_snapshot |-> << >>,
     bookmarks |-> [c \in Marks |-> << >>], missed |-> {}, sorted |-> 0]
<1>1. /\ file \in Mapping /\ file.gen = Len(logs) /\ file.gen \in 1 .. Len(logs)
      /\ Len(logs) \in Nat /\ file.len \div 2 = Len(logs[Len(logs)]) /\ file.len \div 2 \in Nat
  BY FileIs
<1>2. s \in AppState
  <2>1. [c \in Marks |-> << >>] \in [Marks -> Option(Nat)] /\ << >> \in Cached /\ << >> \in Option(View)
    BY DEF Option, Cached
  <2> QED  BY <1>1, <2>1 DEF AppState
<1>3. MappingFits(s, Len(logs))
  BY <1>1 DEF MappingFits
<1>4. Based(s, Len(logs))
  BY <1>2, <1>3 DEF Based
<1>5. bootstrap(user, key) = recompute_effective_filter(s)
  BY DEF bootstrap
<1> HIDE DEF s
<1> QED  BY <1>4, <1>5, Refiltered

(* The next state is sound for what its mapping has.                       *)
LEMMA Carried ==
  ASSUME NEW t, NEW b, Sound(t, b), state' = t, base' = b,
         MappingFits(state, base)', Mapped(state.mmap)' = Mapped(t.mmap)
  PROVE  /\ Sound(state, base)'
         /\ \A ord : message(state, ord)' = message(t, ord)
<1>1. \A ord : message(state, ord)' = message(t, ord)
  BY DEF message
<1>2. \A n, filter : Selected(state, n, filter)' = Selected(t, n, filter)
  BY <1>1 DEF Selected, Passes
<1>3. \A ord : SortValue(state, ord)' = SortValue(t, ord)
  BY <1>1 DEF SortValue
<1>4. \A v, n : InKeyOrder(state, v, n)' <=> InKeyOrder(t, v, n)
  BY <1>3 DEF InKeyOrder
<1>5. ViewFits(state, state, base)'
  BY <1>2, <1>4 DEF Sound, ViewFits
<1>6. (state.filter_snapshot # << >> => ViewFits(state, state.filter_snapshot[1], base))'
  BY <1>2, <1>4 DEF Sound, Based, ViewFits
<1>7. CacheFits(state, base)'
  BY <1>1 DEF Sound, CacheFits
<1>8. Based(state, base)'
  BY <1>6 DEF Sound, Based
<1> QED  BY <1>1, <1>5, <1>7, <1>8 DEF Sound

LEMMA CarriedSame ==
  ASSUME NEW t, NEW b, Sound(t, b), state' = t, base' = b, UNCHANGED logs
  PROVE  /\ Sound(state, base)'
         /\ \A ord : message(state, ord)' = message(t, ord)
<1>1. MappingFits(state, base)' /\ Mapped(state.mmap)' = Mapped(t.mmap)
  BY DEF Sound, Based, MappingFits, Mapped
<1> QED  BY <1>1, Carried

-----------------------------------------------------------------------------
(* Growth: the mapping of the same file is longer, its messages are kept.   *)
LEMMA MessagesStay ==
  ASSUME LogsFit, NEW s \in AppState, NEW t \in AppState, NEW b,
         MappingFits(s, b), MappingFits(t, b), t.mmap.gen = b, s.mmap.gen = b,
         s.indexed <= t.indexed, NEW ord \in Nat, ord < s.indexed
  PROVE  message(t, ord) = message(s, ord)
<1>1. s.indexed = s.mmap.len \div 2 /\ t.indexed = t.mmap.len \div 2
  BY DEF MappingFits
<1>2. s.indexed \in Nat /\ t.indexed \in Nat
  BY DEF AppState
<1>3. ord < t.indexed
  BY <1>2
<1>4. message(s, ord) = <<logs[b][ord + 1]>>
  BY <1>1, MessageIs
<1>5. message(t, ord) = <<logs[b][ord + 1]>>
  BY <1>1, <1>3, MessageIs
<1> QED  BY <1>4, <1>5

LEMMA ViewGrows ==
  ASSUME LogsFit, NEW s \in AppState, NEW t \in AppState, NEW b,
         MappingFits(s, b), MappingFits(t, b), t.mmap.gen = b => s.mmap.gen = b,
         s.indexed <= t.indexed, t.sort_key = s.sort_key,
         NEW v, v.indexed \in Nat, v.visible \in Seq(Nat), ViewFits(s, v, b)
  PROVE  /\ ViewFits(t, v, b)
         /\ t.mmap.gen = b => Selected(t, v.indexed, v.filter) = Selected(s, v.indexed, v.filter)
<1>1. s.indexed \in Nat /\ t.indexed \in Nat /\ v.indexed <= s.indexed
  BY DEF AppState, ViewFits
<1>2. ASSUME t.mmap.gen = b
      PROVE  \A ord \in Nat : ord < v.indexed => message(t, ord) = message(s, ord)
  <2> TAKE ord \in Nat
  <2> SUFFICES ASSUME ord < v.indexed PROVE message(t, ord) = message(s, ord)
    OBVIOUS
  <2>1. ord < s.indexed
    BY <1>1
  <2> QED  BY <1>2, <2>1, MessagesStay
<1>3. ASSUME t.mmap.gen = b
      PROVE  Selected(t, v.indexed, v.filter) = Selected(s, v.indexed, v.filter)
  <2>1. \A ord \in 0 .. v.indexed - 1 : message(t, ord) = message(s, ord)
    BY <1>1, <1>2, <1>3
  <2> QED  BY <2>1 DEF Selected, Passes
<1>4. ASSUME t.mmap.gen = b, t.sort_key # "Natural"
      PROVE  InKeyOrder(t, v.visible, v.sorted)
  <2>1. ToSet(v.visible) \subseteq Selected(s, v.indexed, v.filter)
    BY <1>4 DEF ViewFits
  <2>2. \A i \in DOMAIN v.visible : v.visible[i] \in Nat /\ v.visible[i] < v.indexed
    <3> TAKE i \in DOMAIN v.visible
    <3>1. v.visible[i] \in Selected(s, v.indexed, v.filter)
      BY <2>1 DEF ToSet
    <3>2. v.visible[i] \in 0 .. v.indexed - 1
      BY <3>1 DEF Selected
    <3> HIDE DEF ViewFits
    <3> QED  BY <3>2
  <2>3. \A i \in DOMAIN v.visible : message(t, v.visible[i]) = message(s, v.visible[i])
    BY <1>2, <1>4, <2>2
  <2>4. \A i \in DOMAIN v.visible : SortValue(t, v.visible[i]) = SortValue(s, v.visible[i])
    BY <2>3 DEF SortValue
  <2>5. InKeyOrder(s, v.visible, v.sorted)
    BY <1>4 DEF ViewFits
  <2> QED  BY <2>4, <2>5 DEF InKeyOrder
<1>5. v.indexed <= t.indexed
  BY <1>1
<1>6. t.mmap.gen = b =>
        /\ v.missed \subseteq 0 .. v.indexed - 1 /\ v.sorted <= v.indexed
        /\ ToSet(v.visible) = Selected(s, v.indexed, v.filter) \ v.missed
        /\ IsInjective(v.visible)
  BY DEF ViewFits
<1>7. /\ v.filter = Compose(v.user_filter, v.hide_heartbeat)
      /\ v.cursor < Len(v.visible) \/ (v.cursor = 0 /\ Len(v.visible) = 0)
  BY DEF ViewFits
<1> QED  BY <1>3, <1>4, <1>5, <1>6, <1>7 DEF ViewFits

(* Rows behind the others.                                                 *)
LEMMA Behind ==
  ASSUME NEW x \in Seq(Nat), NEW y \in Seq(Nat), NEW z, z = x \o y
  PROVE  /\ z \in Seq(Nat) /\ Len(z) = Len(x) + Len(y) /\ Len(x) \in Nat /\ Len(y) \in Nat
         /\ DOMAIN z = 1 .. Len(x) + Len(y)
         /\ \A i \in 1 .. Len(x) : z[i] = x[i]
         /\ \A i \in Len(x) + 1 .. Len(x) + Len(y) : i - Len(x) \in 1 .. Len(y) /\ z[i] = y[i - Len(x)]
         /\ ToSet(z) = ToSet(x) \cup ToSet(y)
<1>1. /\ z \in Seq(Nat) /\ Len(z) = Len(x) + Len(y) /\ Len(x) \in Nat /\ Len(y) \in Nat
      /\ DOMAIN z = 1 .. Len(x) + Len(y)
  OBVIOUS
<1>2. \A i \in 1 .. Len(x) : z[i] = x[i]
  OBVIOUS
<1>3. \A i \in Len(x) + 1 .. Len(x) + Len(y) : i - Len(x) \in 1 .. Len(y) /\ z[i] = y[i - Len(x)]
  OBVIOUS
<1>4. \A i \in 1 .. Len(y) : i + Len(x) \in DOMAIN z /\ z[i + Len(x)] = y[i]
  OBVIOUS
<1>5. ToSet(z) = ToSet(x) \cup ToSet(y)
  <2>1. DOMAIN x = 1 .. Len(x) /\ DOMAIN y = 1 .. Len(y)
    OBVIOUS
  <2>2. ASSUME NEW i \in DOMAIN z PROVE z[i] \in ToSet(x) \cup ToSet(y)
    <3>1. CASE i \in 1 .. Len(x)
      BY <1>2, <2>1, <3>1 DEF ToSet
    <3>2. CASE i \in Len(x) + 1 .. Len(x) + Len(y)
      BY <1>3, <2>1, <3>2 DEF ToSet
    <3>3. i \in 1 .. Len(x) \/ i \in Len(x) + 1 .. Len(x) + Len(y)
      BY <1>1, <2>2
    <3> QED  BY <3>1, <3>2, <3>3
  <2>3. ASSUME NEW i \in DOMAIN x PROVE x[i] \in ToSet(z)
    <3>1. i \in DOMAIN z /\ z[i] = x[i]
      BY <1>1, <1>2, <2>1
    <3> QED  BY <3>1 DEF ToSet
  <2>4. ASSUME NEW i \in DOMAIN y PROVE y[i] \in ToSet(z)
    <3>1. i + Len(x) \in DOMAIN z /\ z[i + Len(x)] = y[i]
      BY <1>4, <2>1
    <3> QED  BY <3>1 DEF ToSet
  <2>5. ToSet(z) \subseteq ToSet(x) \cup ToSet(y)
    BY <2>2 DEF ToSet
  <2>6. ToSet(x) \subseteq ToSet(z) /\ ToSet(y) \subseteq ToSet(z)
    <3>1. ToSet(x) \subseteq ToSet(z)
      <4> SUFFICES ASSUME NEW a \in ToSet(x) PROVE a \in ToSet(z)
        OBVIOUS
      <4>1. PICK i \in DOMAIN x : a = x[i]
        BY DEF ToSet
      <4> QED  BY <2>3, <4>1
    <3>2. ToSet(y) \subseteq ToSet(z)
      <4> SUFFICES ASSUME NEW a \in ToSet(y) PROVE a \in ToSet(z)
        OBVIOUS
      <4>1. PICK i \in DOMAIN y : a = y[i]
        BY DEF ToSet
      <4> QED  BY <2>4, <4>1
    <3> QED  BY <3>1, <3>2
  <2> QED  BY <2>5, <2>6
<1> QED  BY <1>1, <1>2, <1>3, <1>5

(* extend_visible: a list with the messages that were indexed since.       *)
Extends(s, lo, filter, missed, sorted, x, z) ==
  /\ ToSet(z) = Selected(s, s.indexed, filter) \ missed
  /\ IsInjective(z)
  /\ InKeyOrder(s, x, sorted) => InKeyOrder(s, z, sorted)

LEMMA Extended ==
  ASSUME LogsFit, NEW s \in AppState, NEW b, MappingFits(s, b), NEW lo \in Nat, lo <= s.indexed,
         NEW missed, NEW sorted \in Nat, NEW x \in Seq(Nat), NEW filter,
         missed \subseteq 0 .. lo - 1, sorted <= lo,
         ToSet(x) = Selected(s, lo, filter) \ missed, IsInjective(x),
         NEW z, z = x \o PassingFrom(s, lo, filter)
  PROVE  Extends(s, lo, filter, missed, sorted, x, z)
<1> DEFINE y == PassingFrom(s, lo, filter)
           l == Len(x)
           m == Len(y)
<1>1. s.indexed \in Nat
  BY DEF AppState
<1>2. /\ y \in Seq(Nat) /\ IsInjective(y)
      /\ ToSet(y) = {ord \in lo .. s.indexed - 1 : Passes(s, ord, filter)}
      /\ \A i, j \in 1 .. Len(y) : i < j => y[i] < y[j]
  BY <1>1, PassingIsSorted
<1>3. z = x \o y
  OBVIOUS
<1> HIDE DEF y
<1>4. /\ l \in Nat /\ m \in Nat /\ DOMAIN z = 1 .. l + m
      /\ \A i \in 1 .. l : z[i] = x[i]
      /\ \A i \in l + 1 .. l + m : i - l \in 1 .. m /\ z[i] = y[i - l]
      /\ ToSet(z) = ToSet(x) \cup ToSet(y)
  <2>1. /\ Len(x) \in Nat /\ Len(y) \in Nat /\ DOMAIN z = 1 .. Len(x) + Len(y)
        /\ ToSet(z) = ToSet(x) \cup ToSet(y)
    BY <1>2, <1>3, Behind
  <2>2. \A i \in 1 .. Len(x) : z[i] = x[i]
    BY <1>2, <1>3, Behind
  <2>3. \A i \in Len(x) + 1 .. Len(x) + Len(y) : i - Len(x) \in 1 .. Len(y) /\ z[i] = y[i - Len(x)]
    BY <1>2, <1>3, Behind
  <2> QED  BY <2>1, <2>2, <2>3
<1>5. DOMAIN x = 1 .. l /\ DOMAIN y = 1 .. m
  BY <1>2
<1>6. \A i \in 1 .. l : x[i] \in Nat /\ x[i] < lo
  <2>1. \A i \in 1 .. l : x[i] \in Selected(s, lo, filter)
    BY <1>5 DEF ToSet
  <2> QED  BY <2>1 DEF Selected
<1>7. \A i \in 1 .. m : y[i] \in Nat /\ y[i] >= lo
  <2>1. \A i \in 1 .. m : y[i] \in lo .. s.indexed - 1
    BY <1>2, <1>5 DEF ToSet
  <2> QED  BY <1>1, <2>1
<1>8. ToSet(z) = Selected(s, s.indexed, filter) \ missed
  <2>1. \A ord : ord \in 0 .. s.indexed - 1 <=> ord \in 0 .. lo - 1 \/ ord \in lo .. s.indexed - 1
    BY <1>1
  <2>2. \A ord \in lo .. s.indexed - 1 : ord \notin missed
    BY <1>1
  <2> QED  BY <1>2, <1>4, <2>1, <2>2 DEF Selected
<1> HIDE DEF l, m
<1>9. IsInjective(z)
  <2> SUFFICES ASSUME NEW i \in 1 .. l + m, NEW j \in 1 .. l + m, z[i] = z[j], i < j
               PROVE  FALSE
    BY <1>4 DEF IsInjective
  <2>1. CASE j \in 1 .. l
    <3>1. i \in 1 .. l
      BY <1>4, <2>1
    <3>2. x[i] = x[j]
      BY <1>4, <2>1, <3>1
    <3>3. i = j
      BY <1>5, <2>1, <3>1, <3>2 DEF IsInjective
    <3>4. i \in Int /\ j \in Int
      BY <1>4
    <3> QED  BY <3>3, <3>4
  <2>2. CASE i \in 1 .. l /\ j \in l + 1 .. l + m
    <3>1. z[i] = x[i] /\ x[i] \in Nat /\ x[i] < lo
      BY <1>4, <1>6, <2>2
    <3>2. j - l \in 1 .. m /\ z[j] = y[j - l]
      BY <1>4, <2>2
    <3>3. y[j - l] \in Nat /\ y[j - l] >= lo
      BY <1>7, <3>2
    <3>4. x[i] = y[j - l]
      BY <3>1, <3>2
    <3> QED  BY <3>1, <3>3, <3>4
  <2>3. CASE i \in l + 1 .. l + m /\ j \in l + 1 .. l + m
    <3>1. y[i - l] = y[j - l] /\ i - l \in 1 .. m /\ j - l \in 1 .. m
      BY <1>4, <2>3
    <3>2. i - l = j - l
      <4>1. \A a, c \in 1 .. m : y[a] = y[c] => a = c
        BY <1>2, <1>5 DEF IsInjective
      <4> QED  BY <3>1, <4>1
    <3>3. i \in Int /\ j \in Int /\ l \in Int
      BY <1>4
    <3> QED  BY <3>2, <3>3
  <2>4. \/ j \in 1 .. l
        \/ i \in 1 .. l /\ j \in l + 1 .. l + m
        \/ i \in l + 1 .. l + m /\ j \in l + 1 .. l + m
    <3>1. l \in Nat /\ m \in Nat
      BY <1>4
    <3> QED  BY <3>1
  <2> QED  BY <2>1, <2>2, <2>3, <2>4
<1>10. ASSUME InKeyOrder(s, x, sorted)
       PROVE  InKeyOrder(s, z, sorted)
  <2> SUFFICES ASSUME NEW i \in 1 .. l + m, NEW j \in 1 .. l + m, i < j
               PROVE  IF z[j] >= sorted THEN z[i] < z[j]
                      ELSE \/ SortValue(s, z[i]) < SortValue(s, z[j])
                           \/ SortValue(s, z[i]) = SortValue(s, z[j]) /\ z[i] < z[j]
    BY <1>4 DEF InKeyOrder
  <2>1. CASE j \in 1 .. l
    <3>1. i \in 1 .. l /\ z[i] = x[i] /\ z[j] = x[j]
      BY <1>4, <2>1
    <3> QED  BY <1>5, <1>10, <2>1, <3>1 DEF InKeyOrder
  <2>2. CASE j \in l + 1 .. l + m
    <3>1. j - l \in 1 .. m /\ z[j] = y[j - l] /\ z[j] \in Nat /\ z[j] >= lo
      BY <1>4, <1>7, <2>2
    <3>2. z[j] >= sorted
      BY <3>1
    <3>3. CASE i \in 1 .. l
      <4>1. z[i] = x[i] /\ x[i] \in Nat /\ x[i] < lo
        BY <1>4, <1>6, <3>3
      <4>2. z[i] < z[j]
        BY <3>1, <4>1
      <4> QED  BY <3>2, <4>2
    <3>4. CASE i \in l + 1 .. l + m
      <4>1. i - l \in 1 .. m /\ z[i] = y[i - l] /\ i - l < j - l
        <5>1. l \in Nat /\ m \in Nat /\ i \in Int /\ j \in Int
          BY <1>4
        <5>2. i - l \in 1 .. m /\ z[i] = y[i - l]
          BY <1>4, <3>4
        <5> QED  BY <5>1, <5>2
      <4>2. y[i - l] < y[j - l]
        BY <1>2, <3>1, <4>1 DEF m
      <4> QED  BY <3>1, <3>2, <4>1, <4>2
    <3>5. i \in 1 .. l \/ i \in l + 1 .. l + m
      <4>1. l \in Nat /\ m \in Nat
        BY <1>4
      <4> QED  BY <4>1
    <3> QED  BY <3>3, <3>4, <3>5
  <2>3. j \in 1 .. l \/ j \in l + 1 .. l + m
    <3>1. l \in Nat /\ m \in Nat
      BY <1>4
    <3> QED  BY <3>1
  <2> QED  BY <2>1, <2>2, <2>3
<1> QED  BY <1>8, <1>9, <1>10 DEF Extends

(* A poll that remaps the file: new rows behind the others, and the cursor  *)
(* on the last one or where it was.                                        *)
Remapped ==
  LET s == append_from_offset(state)
  IN on_index_grew(extend_visible(s, state.indexed), s.indexed - state.indexed)

LEMMA RemappedIs ==
  ASSUME World, Sound(state, base), file.len >= consumed(state), NEW t, t = Remapped
  PROVE  /\ t \in AppState /\ t.mmap = file /\ t.indexed = file.len \div 2
         /\ state.indexed <= t.indexed /\ t.sort_key = state.sort_key
         /\ t.detail_cache = state.detail_cache
         /\ t.filter_snapshot = state.filter_snapshot /\ t.input_mode = state.input_mode
         /\ t.filter = state.filter /\ t.user_filter = state.user_filter
         /\ t.hide_heartbeat = state.hide_heartbeat /\ t.missed = state.missed
         /\ t.sorted = state.sorted
         /\ t.visible = state.visible \o PassingFrom(t, state.indexed, state.filter)
         /\ t.visible \in Seq(Nat) /\ Len(t.visible) \in Nat /\ Len(state.visible) <= Len(t.visible)
         /\ \A i \in 1 .. Len(state.visible) : t.visible[i] = state.visible[i]
         /\ IF t.indexed = state.indexed
            THEN t.cursor = state.cursor /\ t.new_since_browse = state.new_since_browse
            ELSE IF state.mode = "Follow"
            THEN /\ t.cursor = IF t.visible = << >> THEN state.cursor ELSE last(t.visible)
                 /\ t.new_since_browse = 0
            ELSE /\ t.cursor = state.cursor
                 /\ t.new_since_browse = state.new_since_browse + (t.indexed - state.indexed)
<1> DEFINE n == file.len \div 2
           d == n - state.indexed
           s == [state EXCEPT !.mmap = file, !.indexed = n]
           y == PassingFrom(s, state.indexed, s.filter)
           x == [s EXCEPT !.visible = state.visible \o y]
<1>1. /\ state \in AppState /\ state.indexed \in Nat /\ state.visible \in Seq(Nat)
      /\ state.cursor \in Nat /\ state.new_since_browse \in Nat /\ state.filter \in SUBSET Messages
  BY DEF Sound, Based, AppState
<1>2. file \in Mapping /\ file.len \in Nat /\ n \in Nat /\ 2 * n <= file.len /\ file.len <= 2 * n + 1
  BY FileIs, Halves DEF World
<1>3. state.indexed <= n
  BY <1>1, <1>2 DEF consumed
<1>4. append_from_offset(state) = s
  BY DEF append_from_offset
<1> HIDE DEF n
<1>5. d \in Nat
  BY <1>1, <1>2, <1>3
<1> HIDE DEF d
<1>6. /\ s \in AppState /\ s.indexed = n /\ s.filter = state.filter /\ s.visible = state.visible
      /\ s.mmap = file /\ s.sort_key = state.sort_key
  BY <1>1, <1>2 DEF AppState
<1>7. t = on_index_grew(extend_visible(s, state.indexed), s.indexed - state.indexed)
  BY <1>4 DEF Remapped
<1>8. extend_visible(s, state.indexed) = x
  BY <1>6 DEF extend_visible
<1>9. s.indexed - state.indexed = d
  BY <1>6 DEF d
<1>10. t = on_index_grew(x, d)
  BY <1>7, <1>8, <1>9
<1>11. y \in Seq(Nat)
  BY <1>1, <1>2, <1>6, PassingIsSorted
<1>12. y = PassingFrom(s, state.indexed, state.filter)
  BY <1>6
<1> DEFINE visible == state.visible \o y
<1> HIDE DEF y
<1>13. /\ visible \in Seq(Nat) /\ Len(visible) \in Nat /\ Len(state.visible) <= Len(visible)
       /\ \A i \in 1 .. Len(state.visible) : visible[i] = state.visible[i]
  <2>1. Len(visible) = Len(state.visible) + Len(y) /\ Len(state.visible) \in Nat /\ Len(y) \in Nat
    BY <1>1, <1>11, Behind
  <2>2. visible \in Seq(Nat) /\ \A i \in 1 .. Len(state.visible) : visible[i] = state.visible[i]
    BY <1>1, <1>11, Behind
  <2> HIDE DEF visible
  <2> QED  BY <2>1, <2>2
<1>14. visible = state.visible \o PassingFrom(s, state.indexed, state.filter)
  BY <1>12
<1>15. x = [s EXCEPT !.visible = visible]
  OBVIOUS
<1> HIDE DEF visible, x
<1>16. /\ x \in AppState /\ x.visible = visible /\ x.mmap = file /\ x.indexed = n
       /\ x.sort_key = state.sort_key
       /\ x.cursor = state.cursor /\ x.mode = state.mode
       /\ x.new_since_browse = state.new_since_browse
       /\ x.detail_cache = state.detail_cache
       /\ x.filter_snapshot = state.filter_snapshot /\ x.input_mode = state.input_mode
       /\ x.filter = state.filter /\ x.user_filter = state.user_filter
       /\ x.hide_heartbeat = state.hide_heartbeat /\ x.missed = state.missed
       /\ x.sorted = state.sorted
  BY <1>1, <1>2, <1>6, <1>13, <1>15 DEF AppState
<1> HIDE DEF s
<1> DEFINE c == IF d # 0 /\ state.mode = "Follow" /\ visible # << >> THEN last(visible) ELSE state.cursor
           k == IF d = 0 THEN state.new_since_browse
                ELSE IF state.mode = "Follow" THEN 0 ELSE state.new_since_browse + d
           u == [x EXCEPT !.new_since_browse = k, !.cursor = c]
<1>17. c \in Nat /\ k \in Nat
  BY <1>1, <1>5, <1>13, LastIsRow
<1>18. t = u
  <2>1. CASE d = 0
    <3>1. t = x /\ c = x.cursor /\ k = x.new_since_browse
      BY <1>10, <1>16, <2>1 DEF on_index_grew
    <3>2. x = [x EXCEPT !.new_since_browse = x.new_since_browse, !.cursor = x.cursor]
      BY <1>16 DEF AppState
    <3> HIDE DEF c, k
    <3> QED  BY <3>1, <3>2
  <2>2. CASE d # 0 /\ state.mode = "Follow"
    <3>1. t = [x EXCEPT !.new_since_browse = 0,
                        !.cursor = IF x.visible = << >> THEN @ ELSE last(x.visible)]
      BY <1>10, <1>16, <2>2 DEF on_index_grew
    <3>2. k = 0 /\ c = IF x.visible = << >> THEN x.cursor ELSE last(x.visible)
      BY <1>16, <2>2
    <3> HIDE DEF c, k
    <3> QED  BY <1>16, <3>1, <3>2 DEF AppState
  <2>3. CASE d # 0 /\ state.mode # "Follow"
    <3>1. t = [x EXCEPT !.new_since_browse = @ + d]
      BY <1>10, <1>16, <2>3 DEF on_index_grew
    <3>2. k = x.new_since_browse + d /\ c = x.cursor
      BY <1>16, <2>3
    <3> HIDE DEF c, k
    <3> QED  BY <1>16, <3>1, <3>2 DEF AppState
  <2> QED  BY <2>1, <2>2, <2>3
<1>19. c = IF d = 0 THEN state.cursor
           ELSE IF state.mode = "Follow"
                THEN IF visible = << >> THEN state.cursor ELSE last(visible) ELSE state.cursor
  OBVIOUS
<1>20. k = IF d = 0 THEN state.new_since_browse
           ELSE IF state.mode = "Follow" THEN 0 ELSE state.new_since_browse + d
  OBVIOUS
<1> HIDE DEF c, k
<1>21. /\ u \in AppState /\ u.visible = visible /\ u.mmap = file /\ u.indexed = n
       /\ u.sort_key = state.sort_key
       /\ u.cursor = c /\ u.new_since_browse = k
       /\ u.detail_cache = state.detail_cache
       /\ u.filter_snapshot = state.filter_snapshot /\ u.input_mode = state.input_mode
       /\ u.filter = state.filter /\ u.user_filter = state.user_filter
       /\ u.hide_heartbeat = state.hide_heartbeat /\ u.missed = state.missed
       /\ u.sorted = state.sorted
  BY <1>16, <1>17 DEF AppState
<1> HIDE DEF u
<1>22. PassingFrom(t, state.indexed, state.filter) = PassingFrom(s, state.indexed, state.filter)
  <2>1. t.indexed = s.indexed /\ t.mmap = s.mmap
    BY <1>6, <1>18, <1>21
  <2>2. \A ord : Passes(t, ord, state.filter) = Passes(s, ord, state.filter)
    BY <2>1, SameMessages DEF Passes
  <2> QED  BY <2>1, <2>2 DEF PassingFrom
<1>23. (d = 0) <=> (n = state.indexed)
  BY <1>1, <1>2 DEF d
<1>24. /\ t \in AppState /\ t.mmap = file /\ t.indexed = n
       /\ t.sort_key = state.sort_key
       /\ t.detail_cache = state.detail_cache
       /\ t.filter_snapshot = state.filter_snapshot /\ t.input_mode = state.input_mode
       /\ t.filter = state.filter /\ t.user_filter = state.user_filter
       /\ t.hide_heartbeat = state.hide_heartbeat /\ t.missed = state.missed
       /\ t.sorted = state.sorted /\ t.visible = visible
  BY <1>18, <1>21
<1>25. /\ t.visible = state.visible \o PassingFrom(t, state.indexed, state.filter)
       /\ t.visible \in Seq(Nat) /\ Len(t.visible) \in Nat /\ Len(state.visible) <= Len(t.visible)
       /\ \A i \in 1 .. Len(state.visible) : t.visible[i] = state.visible[i]
  BY <1>13, <1>14, <1>22, <1>24
<1>26. IF t.indexed = state.indexed
       THEN t.cursor = state.cursor /\ t.new_since_browse = state.new_since_browse
       ELSE IF state.mode = "Follow"
       THEN /\ t.cursor = IF t.visible = << >> THEN state.cursor ELSE last(t.visible)
            /\ t.new_since_browse = 0
       ELSE /\ t.cursor = state.cursor
            /\ t.new_since_browse = state.new_since_browse + (t.indexed - state.indexed)
  <2>1. t.cursor = c /\ t.new_since_browse = k /\ d = t.indexed - state.indexed
    BY <1>18, <1>21 DEF d
  <2> QED  BY <1>19, <1>20, <1>23, <1>24, <2>1
<1>27. t.indexed = file.len \div 2 /\ state.indexed <= t.indexed
  BY <1>3, <1>24 DEF n
<1> QED  BY <1>24, <1>25, <1>26, <1>27

LEMMA RemappedIsSound ==
  ASSUME World, Sound(state, base), file.len >= consumed(state)
  PROVE  Sound(Remapped, base)
<1>1. PICK t : t = Remapped
  OBVIOUS
<1>2. /\ t \in AppState /\ t.mmap = file /\ t.indexed = file.len \div 2
      /\ state.indexed <= t.indexed /\ t.sort_key = state.sort_key
      /\ t.detail_cache = state.detail_cache
      /\ t.filter_snapshot = state.filter_snapshot /\ t.input_mode = state.input_mode
      /\ t.filter = state.filter /\ t.user_filter = state.user_filter
      /\ t.hide_heartbeat = state.hide_heartbeat /\ t.missed = state.missed
      /\ t.sorted = state.sorted
  BY <1>1, RemappedIs
<1>3. /\ t.visible = state.visible \o PassingFrom(t, state.indexed, state.filter)
      /\ t.visible \in Seq(Nat) /\ Len(t.visible) \in Nat /\ Len(state.visible) <= Len(t.visible)
      /\ \A i \in 1 .. Len(state.visible) : t.visible[i] = state.visible[i]
  BY <1>1, RemappedIs
<1>4. t.cursor = state.cursor \/ (t.visible # << >> /\ t.cursor = last(t.visible))
  BY <1>1, RemappedIs
<1>5. /\ LogsFit /\ base \in 1 .. Len(logs) /\ Len(logs) \in Nat /\ file.gen = Len(logs)
      /\ file.gen \in 1 .. Len(logs) /\ file.len \div 2 = Len(logs[Len(logs)])
      /\ file.len \div 2 \in Nat
  BY FileIs DEF World
<1>6. /\ state \in AppState /\ MappingFits(state, base) /\ state.indexed \in Nat
      /\ state.visible \in Seq(Nat) /\ state.sorted \in Nat /\ state.cursor \in Nat
      /\ Len(state.visible) \in Nat /\ state.missed \in SUBSET Nat
  BY DEF Sound, Based, AppState
<1>7. MappingFits(t, base)
  BY <1>2, <1>5 DEF MappingFits
<1>8. t.mmap.gen = base => state.mmap.gen = base
  BY <1>2, <1>5, <1>6 DEF MappingFits
<1>9. ASSUME t.filter_snapshot # << >>
      PROVE  ViewFits(t, t.filter_snapshot[1], base)
  <2>1. PICK v \in View : t.filter_snapshot = <<v>>
    BY <1>2, <1>9 DEF AppState, Option
  <2>2. ViewFits(state, v, base)
    BY <1>2, <1>9, <2>1 DEF Sound, Based
  <2>3. v.indexed \in Nat /\ v.visible \in Seq(Nat)
    BY DEF View
  <2>4. ViewFits(t, v, base)
    BY <1>2, <1>5, <1>6, <1>7, <1>8, <2>2, <2>3, ViewGrows
  <2> QED  BY <2>1, <2>4
<1>10. Based(t, base)
  BY <1>2, <1>7, <1>9 DEF Sound, Based
<1>11. /\ ViewFits(t, state, base)
       /\ t.mmap.gen = base =>
            Selected(t, state.indexed, state.filter) = Selected(state, state.indexed, state.filter)
  BY <1>2, <1>5, <1>6, <1>7, <1>8, ViewGrows DEF Sound
<1>12. ASSUME t.mmap.gen = base
       PROVE  /\ state.missed \subseteq 0 .. state.indexed - 1 /\ state.sorted <= state.indexed
              /\ ToSet(state.visible) = Selected(t, state.indexed, state.filter) \ state.missed
              /\ IsInjective(state.visible)
              /\ t.sort_key # "Natural" => InKeyOrder(t, state.visible, state.sorted)
  BY <1>11, <1>12 DEF ViewFits
<1>13. ASSUME t.mmap.gen = base
       PROVE  /\ ToSet(t.visible) = Selected(t, t.indexed, t.filter) \ t.missed
              /\ IsInjective(t.visible)
              /\ t.sort_key # "Natural" => InKeyOrder(t, t.visible, t.sorted)
  <2>1. PICK lo \in Nat : lo = state.indexed
    BY <1>6
  <2>2. PICK x \in Seq(Nat) : x = state.visible
    BY <1>6
  <2>3. PICK z \in Seq(Nat) : z = t.visible
    BY <1>3
  <2>4. PICK filter : filter = state.filter
    OBVIOUS
  <2>5. PICK missed : missed = state.missed
    OBVIOUS
  <2>6. PICK sorted \in Nat : sorted = state.sorted
    BY <1>6
  <2>7. lo <= t.indexed
    BY <1>2, <2>1
  <2>8. /\ missed \subseteq 0 .. lo - 1 /\ sorted <= lo
        /\ ToSet(x) = Selected(t, lo, filter) \ missed /\ IsInjective(x)
        /\ t.sort_key # "Natural" => InKeyOrder(t, x, sorted)
    BY <1>12, <1>13, <2>1, <2>2, <2>4, <2>5, <2>6
  <2>9. z = x \o PassingFrom(t, lo, filter)
    BY <1>3, <2>1, <2>2, <2>3, <2>4
  <2>10. Extends(t, lo, filter, missed, sorted, x, z)
    BY <1>2, <1>5, <1>7, <2>7, <2>8, <2>9, Extended
  <2>13. t.filter = filter /\ t.missed = missed /\ t.sorted = sorted /\ t.visible = z
    BY <1>2, <2>3, <2>4, <2>5, <2>6
  <2> QED  BY <2>8, <2>10, <2>13 DEF Extends
<1>14. t.mmap.gen = base => t.missed \subseteq 0 .. t.indexed - 1 /\ t.sorted <= t.indexed
  <2>1. t.indexed \in Nat
    BY <1>2, <1>5
  <2> QED  BY <1>2, <1>6, <1>12, <2>1
<1>15. InRows(t.cursor, t.visible)
  <2>1. InRows(state.cursor, state.visible)
    BY DEF Sound, ViewFits, InRows
  <2>2. CASE t.visible # << >> /\ t.cursor = last(t.visible)
    BY <1>3, <2>2, LastIsRow
  <2>3. CASE t.cursor = state.cursor
    <3>1. PICK c \in Nat, k \in Nat, l \in Nat :
            c = state.cursor /\ k = Len(state.visible) /\ l = Len(t.visible)
      BY <1>3, <1>6
    <3>2. k <= l /\ (c < k \/ (c = 0 /\ k = 0))
      BY <1>3, <2>1, <3>1 DEF InRows
    <3>3. c < l \/ (c = 0 /\ l = 0)
      BY <3>2
    <3> QED  BY <2>3, <3>1, <3>3 DEF InRows
  <2> QED  BY <1>4, <2>2, <2>3
<1>16. ViewFits(t, t, base)
  <2>1. t.filter = Compose(t.user_filter, t.hide_heartbeat)
    BY <1>2 DEF Sound, ViewFits
  <2>2. t.indexed <= t.indexed
    BY <1>2, <1>5
  <2> QED  BY <1>13, <1>14, <1>15, <2>1, <2>2 DEF ViewFits, InRows
<1>17. CacheFits(t, base)
  <2> SUFFICES ASSUME t.mmap.gen = base, t.detail_cache # << >>
               PROVE  /\ t.detail_cache[1] < t.indexed
                      /\ t.detail_cache[2] = message(t, t.detail_cache[1])
    BY DEF CacheFits
  <2>1. t.detail_cache \in Nat \X Option(Messages)
    BY <1>2 DEF AppState, Cached
  <2>2. t.detail_cache[1] \in Nat
    BY <2>1
  <2>3. /\ t.detail_cache[1] < state.indexed
        /\ t.detail_cache[2] = message(state, t.detail_cache[1])
    BY <1>2, <1>8 DEF Sound, CacheFits
  <2>4. message(t, t.detail_cache[1]) = message(state, t.detail_cache[1])
    BY <1>2, <1>5, <1>6, <1>7, <1>8, <2>2, <2>3, MessagesStay
  <2>5. t.detail_cache[1] < t.indexed
    BY <1>2, <1>5, <1>6, <2>2, <2>3
  <2> QED  BY <2>3, <2>4, <2>5
<1> QED  BY <1>1, <1>10, <1>16, <1>17 DEF Sound

-----------------------------------------------------------------------------
(* The steps.  The file grows behind the mapping.                          *)
LEMMA Written ==
  ASSUME IInv, Environment
  PROVE  IInv'
<1>1. /\ World /\ LogsFit /\ Len(logs) \in Nat /\ Len(logs) \in 1 .. Len(logs)
      /\ \A g \in 1 .. Len(logs) : logs[g] \in Seq(Messages)
      /\ state \in AppState /\ MappingFits(state, base)
  BY DEF IInv, World, LogsFit, Sound, Based
<1>2. state' = state /\ base' = base /\ pc' = pc
  BY DEF Environment, WriteHalf, WriteRest, MoveAway, Create
<1>3. /\ LogsFit' /\ Len(logs') \in Nat /\ Len(logs) <= Len(logs')
      /\ \A g \in 1 .. Len(logs) :
           \/ logs'[g] = logs[g]
           \/ \E m \in Messages : logs'[g] = Append(logs[g], m)
  <2>1. CASE WriteHalf \/ MoveAway
    BY <1>1, <2>1 DEF WriteHalf, MoveAway, LogsFit
  <2>2. CASE \E m \in Messages : WriteRest(m)
    <3>1. PICK m \in Messages : logs' = [logs EXCEPT ![Len(logs)] = Append(@, m)]
      BY <2>2 DEF WriteRest
    <3> DEFINE new == Append(logs[Len(logs)], m)
    <3>2. new \in Seq(Messages)
      BY <1>1
    <3>3. logs' = [logs EXCEPT ![Len(logs)] = new]
      BY <3>1
    <3>4. logs \in Seq(Seq(Messages))
      BY <1>1 DEF LogsFit
    <3> HIDE DEF new
    <3>5. logs' \in Seq(Seq(Messages)) /\ Len(logs') = Len(logs)
      BY <1>1, <3>2, <3>3, <3>4
    <3>6. \A g \in 1 .. Len(logs) : logs'[g] = IF g = Len(logs) THEN new ELSE logs[g]
      BY <1>1, <3>3, <3>4
    <3>7. logs' # << >>
      BY <1>1, <3>5
    <3>8. ASSUME NEW g \in 1 .. Len(logs)
          PROVE  \/ logs'[g] = logs[g]
                 \/ \E n \in Messages : logs'[g] = Append(logs[g], n)
      <4>1. CASE g = Len(logs)
        BY <3>6, <4>1 DEF new
      <4>2. CASE g # Len(logs)
        BY <3>6, <4>2
      <4> QED  BY <4>1, <4>2
    <3> QED  BY <1>1, <3>5, <3>7, <3>8 DEF LogsFit
  <2>3. CASE Create
    <3>1. logs' = Append(logs, << >>)
      BY <2>3 DEF Create
    <3>2. logs \in Seq(Seq(Messages)) /\ << >> \in Seq(Messages)
      BY <1>1 DEF LogsFit
    <3>3. /\ logs' \in Seq(Seq(Messages)) /\ Len(logs') = Len(logs) + 1
          /\ \A g \in 1 .. Len(logs) : logs'[g] = logs[g]
      BY <3>1, <3>2
    <3>4. logs' # << >>
      BY <1>1, <3>3
    <3> QED  BY <1>1, <3>3, <3>4 DEF LogsFit
  <2> QED  BY <2>1, <2>2, <2>3 DEF Environment
<1> DEFINE g == state.mmap.gen
           n == state.mmap.len \div 2
<1>4. g \in 1 .. Len(logs) /\ n \in Nat /\ n <= Len(logs[g])
  BY <1>1, Halves DEF MappingFits, AppState, Mapping
<1>5. n <= Len(logs'[g]) /\ SubSeq(logs'[g], 1, n) = SubSeq(logs[g], 1, n)
  <2> HIDE DEF g, n
  <2>1. logs[g] \in Seq(Messages)
    BY <1>1, <1>4
  <2>2. CASE logs'[g] = logs[g]
    BY <1>4, <2>2
  <2>3. ASSUME NEW m \in Messages, logs'[g] = Append(logs[g], m)
        PROVE  n <= Len(logs'[g]) /\ SubSeq(logs'[g], 1, n) = SubSeq(logs[g], 1, n)
    BY <1>4, <2>1, <2>3
  <2> QED  BY <1>3, <1>4, <2>2, <2>3
<1>6. Mapped(state.mmap)' = Mapped(state.mmap)
  BY <1>2, <1>5 DEF Mapped
<1>7. MappingFits(state, base)'
  BY <1>1, <1>2, <1>3, <1>4, <1>5 DEF MappingFits
<1>8. Sound(state, base)' /\ \A ord : message(state, ord)' = message(state, ord)
  BY <1>2, <1>6, <1>7, Carried DEF IInv
<1>9. World'
  <2>1. half' \in BOOLEAN /\ present' \in BOOLEAN
    BY <1>1 DEF World, Environment, WriteHalf, WriteRest, MoveAway, Create
  <2> QED  BY <1>1, <1>2, <1>3, <2>1 DEF World
<1>10. DetailIsOfCursor'
  BY <1>2, <1>8 DEF IInv, DetailIsOfCursor, Row
<1> QED  BY <1>8, <1>9, <1>10 DEF IInv
(* A step that leaves the files and their index, and is not a frame.       *)
LEMMA StepKeeps ==
  ASSUME IInv, NEW t, state' = t, Sound(t, base), UNCHANGED <<logs, half, present, base>>,
         pc' \in {"poll", "remap", "rebuild", "draw", "panicked"}
  PROVE  IInv'
<1>1. World'
  BY DEF IInv, World, LogsFit
<1>2. Sound(state, base)'
  BY CarriedSame
<1>3. DetailIsOfCursor'
  BY DEF DetailIsOfCursor
<1> QED  BY <1>1, <1>2, <1>3 DEF IInv

LEMMA KeyKeeps ==
  ASSUME IInv, NEW t, Key(t), Sound(t, base)
  PROVE  IInv'
<1>1. /\ state' = t /\ UNCHANGED <<logs, half, present, base>>
      /\ pc' \in {"poll", "remap", "rebuild", "draw", "panicked"}
  BY DEF Key
<1> QED  BY <1>1, StepKeeps

(* The cursor goes to a row.                                               *)
LEMMA Moved ==
  ASSUME IInv, NEW c \in Nat, InRows(c, state.visible), NEW m \in {"Follow", "Browse"},
         NEW t, t = [state EXCEPT !.cursor = c, !.mode = m]
  PROVE  Sound(t, base)
<1>1. state \in AppState /\ Sound(state, base)
  BY DEF IInv, Sound, Based
<1>2. /\ t \in AppState /\ t.cursor = c
      /\ t.mmap = state.mmap /\ t.sort_key = state.sort_key
      /\ t.detail_cache = state.detail_cache
      /\ t.filter_snapshot = state.filter_snapshot /\ t.input_mode = state.input_mode
      /\ t.visible = state.visible /\ SameList(state, t)
  BY <1>1 DEF AppState, SameList
<1> HIDE DEF IInv
<1> QED  BY <1>1, <1>2, Kept

LEMMA RowsMayBeMoved ==
  ASSUME IInv
  PROVE  /\ state \in AppState /\ state.visible \in Seq(Nat) /\ Len(state.visible) \in Nat
         /\ state.cursor \in Nat /\ InRows(state.cursor, state.visible)
         /\ last(state.visible) \in Nat /\ InRows(last(state.visible), state.visible)
         /\ state.visible # << >> =>
              /\ Len(state.visible) > 0 /\ last(state.visible) = Len(state.visible) - 1
              /\ state.cursor < Len(state.visible)
<1>1. state \in AppState /\ InRows(state.cursor, state.visible)
  BY DEF IInv, Sound, Based, ViewFits, InRows
<1>2. state.visible \in Seq(Nat) /\ state.cursor \in Nat /\ Len(state.visible) \in Nat
  BY <1>1 DEF AppState
<1>3. last(state.visible) \in Nat /\ InRows(last(state.visible), state.visible)
  BY <1>2, LastIsRow
<1>4. state.visible # << >> => Len(state.visible) > 0 /\ last(state.visible) = Len(state.visible) - 1
  BY <1>2 DEF last
<1> QED  BY <1>1, <1>2, <1>3, <1>4 DEF InRows

LEMMA CursorKeeps ==
  ASSUME IInv, CursorTop \/ CursorBottom \/ \E d \in {1, -1, HalfPage, - HalfPage} : Move(d)
  PROVE  IInv'
<1>1. CASE CursorTop
  <2>1. InRows(0, state.visible) /\ Key([state EXCEPT !.cursor = 0, !.mode = "Browse"])
    BY <1>1, RowsMayBeMoved DEF CursorTop, InRows
  <2> QED  BY <2>1, Moved, KeyKeeps
<1>2. CASE CursorBottom
  <2>1. Key([state EXCEPT !.cursor = last(state.visible), !.mode = "Follow"])
    BY <1>2 DEF CursorBottom
  <2> QED  BY <2>1, RowsMayBeMoved, Moved, KeyKeeps
<1>3. CASE \E d \in {1, -1, HalfPage, - HalfPage} : Move(d)
  <2>1. PICK d \in {1, -1, HalfPage, - HalfPage} : Move(d)
    BY <1>3
  <2>2. d \in Int
    BY ConstantsAssumption
  <2>3. PICK c : c = offset_cursor(state.cursor, d, last(state.visible))
    OBVIOUS
  <2>4. state.visible # << >> /\ Key([state EXCEPT !.cursor = c, !.mode = "Browse"])
    BY <2>1, <2>3 DEF Move
  <2>5. c \in Nat /\ InRows(c, state.visible)
    <3>1. PICK a \in Nat, e \in Nat, l \in Nat :
            a = state.cursor /\ e = last(state.visible) /\ l = Len(state.visible)
      BY RowsMayBeMoved
    <3>2. l > 0 /\ e = l - 1
      BY <2>4, <3>1, RowsMayBeMoved
    <3>3. c = IF a + d < 0 THEN 0 ELSE IF a + d > e THEN e ELSE a + d
      BY <2>3, <3>1 DEF offset_cursor
    <3>4. c \in Nat /\ c < l
      BY <2>2, <3>2, <3>3
    <3> QED  BY <3>1, <3>4 DEF InRows
  <2> QED  BY <2>4, <2>5, Moved, KeyKeeps
<1> QED  BY <1>1, <1>2, <1>3

LEMMA ToggleKeeps ==
  ASSUME IInv, toggle_mode
  PROVE  IInv'
<1> DEFINE c == IF state.visible = << >> THEN state.cursor ELSE last(state.visible)
           t == [state EXCEPT !.mode = "Follow", !.new_since_browse = 0, !.cursor = c]
<1>1. CASE state.mode = "Follow"
  <2>1. state \in AppState
    BY RowsMayBeMoved
  <2>2. [state EXCEPT !.mode = "Browse"] = [state EXCEPT !.cursor = state.cursor, !.mode = "Browse"]
    BY <2>1 DEF AppState
  <2>3. Key([state EXCEPT !.cursor = state.cursor, !.mode = "Browse"])
    BY <1>1, <2>2 DEF toggle_mode
  <2> QED  BY <2>3, RowsMayBeMoved, Moved, KeyKeeps
<1>2. CASE state.mode # "Follow"
  <2>1. c \in Nat /\ InRows(c, state.visible)
    BY RowsMayBeMoved
  <2>2. Key(t)
    BY <1>2 DEF toggle_mode
  <2> HIDE DEF c
  <2>3. state \in AppState /\ Sound(state, base)
    BY DEF IInv, Sound, Based
  <2>4. /\ t \in AppState /\ t.cursor = c
        /\ t.mmap = state.mmap /\ t.sort_key = state.sort_key
        /\ t.detail_cache = state.detail_cache
        /\ t.filter_snapshot = state.filter_snapshot /\ t.input_mode = state.input_mode
        /\ t.visible = state.visible /\ SameList(state, t)
    BY <2>1, <2>3 DEF AppState, SameList
  <2> HIDE DEF t
  <2>5. Sound(t, base)
    BY <2>1, <2>3, <2>4, Kept
  <2> QED  BY <2>2, <2>5, KeyKeeps
<1> QED  BY <1>1, <1>2

LEMMA CycleKeeps ==
  ASSUME IInv, cycle_sort_key
  PROVE  IInv'
<1> DEFINE k == [state EXCEPT !.sort_key = cycle[@]]
           t == [k EXCEPT !.visible = sort_visible(k, @), !.sorted = k.indexed]
           u == [t EXCEPT !.cursor =
                   IF state.visible = << >> THEN 0
                   ELSE CHOOSE i \in Positions(t, Row(state)) : TRUE]
<1>1. Key(u) /\ state.input_mode = "Normal"
  BY DEF cycle_sort_key, Normal
<1>2. Sound(u, base)
  BY <1>1, Cycled DEF IInv, World
<1> HIDE DEF u
<1> QED  BY <1>1, <1>2, KeyKeeps

LEMMA SearchKeeps ==
  ASSUME IInv, NEW filter, NEW d \in {1, -1}, Search(filter, d)
  PROVE  IInv'
<1>1. PICK n \in 1 .. Len(state.visible) :
        Key([state EXCEPT !.cursor = RowAfter(d, n), !.mode = "Browse"])
  BY DEF Search
<1>2. PICK a \in Nat, l \in Nat : a = state.cursor /\ l = Len(state.visible)
  BY RowsMayBeMoved
<1>3. PICK e \in Int : e = d * n
  <2>1. CASE d = 1
    BY <1>2, <2>1
  <2>2. CASE d = -1
    BY <1>2, <2>2
  <2> QED  BY <2>1, <2>2
<1>4. PICK c : c = RowAfter(d, n)
  OBVIOUS
<1>5. l > 0 /\ c = (a + e) % l
  BY <1>1, <1>2, <1>3, <1>4 DEF RowAfter
<1>6. c \in Nat /\ c < l
  BY <1>5
<1>7. InRows(c, state.visible)
  BY <1>2, <1>6 DEF InRows
<1>8. Key([state EXCEPT !.cursor = c, !.mode = "Browse"])
  BY <1>1, <1>4
<1> QED  BY <1>6, <1>7, <1>8, Moved, KeyKeeps

LEMMA MarksKeep ==
  ASSUME IInv, NEW c \in Marks, set_bookmark(c) \/ jump_bookmark(c)
  PROVE  IInv'
<1>1. CASE set_bookmark(c)
  <2>1. PICK r : r = Row(state)
    OBVIOUS
  <2>2. state \in AppState /\ Sound(state, base) /\ InRows(state.cursor, state.visible)
    BY RowsMayBeMoved DEF IInv
  <2>3. r \in Nat /\ Key([state EXCEPT !.bookmarks[c] = <<r>>])
    BY <1>1, <2>1, <2>2, RowIs DEF set_bookmark
  <2> DEFINE marks == [state.bookmarks EXCEPT ![c] = <<r>>]
             t == [state EXCEPT !.bookmarks = marks]
  <2>4. marks \in [Marks -> Option(Nat)]
    BY <2>2, <2>3 DEF AppState, Option
  <2>5. Key(t)
    BY <2>3
  <2> HIDE DEF marks
  <2>6. /\ t \in AppState /\ t.cursor = state.cursor
        /\ t.mmap = state.mmap /\ t.sort_key = state.sort_key
        /\ t.detail_cache = state.detail_cache
        /\ t.filter_snapshot = state.filter_snapshot /\ t.input_mode = state.input_mode
        /\ t.visible = state.visible /\ SameList(state, t)
    BY <2>2, <2>4 DEF AppState, SameList
  <2> HIDE DEF t
  <2>7. Sound(t, base)
    BY <2>2, <2>6, Kept
  <2> QED  BY <2>5, <2>7, KeyKeeps
<1>2. CASE jump_bookmark(c)
  <2>1. PICK i \in Positions(state, state.bookmarks[c][1]) :
          Key([state EXCEPT !.cursor = i, !.mode = "Browse"])
    BY <1>2 DEF jump_bookmark
  <2>2. i \in Nat /\ InRows(i, state.visible)
    BY <2>1, RowsMayBeMoved DEF Positions, InRows
  <2> QED  BY <2>1, <2>2, Moved, KeyKeeps
<1> QED  BY <1>1, <1>2
LEMMA FiltersAreSets ==
  ASSUME NEW user \in Filters \cup {Messages}
  PROVE  user \in SUBSET Messages
BY ConstantsAssumption

(* A key that refilters: also one that panics, which leaves all behind.    *)
LEMMA RefilterKeeps ==
  ASSUME IInv, NEW s, Based(s, base), Refilter(s)
  PROVE  IInv'
<1>1. CASE Panics(Compose(s.user_filter, s.hide_heartbeat))
  <2>1. /\ state' = state /\ UNCHANGED <<logs, half, present, base>>
        /\ pc' \in {"poll", "remap", "rebuild", "draw", "panicked"}
    BY <1>1 DEF Refilter
  <2>2. Sound(state, base)
    BY DEF IInv
  <2> QED  BY <2>1, <2>2, StepKeeps
<1>2. CASE ~ Panics(Compose(s.user_filter, s.hide_heartbeat))
  <2>1. PICK t : t = recompute_effective_filter(s)
    OBVIOUS
  <2>2. Sound(t, base)
    BY <2>1, Refiltered DEF IInv, World
  <2>3. Key(t)
    BY <1>2, <2>1 DEF Refilter
  <2> QED  BY <2>2, <2>3, KeyKeeps
<1> QED  BY <1>1, <1>2

LEMMA FilterKeeps ==
  ASSUME IInv,
         \/ ToggleHideHeartbeat
         \/ \E user \in Filters \cup {Messages} : Preview(user) \/ SubmitFilter(user)
  PROVE  IInv'
<1>1. state \in AppState /\ Based(state, base)
  BY DEF IInv, Sound, Based
<1>2. CASE ToggleHideHeartbeat
  <2> DEFINE t == [state EXCEPT !.hide_heartbeat = ~ @]
  <2>1. Refilter(t)
    BY <1>2 DEF ToggleHideHeartbeat
  <2>2. /\ t \in AppState /\ t.mmap = state.mmap /\ t.sort_key = state.sort_key
        /\ t.indexed = state.indexed
        /\ t.filter_snapshot = state.filter_snapshot /\ t.input_mode = state.input_mode
    BY <1>1 DEF AppState
  <2> HIDE DEF t
  <2>3. Based(t, base)
    BY <1>1, <2>2, BasedStays
  <2> QED  BY <2>1, <2>3, RefilterKeeps
<1>3. ASSUME NEW user \in Filters \cup {Messages}, Preview(user)
      PROVE  IInv'
  <2> DEFINE t == [state EXCEPT !.user_filter = user]
  <2>1. Refilter(t)
    BY <1>3 DEF Preview
  <2>2. /\ t \in AppState /\ t.mmap = state.mmap /\ t.sort_key = state.sort_key
        /\ t.indexed = state.indexed
        /\ t.filter_snapshot = state.filter_snapshot /\ t.input_mode = state.input_mode
    BY <1>1, FiltersAreSets DEF AppState
  <2> HIDE DEF t
  <2>3. Based(t, base)
    BY <1>1, <2>2, BasedStays
  <2> QED  BY <2>1, <2>3, RefilterKeeps
<1>4. ASSUME NEW user \in Filters \cup {Messages}, SubmitFilter(user)
      PROVE  IInv'
  <2> DEFINE t == [Submitted EXCEPT !.user_filter = user]
  <2>1. Refilter(t)
    BY <1>4 DEF SubmitFilter
  <2>2. /\ t \in AppState /\ t.mmap = state.mmap /\ t.sort_key = state.sort_key
        /\ t.indexed = state.indexed
        /\ t.filter_snapshot = << >> /\ t.input_mode = "Normal"
    BY <1>1, FiltersAreSets DEF AppState, Submitted, Option
  <2> HIDE DEF t
  <2>3. Based(t, base)
    BY <1>1, <2>2, BasedStays
  <2> QED  BY <2>1, <2>3, RefilterKeeps
<1> QED  BY <1>2, <1>3, <1>4

LEMMA CommandKeeps ==
  ASSUME IInv, EnterCommand \/ CommandCancel \/ SubmitOther
  PROVE  IInv'
<1>1. state \in AppState /\ Based(state, base) /\ Sound(state, base) /\ LogsFit
  BY DEF IInv, Sound, Based, World
<1>2. InRows(state.cursor, state.visible)
  BY RowsMayBeMoved
<1>3. CASE EnterCommand
  <2> DEFINE snap == snapshot_filter(state)
             t == [state EXCEPT !.input_mode = "Command", !.filter_snapshot = <<snap>>]
  <2>1. Key(t)
    BY <1>3 DEF EnterCommand
  <2>2. snap \in View /\ SameList(state, snap) /\ snap.cursor = state.cursor
    BY <1>1 DEF snapshot_filter, View, AppState, SameList
  <2> HIDE DEF snap
  <2>3. /\ t \in AppState /\ t.mmap = state.mmap /\ t.sort_key = state.sort_key
        /\ t.indexed = state.indexed /\ SameList(state, t) /\ t.cursor = state.cursor
        /\ t.filter_snapshot = <<snap>> /\ t.input_mode = "Command"
        /\ t.detail_cache = state.detail_cache
    BY <1>1, <2>2 DEF AppState, SameList, Option
  <2> HIDE DEF t
  <2>4. ViewFits(state, state, base) /\ MappingFits(state, base) /\ CacheFits(state, base)
    BY <1>1 DEF Sound, Based
  <2>5. InRows(snap.cursor, snap.visible) /\ InRows(t.cursor, t.visible)
    BY <1>2, <2>2, <2>3 DEF SameList
  <2>6. ViewFits(t, snap, base)
    BY <2>2, <2>3, <2>4, <2>5, ViewStays
  <2>7. ViewFits(t, t, base)
    BY <2>3, <2>4, <2>5, ViewStays
  <2>8. CacheFits(t, base)
    BY <2>3, <2>4, SameMessages DEF CacheFits
  <2>9. MappingFits(t, base)
    BY <2>3, <2>4 DEF MappingFits
  <2>10. Based(t, base)
    BY <2>3, <2>6, <2>9 DEF Based
  <2>11. Sound(t, base)
    BY <2>7, <2>8, <2>10 DEF Sound
  <2> QED  BY <2>1, <2>11, KeyKeeps
<1>4. CASE CommandCancel
  <2> DEFINE s == [state EXCEPT !.input_mode = "Normal", !.filter_snapshot = << >>]
  <2>1. state.input_mode # "Normal" /\ Key(restore_filter(s, state.filter_snapshot[1]))
    BY <1>4 DEF CommandCancel, Normal
  <2>2. state.filter_snapshot # << >>
    BY <1>1, <2>1 DEF Based, AppState
  <2>3. PICK v \in View : state.filter_snapshot = <<v>>
    BY <1>1, <2>2 DEF AppState, Option
  <2>4. ViewFits(state, v, base)
    BY <1>1, <2>2, <2>3 DEF Based
  <2>5. Key(restore_filter(s, v))
    BY <2>1, <2>3
  <2>6. /\ s \in AppState /\ s.mmap = state.mmap /\ s.sort_key = state.sort_key
        /\ s.indexed = state.indexed
        /\ s.filter_snapshot = << >> /\ s.input_mode = "Normal"
    BY <1>1 DEF AppState, Option
  <2> HIDE DEF s
  <2>7. Based(s, base)
    BY <1>1, <2>6, BasedStays
  <2>8. SameList(v, v) /\ InRows(v.cursor, v.visible)
    BY <2>4 DEF SameList, ViewFits, InRows
  <2>9. ViewFits(s, v, base)
    BY <2>4, <2>6, <2>8, ViewStays
  <2>10. Sound(restore_filter(s, v), base)
    BY <1>1, <2>7, <2>9, Restored
  <2> QED  BY <2>5, <2>10, KeyKeeps
<1>5. CASE SubmitOther
  <2>1. Key(Submitted)
    BY <1>5 DEF SubmitOther
  <2>2. PICK t : t = Submitted
    OBVIOUS
  <2>3. /\ t \in AppState /\ t.mmap = state.mmap /\ t.sort_key = state.sort_key
        /\ SameList(state, t) /\ t.cursor = state.cursor /\ t.visible = state.visible
        /\ t.filter_snapshot = << >> /\ t.input_mode = "Normal"
        /\ t.detail_cache = state.detail_cache
    BY <1>1, <2>2 DEF AppState, SameList, Option, Submitted
  <2>4. Sound(t, base)
    BY <1>1, <1>2, <2>3, Kept
  <2> QED  BY <2>1, <2>2, <2>4, KeyKeeps
<1> QED  BY <1>3, <1>4, <1>5

LEMMA UserKeeps ==
  ASSUME IInv, User
  PROVE  IInv'
<1>1. CASE Tick
  <2>1. Sound(state, base)
    BY DEF IInv
  <2> QED  BY <1>1, <2>1, KeyKeeps DEF Tick
<1> QED  BY <1>1, CursorKeeps, ToggleKeeps, CycleKeeps, SearchKeeps, MarksKeep, FilterKeeps,
            CommandKeeps DEF User

(* A file that is shorter than what is indexed is not the one of the index. *)
LEMMA ShrankKeeps ==
  ASSUME IInv, RemapShrank
  PROVE  IInv'
<1> DEFINE t == [state EXCEPT !.mmap = file]
<1>1. /\ state \in AppState /\ Based(state, base) /\ Sound(state, base) /\ LogsFit
      /\ half \in BOOLEAN /\ base \in 1 .. Len(logs) /\ MappingFits(state, base)
  BY DEF IInv, Sound, Based, World
<1>2. /\ file \in Mapping /\ file.gen = Len(logs) /\ file.gen \in 1 .. Len(logs)
      /\ Len(logs) \in Nat /\ file.len \in Nat
      /\ file.len \div 2 = Len(logs[Len(logs)]) /\ file.len \div 2 \in Nat
      /\ 2 * (file.len \div 2) <= file.len
  BY <1>1, FileIs
<1>3. file.gen # base
  <2> SUFFICES ASSUME file.gen = base
               PROVE  FALSE
    OBVIOUS
  <2>1. PICK n \in Nat, k \in Nat, l \in Nat :
          n = state.indexed /\ k = file.len /\ l = file.len \div 2
    BY <1>1, <1>2 DEF AppState
  <2>2. k < 2 * n
    BY <2>1 DEF RemapShrank, consumed
  <2>3. state.mmap.gen = base
    BY <1>1, <1>2 DEF MappingFits
  <2>4. n <= l
    BY <1>1, <1>2, <2>1, <2>3 DEF MappingFits
  <2>5. 2 * l <= k
    BY <1>2, <2>1
  <2> QED  BY <2>2, <2>4, <2>5
<1>4. /\ t \in AppState /\ t.mmap = file /\ t.indexed = state.indexed /\ t.filter = state.filter
      /\ t.user_filter = state.user_filter /\ t.hide_heartbeat = state.hide_heartbeat
      /\ t.cursor = state.cursor /\ t.visible = state.visible
      /\ t.filter_snapshot = state.filter_snapshot /\ t.input_mode = state.input_mode
  BY <1>1, <1>2 DEF AppState
<1>5. state' = t /\ pc' = "rebuild" /\ UNCHANGED <<logs, half, present, base>>
  BY DEF RemapShrank
<1> HIDE DEF t
<1>6. MappingFits(t, base)
  BY <1>1, <1>2, <1>3, <1>4 DEF MappingFits
<1>7. ViewFits(t, t, base)
  <2>1. t.indexed <= t.indexed
    BY <1>4 DEF AppState
  <2>2. /\ t.filter = Compose(t.user_filter, t.hide_heartbeat)
        /\ t.cursor < Len(t.visible) \/ (t.cursor = 0 /\ Len(t.visible) = 0)
    BY <1>1, <1>4 DEF Sound, ViewFits
  <2> QED  BY <1>3, <1>4, <2>1, <2>2 DEF ViewFits
<1>8. t.filter_snapshot # << >> => ViewFits(t, t.filter_snapshot[1], base)
  BY <1>1, <1>3, <1>4 DEF Based, ViewFits
<1>9. CacheFits(t, base)
  BY <1>3, <1>4 DEF CacheFits
<1>10. Sound(t, base)
  BY <1>1, <1>4, <1>6, <1>7, <1>8, <1>9 DEF Sound, Based
<1> QED  BY <1>5, <1>10, StepKeeps

LEMMA PollKeeps ==
  ASSUME IInv, Poll \/ PollTooEarly
  PROVE  IInv'
<1>1. Sound(state, base) /\ World
  BY DEF IInv
<1>2. CASE PollTooEarly \/ PollStat \/ RemapFails \/ RebuildFails
  <2>1. /\ state' = state /\ UNCHANGED <<logs, half, present, base>>
        /\ pc' \in {"poll", "remap", "rebuild", "draw", "panicked"}
    BY <1>2 DEF PollTooEarly, PollStat, RemapFails, RebuildFails
  <2> QED  BY <1>1, <2>1, StepKeeps
<1>3. CASE Remap
  <2>1. /\ state' = Remapped /\ UNCHANGED <<logs, half, present, base>>
        /\ pc' \in {"poll", "remap", "rebuild", "draw", "panicked"}
        /\ file.len >= consumed(state)
    BY <1>3 DEF Remap, Remapped
  <2> QED  BY <1>1, <2>1, RemappedIsSound, StepKeeps
<1>4. CASE Rebuild
  <2>1. PICK t : t = bootstrap(state.filter, "Natural")
    OBVIOUS
  <2>2. state' = t /\ base' = Len(logs) /\ pc' = "draw" /\ UNCHANGED <<logs, half, present>>
    BY <1>4, <2>1 DEF Rebuild
  <2>3. state.filter \in SUBSET Messages /\ "Natural" \in SortKeys
    BY <1>1 DEF Sound, Based, AppState, SortKeys, cycle
  <2>4. Sound(t, Len(logs))
    BY <1>1, <2>1, <2>3, Booted DEF World
  <2>5. Sound(state, base)'
    BY <2>2, <2>4, CarriedSame
  <2>6. World'
    BY <1>1, <2>2 DEF World, LogsFit
  <2> QED  BY <2>2, <2>5, <2>6 DEF IInv, DetailIsOfCursor
<1> QED  BY <1>2, <1>3, <1>4, ShrankKeeps DEF Poll

(* The frame resolves the message of the cursor.                           *)
LEMMA DrawKeeps ==
  ASSUME IInv, Draw
  PROVE  IInv'
<1>1. Sound(state, base) /\ World /\ LogsFit
  BY DEF IInv, World
<1>2. PICK t : t = refresh_detail_cache(state)
  OBVIOUS
<1>3. state' = t /\ pc' = "event" /\ UNCHANGED <<logs, half, present, base>>
  BY <1>2 DEF Draw
<1>4. /\ Sound(t, base)
      /\ t.mmap = state.mmap
      /\ state.mmap.gen = base =>
           t.detail_cache = IF t.visible = << >> THEN << >> ELSE <<Row(t), message(t, Row(t))>>
  BY <1>1, <1>2, Refreshed
<1>5. Sound(state, base)' /\ \A ord : message(state, ord)' = message(t, ord)
  BY <1>3, <1>4, CarriedSame
<1>6. World'
  BY <1>1, <1>3 DEF World, LogsFit
<1>7. DetailIsOfCursor'
  BY <1>3, <1>4, <1>5 DEF DetailIsOfCursor, Row
<1> QED  BY <1>5, <1>6, <1>7 DEF IInv

LEMMA InvInit ==
  ASSUME Init
  PROVE  IInv
<1>1. PICK log \in UNION {[1 .. n -> Messages] : n \in 0 .. MaxLen} : logs = <<log>>
  BY DEF Init
<1>2. log \in Seq(Messages)
  <2>1. PICK n \in 0 .. MaxLen : log \in [1 .. n -> Messages]
    BY <1>1
  <2>2. n \in Nat
    BY <2>1, ConstantsAssumption
  <2> QED  BY <2>1, <2>2
<1>3. LogsFit /\ Len(logs) = 1
  BY <1>1, <1>2 DEF LogsFit
<1>4. World
  BY <1>3 DEF Init, World
<1>5. PICK user \in Filters \cup {Messages}, key \in InitialKeys : state = bootstrap(user, key)
  BY DEF Init
<1>6. user \in SUBSET Messages /\ key \in SortKeys
  BY FiltersAreSets, ConstantsAssumption
<1>7. Sound(state, base)
  BY <1>3, <1>4, <1>5, <1>6, Booted DEF Init, World
<1> QED  BY <1>4, <1>7 DEF Init, IInv, DetailIsOfCursor

LEMMA InvNext ==
  ASSUME IInv, [Next]_vars
  PROVE  IInv'
<1>1. CASE UNCHANGED vars
  <2>1. Sound(state, base)' /\ \A ord : message(state, ord)' = message(state, ord)
    BY <1>1, CarriedSame DEF IInv, vars
  <2>2. World'
    BY <1>1 DEF vars, IInv, World, LogsFit
  <2>3. DetailIsOfCursor'
    BY <1>1, <2>1 DEF vars, IInv, DetailIsOfCursor, Row
  <2> QED  BY <2>1, <2>2, <2>3 DEF IInv
<1> QED  BY <1>1, Written, UserKeeps, PollKeeps, DrawKeeps DEF Next

LEMMA InvAlways == Spec => []IInv
BY InvInit, InvNext, PTL DEF Spec

-----------------------------------------------------------------------------
(* What the index was read from.  A key leaves the mapping and the number   *)
(* of messages alone.                                                      *)
Reads == {"mmap", "indexed"}

SameIndex(s, t) == DOMAIN t = DOMAIN s /\ t.mmap = s.mmap /\ t.indexed = s.indexed

LEMMA CacheReads ==
  ASSUME NEW s, Reads \subseteq DOMAIN s, NEW t, t = refresh_detail_cache(s)
  PROVE  SameIndex(s, t)
BY DEF refresh_detail_cache, SameIndex, Reads

LEMMA FilterReads ==
  ASSUME NEW s, Reads \subseteq DOMAIN s, NEW t, t = recompute_effective_filter(s)
  PROVE  SameIndex(s, t)
<1> DEFINE filter == Compose(s.user_filter, s.hide_heartbeat)
           visible == sort_visible(s, evaluate_visible(s, filter))
           c == last(visible)
           u == [s EXCEPT !.filter = filter, !.visible = visible, !.cursor = c,
                          !.detail_cache = << >>, !.missed = {}, !.sorted = s.indexed]
<1>1. t = refresh_detail_cache(u)
  BY DEF recompute_effective_filter, apply_filter
<1> HIDE DEF filter, visible, c
<1>2. SameIndex(s, u)
  BY DEF SameIndex, Reads
<1>3. Reads \subseteq DOMAIN u
  BY <1>2 DEF SameIndex
<1> HIDE DEF u
<1>4. SameIndex(u, t)
  BY <1>1, <1>3, CacheReads
<1> QED  BY <1>2, <1>4 DEF SameIndex

LEMMA SnapshotReads ==
  ASSUME NEW s, Reads \subseteq DOMAIN s, NEW snap, NEW t, t = restore_filter(s, snap)
  PROVE  SameIndex(s, t)
<1> DEFINE missed == snap.missed \cup (snap.indexed .. s.indexed - 1)
           u == [s EXCEPT !.filter = snap.filter, !.user_filter = snap.user_filter,
                          !.hide_heartbeat = snap.hide_heartbeat, !.visible = snap.visible,
                          !.cursor = snap.cursor, !.detail_cache = << >>,
                          !.missed = missed, !.sorted = snap.sorted]
<1>1. t = refresh_detail_cache(u)
  BY DEF restore_filter
<1> HIDE DEF missed
<1>2. SameIndex(s, u)
  BY DEF SameIndex, Reads
<1>3. Reads \subseteq DOMAIN u
  BY <1>2 DEF SameIndex
<1> HIDE DEF u
<1>4. SameIndex(u, t)
  BY <1>1, <1>3, CacheReads
<1> QED  BY <1>2, <1>4 DEF SameIndex

LEMMA RefilterReads ==
  ASSUME NEW s, Reads \subseteq DOMAIN s, SameIndex(state, s), Refilter(s)
  PROVE  SameIndex(state, state')
<1>1. CASE state' = state
  BY <1>1 DEF SameIndex
<1>2. CASE state' = recompute_effective_filter(s)
  <2>1. SameIndex(s, state')
    BY <1>2, FilterReads
  <2> QED  BY <2>1 DEF SameIndex
<1> QED  BY <1>1, <1>2 DEF Refilter, Key

LEMMA UserReads ==
  ASSUME state \in AppState, User
  PROVE  SameIndex(state, state')
<1>1. Reads \subseteq DOMAIN state
  BY DEF AppState, Reads
<1>2. CASE Tick \/ CursorTop \/ CursorBottom \/ toggle_mode \/ SubmitOther \/ EnterCommand
  BY <1>1, <1>2 DEF Tick, CursorTop, CursorBottom, toggle_mode, SubmitOther, EnterCommand,
                    Submitted, Key, SameIndex, Reads
<1>3. CASE cycle_sort_key
  BY <1>1, <1>3 DEF cycle_sort_key, Key, SameIndex, Reads
<1>4. ASSUME NEW d \in {1, -1, HalfPage, - HalfPage}, Move(d) PROVE SameIndex(state, state')
  BY <1>1, <1>4 DEF Move, Key, SameIndex, Reads
<1>5. CASE ToggleHideHeartbeat
  <2>1. PICK s : s = [state EXCEPT !.hide_heartbeat = ~ @]
    OBVIOUS
  <2>2. SameIndex(state, s) /\ Reads \subseteq DOMAIN s
    BY <1>1, <2>1 DEF SameIndex, Reads
  <2> QED  BY <1>5, <2>1, <2>2, RefilterReads DEF ToggleHideHeartbeat
<1>6. CASE CommandCancel
  <2>1. PICK s : s = [state EXCEPT !.input_mode = "Normal", !.filter_snapshot = << >>]
    OBVIOUS
  <2>2. SameIndex(state, s) /\ Reads \subseteq DOMAIN s
    BY <1>1, <2>1 DEF SameIndex, Reads
  <2>3. state' = restore_filter(s, state.filter_snapshot[1])
    BY <1>6, <2>1 DEF CommandCancel, Key
  <2>4. SameIndex(s, state')
    BY <2>2, <2>3, SnapshotReads
  <2> QED  BY <2>2, <2>4 DEF SameIndex
<1>7. ASSUME NEW user, Preview(user) PROVE SameIndex(state, state')
  <2>1. PICK s : s = [state EXCEPT !.user_filter = user]
    OBVIOUS
  <2>2. SameIndex(state, s) /\ Reads \subseteq DOMAIN s
    BY <1>1, <2>1 DEF SameIndex, Reads
  <2> QED  BY <1>7, <2>1, <2>2, RefilterReads DEF Preview
<1>8. ASSUME NEW user, SubmitFilter(user) PROVE SameIndex(state, state')
  <2>1. PICK s : s = [Submitted EXCEPT !.user_filter = user]
    OBVIOUS
  <2>2. SameIndex(state, s) /\ Reads \subseteq DOMAIN s
    BY <1>1, <2>1 DEF Submitted, SameIndex, Reads
  <2> QED  BY <1>8, <2>1, <2>2, RefilterReads DEF SubmitFilter
<1>9. ASSUME NEW filter, NEW d, Search(filter, d) PROVE SameIndex(state, state')
  BY <1>1, <1>9 DEF Search, Key, SameIndex, Reads
<1>10. ASSUME NEW c, set_bookmark(c) \/ jump_bookmark(c) PROVE SameIndex(state, state')
  BY <1>1, <1>10 DEF set_bookmark, jump_bookmark, Key, SameIndex, Reads
<1> QED  BY <1>2, <1>3, <1>4, <1>5, <1>6, <1>7, <1>8, <1>9, <1>10 DEF User

LEMMA ItemIs ==
  ASSUME NEW S, NEW q \in Seq(S), NEW i \in DOMAIN q
  PROVE  q[i] \in S
OBVIOUS

LEMMA WidenedSeq ==
  ASSUME NEW S, NEW T, S \subseteq T, NEW q \in Seq(S)
  PROVE  q \in Seq(T)
OBVIOUS

(* The messages were found in files that had the path one after the other,  *)
(* since the last bootstrap, and a rebuild is under way, or has failed,     *)
(* where the mapping is shorter than the index.                            *)
FoundInOrder(o, b, g) ==
  /\ o \in Seq(b .. g)
  /\ \A i, j \in DOMAIN o : i < j => o[i] <= o[j]

OriginInv ==
  /\ Len(origin) = state.indexed
  /\ FoundInOrder(origin, base, state.mmap.gen)
  /\ failed \in BOOLEAN
  /\ consumed(state) <= state.mmap.len \/ failed \/ pc = "rebuild"

LEMMA FileIsFound ==
  ASSUME LogsFit, half \in BOOLEAN
  PROVE  /\ Len(FoundIn(file)) = file.len \div 2
         /\ FoundInOrder(FoundIn(file), file.gen, file.gen)
<1>1. file.gen \in Nat /\ file.len \div 2 \in Nat
  BY FileIs
<1>2. file.gen \in file.gen .. file.gen
  BY <1>1
<1>3. FoundIn(file) \in Seq(file.gen .. file.gen) /\ Len(FoundIn(file)) = file.len \div 2
  BY <1>1, <1>2 DEF FoundIn
<1>4. \A i \in DOMAIN FoundIn(file) : FoundIn(file)[i] = file.gen
  BY DEF FoundIn
<1> QED  BY <1>1, <1>3, <1>4 DEF FoundInOrder

(* bootstrap indexes the whole file.                                       *)
LEMMA BootedIs ==
  ASSUME NEW user, NEW key
  PROVE  bootstrap(user, key).mmap = file /\ bootstrap(user, key).indexed = file.len \div 2
<1> DEFINE s == [mmap |-> file, indexed |-> file.len \div 2, filter |-> Messages,
     user_filter |-> user, hide_heartbeat |-> FALSE, sort_key |-> key,
     visible |-> << >>, cursor |-> 0, mode |-> "Follow", new_since_browse |-> 0,
     detail_cache |-> << >>, input_mode |-> "Normal", filter_snapshot |-> << >>,
     bookmarks |-> [c \in Marks |-> << >>], missed |-> {}, sorted |-> 0]
<1>1. /\ Reads \subseteq DOMAIN s /\ s.mmap = file /\ s.indexed = file.len \div 2
  BY DEF Reads
<1>2. bootstrap(user, key) = recompute_effective_filter(s)
  BY DEF bootstrap
<1> HIDE DEF s
<1>3. SameIndex(s, bootstrap(user, key))
  BY <1>1, <1>2, FilterReads
<1> QED  BY <1>1, <1>3 DEF SameIndex

(* Init and Rebuild.                                                       *)
LEMMA FreshOrigin ==
  ASSUME LogsFit, half \in BOOLEAN, NEW user, NEW key, NEW t, t = bootstrap(user, key)
  PROVE  /\ Len(FoundIn(file)) = t.indexed
         /\ FoundInOrder(FoundIn(file), Len(logs), t.mmap.gen)
         /\ consumed(t) <= t.mmap.len
<1>1. t.mmap = file /\ t.indexed = file.len \div 2
  BY BootedIs
<1>2. file.gen = Len(logs) /\ 2 * (file.len \div 2) <= file.len
  BY FileIs
<1> QED  BY <1>1, <1>2, FileIsFound DEF consumed

(* What is appended was found in the file that is mapped now.              *)
LEMMA AppendedOrigin ==
  ASSUME World, Sound(state, base), OriginInv, Remap
  PROVE  OriginInv'
<1>1. PICK t : t = Remapped
  OBVIOUS
<1>2. /\ state' = t /\ file.len >= consumed(state) /\ failed' = FALSE /\ base' = base
      /\ origin' = origin \o [k \in 1 .. file.len \div 2 - state.indexed |-> file.gen]
  <2>1. /\ state' = t /\ failed' = FALSE /\ base' = base /\ file.len >= consumed(state)
    BY <1>1 DEF Remap, Remapped
  <2>2. /\ origin' = origin \o [k \in 1 .. append_from_offset(state).indexed - state.indexed
                                  |-> file.gen]
    BY DEF Remap
  <2>3. append_from_offset(state).indexed = file.len \div 2
    <3>1. state \in AppState
      BY DEF Sound, Based
    <3> QED  BY <3>1 DEF append_from_offset, AppState
  <2> QED  BY <2>1, <2>2, <2>3
<1>3. t.mmap = file /\ t.indexed = file.len \div 2 /\ state.indexed <= t.indexed
  BY <1>1, <1>2, RemappedIs
<1>4. /\ file.gen = Len(logs) /\ Len(logs) \in Nat /\ file.len \in Nat /\ file.len \div 2 \in Nat
      /\ 2 * (file.len \div 2) <= file.len
  BY FileIs DEF World
<1>5. /\ base \in Nat /\ base <= file.gen /\ state.indexed \in Nat
      /\ state.mmap.gen \in Nat /\ state.mmap.gen <= file.gen
  BY <1>4 DEF World, Sound, Based, MappingFits, AppState
<1> DEFINE n == file.len \div 2
           a == state.indexed
           g == file.gen
           new == [k \in 1 .. n - a |-> g]
<1>6. n \in Nat /\ a \in Nat /\ g \in Nat /\ a <= n /\ n - a \in Nat /\ base <= g
  BY <1>3, <1>4, <1>5
<1> HIDE DEF n, a, g
<1>7. g \in base .. g
  BY <1>5, <1>6
<1>8. new \in Seq(base .. g) /\ Len(new) = n - a /\ \A k \in 1 .. n - a : new[k] = g
  BY <1>6, <1>7
<1> HIDE DEF new
<1>9. /\ origin \in Seq(base .. g) /\ Len(origin) = a
      /\ \A i, j \in DOMAIN origin : i < j => origin[i] <= origin[j]
  <2>1. base .. state.mmap.gen \subseteq base .. g
    BY <1>5, <1>6 DEF g
  <2>2. /\ origin \in Seq(base .. state.mmap.gen) /\ Len(origin) = a
        /\ \A i, j \in DOMAIN origin : i < j => origin[i] <= origin[j]
    BY DEF OriginInv, FoundInOrder, a
  <2>3. origin \in Seq(base .. g)
    BY <2>1, <2>2, WidenedSeq
  <2> QED  BY <2>2, <2>3
<1>10. origin' = origin \o new
  BY <1>2 DEF n, a, g, new
<1> DEFINE o == origin \o new
<1>11. /\ o \in Seq(base .. g) /\ Len(o) = n /\ DOMAIN o = 1 .. n
       /\ \A i \in 1 .. n : o[i] = IF i <= a THEN origin[i] ELSE new[i - a]
  BY <1>6, <1>8, <1>9
<1> HIDE DEF o
<1>12. ASSUME NEW i \in 1 .. n, NEW j \in 1 .. n, i < j
       PROVE  o[i] <= o[j]
  <2>1. CASE j <= a
    <3>1. i \in DOMAIN origin /\ j \in DOMAIN origin
      BY <1>6, <1>9, <2>1, <1>12
    <3>2. o[i] = origin[i] /\ o[j] = origin[j]
      BY <1>6, <1>11, <1>12, <2>1
    <3> QED  BY <1>9, <1>12, <3>1, <3>2
  <2>2. CASE j > a
    <3>1. j - a \in 1 .. n - a
      BY <1>6, <2>2
    <3>2. o[j] = g
      BY <1>6, <1>8, <1>11, <2>2, <3>1
    <3>3. o[i] \in base .. g
      BY <1>11, <1>12, ItemIs
    <3> QED  BY <1>5, <1>6, <3>2, <3>3
  <2> QED  BY <1>6, <2>1, <2>2
<1>13. FoundInOrder(o, base, g) /\ Len(o) = n
  BY <1>11, <1>12 DEF FoundInOrder
<1>14. consumed(t) <= t.mmap.len
  BY <1>3, <1>4 DEF consumed
<1> QED  BY <1>2, <1>3, <1>10, <1>13, <1>14 DEF OriginInv, consumed, o, n, g

LEMMA OriginStep ==
  ASSUME IInv, OriginInv, [Next]_vars
  PROVE  OriginInv'
<1>1. World /\ Sound(state, base) /\ state \in AppState /\ LogsFit /\ half \in BOOLEAN
  BY DEF IInv, Sound, Based, World
<1>2. ASSUME SameIndex(state, state'), UNCHANGED <<base, origin, failed>>, pc # "rebuild"
      PROVE  OriginInv'
  BY <1>2 DEF SameIndex, OriginInv, consumed
<1>3. CASE Environment \/ UNCHANGED vars
  <2>1. UNCHANGED <<state, base, origin, failed, pc>>
    BY <1>3 DEF Environment, WriteHalf, WriteRest, MoveAway, Create, vars
  <2> QED  BY <2>1 DEF OriginInv, consumed
<1>4. CASE User
  <2>1. pc = "event" /\ UNCHANGED <<base, origin, failed>>
    BY <1>4 DEF User, Tick, CursorTop, CursorBottom, toggle_mode, cycle_sort_key, Move,
                ToggleHideHeartbeat, EnterCommand, CommandCancel, SubmitOther, Preview,
                SubmitFilter, Search, set_bookmark, jump_bookmark, Refilter, Key
  <2> QED  BY <1>1, <1>2, <1>4, <2>1, UserReads
<1>5. CASE PollTooEarly \/ PollStat \/ RemapFails
  <2>1. UNCHANGED <<state, base, origin, failed>> /\ pc # "rebuild"
    BY <1>5 DEF PollTooEarly, PollStat, RemapFails
  <2>2. SameIndex(state, state')
    BY <2>1 DEF SameIndex
  <2> QED  BY <1>2, <2>1, <2>2
<1>6. CASE RemapShrank
  <2>1. /\ state'.mmap = file /\ state'.indexed = state.indexed /\ pc' = "rebuild"
        /\ UNCHANGED <<base, origin, failed>>
    BY <1>1, <1>6 DEF RemapShrank, AppState
  <2>2. state.mmap.gen \in Nat /\ file.gen \in Nat /\ state.mmap.gen <= file.gen /\ base \in Nat
    BY <1>1, FileIs DEF World, Sound, Based, MappingFits
  <2>3. base .. state.mmap.gen \subseteq base .. file.gen
    BY <2>2
  <2>4. FoundInOrder(origin, base, file.gen)
    <3>1. FoundInOrder(origin, base, state.mmap.gen)
      BY DEF OriginInv
    <3>2. origin \in Seq(base .. file.gen)
      BY <2>3, <3>1, WidenedSeq DEF FoundInOrder
    <3> QED  BY <3>1, <3>2 DEF FoundInOrder
  <2> QED  BY <2>1, <2>4 DEF OriginInv
<1>7. CASE Remap
  BY <1>1, <1>7, AppendedOrigin
<1>8. CASE Rebuild
  <2>1. PICK t : t = bootstrap(state.filter, "Natural")
    OBVIOUS
  <2>2. state' = t /\ base' = Len(logs) /\ origin' = FoundIn(file) /\ failed' = FALSE
    BY <1>8, <2>1 DEF Rebuild
  <2> QED  BY <1>1, <2>1, <2>2, FreshOrigin DEF OriginInv, consumed
<1>9. CASE RebuildFails
  BY <1>9 DEF RebuildFails, OriginInv, consumed
<1>10. CASE Draw
  <2>1. state' = refresh_detail_cache(state) /\ UNCHANGED <<base, origin, failed>> /\ pc # "rebuild"
    BY <1>10 DEF Draw
  <2>2. SameIndex(state, state')
    <3>1. Reads \subseteq DOMAIN state
      BY <1>1 DEF AppState, Reads
    <3> QED  BY <2>1, <3>1, CacheReads
  <2> QED  BY <1>2, <2>1, <2>2
<1> QED  BY <1>3, <1>4, <1>5, <1>6, <1>7, <1>8, <1>9, <1>10 DEF Next, Poll

LEMMA OriginInit ==
  ASSUME Init
  PROVE  OriginInv
<1>1. LogsFit /\ half \in BOOLEAN
  BY InvInit DEF IInv, World
<1>2. PICK user \in Filters \cup {Messages}, key \in InitialKeys : state = bootstrap(user, key)
  BY DEF Init
<1>3. base = Len(logs) /\ origin = FoundIn(file) /\ failed = FALSE
  BY DEF Init
<1> QED  BY <1>1, <1>2, <1>3, FreshOrigin DEF OriginInv

LEMMA OriginAlways == Spec => []OriginInv
<1>1. Init => OriginInv
  BY OriginInit
<1>2. IInv /\ OriginInv /\ [Next]_vars => OriginInv'
  BY OriginStep
<1> QED  BY <1>1, <1>2, InvAlways, PTL DEF Spec

-----------------------------------------------------------------------------
(* The state has its type: one step of the loop never leaves what another   *)
(* cannot work with.                                                       *)
THEOREM TypeCorrect == Spec => []TypeOK
<1>1. ASSUME IInv, OriginInv
      PROVE  TypeOK
  <2>1. World /\ state \in AppState /\ MappingFits(state, base) /\ Based(state, base)
    BY <1>1 DEF IInv, Sound, Based
  <2>2. Option(Nat) \subseteq Maybe(Nat)
    <3>1. << >> \in Maybe(Nat)
      BY DEF Maybe
    <3>2. ASSUME NEW x \in Nat
          PROVE  <<x>> \in Maybe(Nat)
      BY DEF Maybe
    <3> QED  BY <3>1, <3>2 DEF Option
  <2>3. state.bookmarks \in [Marks -> Maybe(Nat)]
    BY <2>1, <2>2 DEF AppState
  <2>4. state.input_mode = "Command" <=> state.filter_snapshot # << >>
    BY <2>1 DEF Based
  <2>5. /\ state.mmap \in Mapping /\ state.mmap.gen \in 1 .. Len(logs)
        /\ state.indexed \in Nat
        /\ state.user_filter \in SUBSET Messages /\ state.filter \in SUBSET Messages
        /\ state.hide_heartbeat \in BOOLEAN /\ state.sort_key \in SortKeys
        /\ state.visible \in Seq(Nat) /\ state.cursor \in Nat
        /\ state.mode \in {"Follow", "Browse"} /\ state.new_since_browse \in Nat
        /\ state.input_mode \in {"Normal", "Command"}
    BY <2>1 DEF AppState, MappingFits
  <2>6. origin \in Seq(1 .. Len(logs)) /\ failed \in BOOLEAN
    <3>1. base \in 1 .. Len(logs) /\ state.mmap.gen \in 1 .. Len(logs) /\ Len(logs) \in Nat
      BY <2>1 DEF MappingFits, World, LogsFit
    <3>2. base .. state.mmap.gen \subseteq 1 .. Len(logs)
      BY <3>1
    <3>3. origin \in Seq(base .. state.mmap.gen) /\ failed \in BOOLEAN
      BY <1>1 DEF OriginInv, FoundInOrder
    <3> QED  BY <3>2, <3>3, WidenedSeq
  <2> QED  BY <2>1, <2>3, <2>4, <2>5, <2>6 DEF TypeOK, World, LogsFit
<1> QED  BY <1>1, InvAlways, OriginAlways, PTL

(* follow.rs, poll_now: whatever is at the path when it is looked at, mapped *)
(* and rebuilt from, the index is of the files that were mapped since the   *)
(* last bootstrap, in their order; of the bootstrapped one it has all, and  *)
(* its ranges are beyond the mapping only if a rebuild failed.             *)
THEOREM IndexKeepsUp == Spec => []IndexIsOfMapping
<1>1. ASSUME IInv, OriginInv
      PROVE  IndexIsOfMapping
  <2>1. LogsFit /\ state \in AppState /\ MappingFits(state, base)
    BY <1>1 DEF IInv, Sound, Based, World
  <2>2. Len(Mapped(state.mmap)) = state.mmap.len \div 2
    <3>1. 0 \in Nat
      OBVIOUS
    <3> QED  BY <2>1, <3>1, MessageIs
  <2>3. \A i \in DOMAIN origin : base <= origin[i] /\ origin[i] <= state.mmap.gen
    <3> SUFFICES ASSUME NEW i \in DOMAIN origin
                 PROVE  base <= origin[i] /\ origin[i] <= state.mmap.gen
      OBVIOUS
    <3>1. origin \in Seq(base .. state.mmap.gen)
      BY <1>1 DEF OriginInv, FoundInOrder
    <3>2. origin[i] \in base .. state.mmap.gen
      BY <3>1, ItemIs
    <3>3. base \in 1 .. Len(logs) /\ state.mmap.gen \in 1 .. Len(logs)
      BY <1>1, <2>1 DEF IInv, World, MappingFits
    <3>4. Len(logs) \in Nat
      BY <2>1 DEF LogsFit
    <3>5. base \in Nat /\ state.mmap.gen \in Nat
      BY <3>3, <3>4
    <3> QED  BY <3>2, <3>5
  <2>4. state.mmap.gen = base => state.indexed = Len(Mapped(state.mmap))
    BY <2>1, <2>2 DEF MappingFits
  <2>5. /\ Len(origin) = state.indexed
        /\ \A i, j \in DOMAIN origin : i < j => origin[i] <= origin[j]
        /\ consumed(state) <= state.mmap.len \/ failed \/ pc = "rebuild"
    BY <1>1 DEF OriginInv, FoundInOrder
  <2> QED  BY <2>3, <2>4, <2>5 DEF IndexIsOfMapping
<1> QED  BY <1>1, InvAlways, OriginAlways, PTL

(* state.rs, the two filters: while the mapped file is the one that was last *)
(* bootstrapped, the list has each message that passes them once, but those *)
(* that were indexed while a command was typed that was then taken back:    *)
(* whatever was typed, previewed, sorted, appended or built anew.           *)
THEOREM ListIsExact == Spec => []VisibleIsExact
<1>1. ASSUME IInv
      PROVE  VisibleIsExact
  <2>1. ViewFits(state, state, base)
    BY <1>1 DEF IInv, Sound
  <2> QED  BY <2>1 DEF VisibleIsExact, ViewFits, Selected
<1> QED  BY <1>1, InvAlways, PTL

(* What was there when the key was chosen is in its order, and what came    *)
(* later follows as it came, while the mapped file is the bootstrapped one. *)
THEOREM ListIsSorted == Spec => []SortedSinceKey
<1>1. ASSUME IInv
      PROVE  SortedSinceKey
  <2>1. ViewFits(state, state, base)
    BY <1>1 DEF IInv, Sound
  <2> QED  BY <2>1 DEF SortedSinceKey, ViewFits, InKeyOrder
<1> QED  BY <1>1, InvAlways, PTL

(* The cached detail is that of the cursor's message in every frame, also   *)
(* after the mapping was swapped and the list changed under the cursor,     *)
(* while the mapped file is the bootstrapped one.                          *)
THEOREM DetailKeepsUp == Spec => []DetailIsOfCursor
BY InvAlways, PTL DEF IInv

(* Rows that arrive leave a reader's row alone and take a follower along.  *)
THEOREM ReaderIsLeftAlone == Spec => GrowthKeepsPlace
<1> DEFINE Keeps ==
      LET before == state
          after  == state'
      IN pc = "remap" /\ base' = base /\ after.indexed > before.indexed =>
           IF before.mode = "Follow"
           THEN after.cursor = last(after.visible) /\ after.new_since_browse = 0
           ELSE /\ before.visible # << >> => Row(after) = Row(before)
                /\ after.new_since_browse - before.new_since_browse
                     = after.indexed - before.indexed
<1>1. ASSUME IInv, [Next]_vars
      PROVE  [Keeps]_vars
  <2> SUFFICES ASSUME pc = "remap", base' = base, state'.indexed > state.indexed
               PROVE  IF state.mode = "Follow"
                      THEN state'.cursor = last(state'.visible) /\ state'.new_since_browse = 0
                      ELSE /\ state.visible # << >> => Row(state') = Row(state)
                           /\ state'.new_since_browse - state.new_since_browse
                                = state'.indexed - state.indexed
    OBVIOUS
  <2>1. World /\ Sound(state, base) /\ state \in AppState
    BY <1>1 DEF IInv, Sound, Based
  <2>2. state'.indexed # state.indexed
    BY <2>1 DEF AppState
  <2>3. Remap
    <3>1. state' # state
      BY <2>2
    <3>2. ~ RemapShrank
      BY <2>1, <2>2 DEF RemapShrank, AppState
    <3>3. ~ Environment /\ ~ UNCHANGED vars
      BY <3>1 DEF Environment, WriteHalf, WriteRest, MoveAway, Create, vars
    <3>4. ~ User
      BY DEF User, Tick, CursorTop, CursorBottom, toggle_mode, cycle_sort_key, Move,
             ToggleHideHeartbeat, EnterCommand, CommandCancel, SubmitOther, Preview,
             SubmitFilter, Search, set_bookmark, jump_bookmark, Refilter, Key
    <3> QED  BY <1>1, <3>1, <3>2, <3>3, <3>4
             DEF Next, Poll, PollTooEarly, PollStat, RemapFails, Rebuild, RebuildFails, Draw
  <2>4. state' = Remapped /\ file.len >= consumed(state)
    BY <2>3 DEF Remap, Remapped
  <2>5. PICK t : t = state'
    OBVIOUS
  <2>6. /\ t \in AppState /\ t.visible \in Seq(Nat) /\ Len(t.visible) \in Nat
        /\ \A i \in 1 .. Len(state.visible) : t.visible[i] = state.visible[i]
    BY <2>1, <2>4, <2>5, RemappedIs
  <2>7. /\ state.mode = "Follow" =>
             /\ t.cursor = IF t.visible = << >> THEN state.cursor ELSE last(t.visible)
             /\ t.new_since_browse = 0
        /\ state.mode # "Follow" =>
             /\ t.cursor = state.cursor
             /\ t.new_since_browse = state.new_since_browse + (t.indexed - state.indexed)
    BY <2>1, <2>2, <2>4, <2>5, RemappedIs
  <2>8. Len(state.visible) <= Len(t.visible)
    BY <2>1, <2>4, <2>5, RemappedIs
  <2>9. ASSUME state.mode = "Follow", t.visible = << >>
        PROVE  t.cursor = last(t.visible)
    <3>1. InRows(state.cursor, state.visible) /\ Len(state.visible) \in Nat /\ state.cursor \in Nat
      BY <1>1, RowsMayBeMoved
    <3>2. Len(state.visible) = 0
      BY <2>8, <2>9, <3>1
    <3>3. state.cursor = 0
      BY <3>1, <3>2 DEF InRows
    <3> QED  BY <2>7, <2>9, <3>3 DEF last
  <2>10. ASSUME state.mode # "Follow", state.visible # << >>
         PROVE  Row(t) = Row(state)
    <3>1. state.cursor + 1 \in 1 .. Len(state.visible)
      BY <1>1, <2>10, RowsMayBeMoved
    <3> QED  BY <2>6, <2>7, <2>10, <3>1 DEF Row
  <2>11. ASSUME state.mode # "Follow"
         PROVE  t.new_since_browse - state.new_since_browse = t.indexed - state.indexed
    <3>1. PICK a \in Nat, b \in Nat, c \in Nat, d \in Nat :
            /\ a = t.new_since_browse /\ b = state.new_since_browse
            /\ c = t.indexed /\ d = state.indexed
      BY <2>1, <2>6 DEF AppState
    <3>2. a = b + (c - d)
      BY <2>7, <2>11, <3>1
    <3>3. a - b = c - d
      BY <3>2
    <3> QED  BY <3>1, <3>3
  <2> QED  BY <2>5, <2>7, <2>9, <2>10, <2>11
<1>2. IInv /\ [Next]_vars => [Keeps]_vars
  BY <1>1
<1>3. Spec => [][Keeps]_vars
  BY <1>2, InvAlways, PTL DEF Spec
<1> QED  BY <1>3 DEF GrowthKeepsPlace

-----------------------------------------------------------------------------
(* What the overlays list, and what they are of.                           *)
Items ==
  Ordinals \cup {Log[o + 1].clordid : o \in Ordinals}
    \cup {canonical(Log[o + 1]) : o \in Ordinals}

Overlays ==
  [kind : Kinds, id : Items \cup Keys \cup {None}, list : Seq(Items), cursor : Nat]

(* A row of an index of n messages, or none.                               *)
Rows(n) == 0 .. n - 1 \cup {None}

(* What the command line brings back when it is cancelled.                 *)
Views(n) == [filter : SUBSET Ordinals, visible : SUBSET (0 .. n - 1), row : Rows(n)]

KeyStates(n) ==
  [filter : SUBSET Ordinals, visible : SUBSET (0 .. n - 1), row : Rows(n),
   input_mode : {"Normal", "Command", "Search"}, command_buffer : Seq(Keys),
   command_history_idx : {None, 0}, filter_snapshot : {<< >>} \cup {<<v>> : v \in Views(n)},
   pending_prefix : {None, "y", "d", "m", "'"}, overlay : Overlays, previous_overlay : Overlays,
   diff_slots : Rows(n) \X Rows(n), bookmarks : [Digits -> Rows(n)]]

(* The cursor is on a row of the list, and that of an overlay in its list. *)
RowFits(v) == IF v.visible = {} THEN v.row = None ELSE v.row \in v.visible

CursorFits(s, o) ==
  o.cursor < Len(Listed(s, o)) \/ (o.cursor = 0 /\ Listed(s, o) = << >>)

(* The overlays and what they are drawn of.  A parked one is that of the    *)
(* families, at the order whose timeline is open.                          *)
Overlaid(s, n) ==
  /\ CursorFits(s, s.overlay) /\ CursorFits(s, s.previous_overlay)
  /\ s.overlay.kind = "Orders" => ToSet(s.overlay.list) \subseteq 0 .. n - 1
  /\ s.overlay.kind = "Diff" => s.diff_slots[1] # None /\ s.diff_slots[2] # None
  /\ s.previous_overlay.kind # "none" =>
       /\ s.previous_overlay.kind = "Consolidated" /\ s.overlay.kind = "Orders"
       /\ s.previous_overlay.cursor < Len(s.previous_overlay.list)
       /\ s.overlay.id = s.previous_overlay.list[s.previous_overlay.cursor + 1]

(* What belongs to one mode is not left behind in another.                 *)
Moded(s) ==
  /\ s.pending_prefix # None => s.input_mode = "Normal"
  /\ s.filter_snapshot # << >> <=> s.input_mode = "Command"
  /\ s.command_buffer # << >> => s.input_mode = "Command"

(* The list is that of a filter command that was typed.                    *)
Previewed(s) ==
  s.input_mode = "Command" /\ s.command_history_idx = None =>
    LET cmd == parse(s.command_buffer)
    IN /\ cmd.kind = "ClearFilter" => s.filter = Ordinals
       /\ cmd.kind = "Filter" /\ parse_query(cmd.arg) # << >> =>
            s.filter = parse_query(cmd.arg)[1]

(* What is on the screen, of an index of n messages.                       *)
Seen(s, n) ==
  /\ s \in KeyStates(n)
  /\ RowFits(s)
  /\ s.filter_snapshot # << >> => RowFits(s.filter_snapshot[1])
  /\ Overlaid(s, n)

Ready(s, n) == Seen(s, n) /\ Moded(s) /\ Previewed(s)

(* TypeOK, ParentIsDrilled and OrdinalsAreIndexed say too little of a       *)
(* parked overlay and of the list that a cancelled command brings back;    *)
(* PreviewIsKept needs to know what text the buffer is left with.           *)
InputInv ==
  /\ ConstantsFit
  /\ indexed \in 0 .. Len(Log)
  /\ running \in BOOLEAN
  /\ Ready(app, indexed)

Given == ConstantsFit /\ indexed \in 0 .. Len(Log)

-----------------------------------------------------------------------------
LEMMA LenLog ==
  ASSUME ConstantsFit
  PROVE  Len(Log) \in Nat
<1>1. Log \in Seq(ToSet(Log))
  BY DEF ConstantsFit
<1> QED  BY <1>1

LEMMA FirstOnesAre ==
  ASSUME NEW n \in Nat
  PROVE  IsFiniteSet(0 .. n - 1)
<1>1. n - 1 \in Int /\ 0 \in Int
  OBVIOUS
<1>2. /\ IsFiniteSet(0 .. n - 1)
      /\ Cardinality(0 .. n - 1) = IF 0 > n - 1 THEN 0 ELSE n - 1 - 0 + 1
  BY <1>1, FS_Interval
<1> QED  BY <1>2

LEMMA Image ==
  ASSUME NEW n \in Nat, NEW f, f = [o \in 0 .. n - 1 |-> f[o]]
  PROVE  IsFiniteSet({f[o] : o \in 0 .. n - 1})
<1> DEFINE T == {f[o] : o \in 0 .. n - 1}
<1>1. IsFiniteSet(0 .. n - 1)
  BY FirstOnesAre
<1>2. f \in Surjection(0 .. n - 1, T)
  BY DEF Surjection
<1> HIDE DEF T
<1>3. IsFiniteSet(T)
  BY <1>1, <1>2, FS_Surjection
<1> QED  BY <1>3 DEF T

LEMMA SubsetsAreFinite ==
  ASSUME NEW n \in Nat, NEW S \in SUBSET (0 .. n - 1)
  PROVE  IsFiniteSet(S) /\ S \subseteq Nat /\ S \subseteq Int
<1>1. IsFiniteSet(0 .. n - 1)
  BY FirstOnesAre
<1>2. IsFiniteSet(S)
  BY <1>1, FS_Subset
<1> QED  BY <1>2

LEMMA LastIsShown ==
  ASSUME NEW n \in Nat, NEW S \in SUBSET (0 .. n - 1)
  PROVE  LastOf(S) \in Rows(n) /\ (IF S = {} THEN LastOf(S) = None ELSE LastOf(S) \in S)
<1>1. IsFiniteSet(S) /\ S \subseteq Int
  BY SubsetsAreFinite
<1>2. S # {} => Max(S) \in S
  BY <1>1, GreatestIs
<1> QED  BY <1>2 DEF LastOf, Rows

LEMMA TimelineIs ==
  ASSUME Given, NEW id
  PROVE  Timeline(id) \in Seq(Items) /\ ToSet(Timeline(id)) \subseteq 0 .. indexed - 1
<1> DEFINE S == {o \in 0 .. indexed - 1 : Log[o + 1].clordid = id}
<1>1. Len(Log) \in Nat /\ indexed \in Nat /\ indexed <= Len(Log)
  BY LenLog DEF Given
<1>2. S \in SUBSET (0 .. indexed - 1)
  OBVIOUS
<1>3. IsFiniteSet(S) /\ S \subseteq Nat
  <2> HIDE DEF S
  <2> QED  BY <1>1, <1>2, SubsetsAreFinite
<1>4. Ascending(S) \in Seq(S)
  <2> HIDE DEF S
  <2> QED  BY <1>3, AscendingIs
<1>5. S \subseteq Items
  BY <1>1 DEF Items, Ordinals
<1>6. Timeline(id) = Ascending(S)
  BY DEF Timeline
<1> HIDE DEF S
<1>7. Ascending(S) \in [1 .. Len(Ascending(S)) -> S] /\ Len(Ascending(S)) \in Nat
  BY <1>4
<1>8. Ascending(S) \in Seq(Items)
  BY <1>5, <1>7
<1>9. ToSet(Ascending(S)) \subseteq S
  BY <1>7 DEF ToSet
<1> QED  BY <1>2, <1>6, <1>8, <1>9

LEMMA FamiliesAre ==
  ASSUME Given
  PROVE  Families \in Seq(Items)
<1> DEFINE f == [o \in 0 .. indexed - 1 |-> Log[o + 1].clordid]
           S == {f[o] : o \in 0 .. indexed - 1}
<1>1. Len(Log) \in Nat /\ indexed \in Nat /\ indexed <= Len(Log)
  BY LenLog DEF Given
<1>2. f = [o \in 0 .. indexed - 1 |-> f[o]]
  OBVIOUS
<1>3. IsFiniteSet(S)
  <2> HIDE DEF f
  <2> QED  BY <1>1, <1>2, Image
<1>4. ClOrdIDs \in SUBSET S
  BY DEF ClOrdIDs
<1>5. S \subseteq Items
  BY <1>1 DEF Items, Ordinals
<1> HIDE DEF S
<1>6. IsFiniteSet(ClOrdIDs)
  BY <1>3, <1>4, FS_Subset
<1>7. Families \in Seq(ClOrdIDs)
  BY <1>6, AnyOrderIs DEF Families
<1>8. Families \in [1 .. Len(Families) -> ClOrdIDs] /\ Len(Families) \in Nat
  BY <1>7
<1> QED  BY <1>4, <1>5, <1>8

LEMMA SessionsAre ==
  ASSUME Given
  PROVE  Sessions \in Seq(Items)
<1> DEFINE f == [o \in 0 .. indexed - 1 |-> canonical(Log[o + 1])]
           S == {f[o] : o \in 0 .. indexed - 1}
<1>1. Len(Log) \in Nat /\ indexed \in Nat /\ indexed <= Len(Log)
  BY LenLog DEF Given
<1>2. f = [o \in 0 .. indexed - 1 |-> f[o]]
  OBVIOUS
<1>3. IsFiniteSet(S)
  <2> HIDE DEF f
  <2> QED  BY <1>1, <1>2, Image
<1>4. S = {canonical(Log[o + 1]) : o \in 0 .. indexed - 1}
  OBVIOUS
<1>5. S \subseteq Items
  BY <1>1 DEF Items, Ordinals
<1> HIDE DEF S
<1>7. Sessions \in Seq(S)
  BY <1>3, <1>4, AnyOrderIs DEF Sessions
<1>8. Sessions \in [1 .. Len(Sessions) -> S] /\ Len(Sessions) \in Nat
  BY <1>7
<1> QED  BY <1>5, <1>8

LEMMA BookmarksAre ==
  ASSUME ConstantsFit, NEW n \in 0 .. Len(Log), NEW s, s.bookmarks \in [Digits -> Rows(n)]
  PROVE  /\ Entries(s) \in Seq(0 .. n - 1)
         /\ Len(Entries(s)) = Cardinality({c \in Digits : s.bookmarks[c] # None})
         /\ IsFiniteSet({c \in Digits : s.bookmarks[c] # None})
<1> DEFINE S == {c \in Digits : s.bookmarks[c] # None}
<1>1. S \in SUBSET (0 .. 10 - 1)
  <2>1. S \subseteq Digits
    OBVIOUS
  <2>2. Digits \subseteq 0 .. 9
    BY DEF ConstantsFit
  <2>3. 0 .. 9 \subseteq 0 .. 10 - 1
    OBVIOUS
  <2> HIDE DEF S
  <2> QED  BY <2>1, <2>2, <2>3
<1>2. IsFiniteSet(S) /\ S \subseteq Nat
  <2> HIDE DEF S
  <2> QED  BY <1>1, SubsetsAreFinite
<1>3. /\ Ascending(S) \in Seq(S) /\ Len(Ascending(S)) = Cardinality(S)
      /\ Cardinality(S) \in Nat
  <2> HIDE DEF S
  <2> QED  BY <1>2, AscendingIs
<1>4. Entries(s) = [i \in DOMAIN Ascending(S) |-> s.bookmarks[Ascending(S)[i]]]
  BY DEF Entries
<1>5. \A c \in S : s.bookmarks[c] \in 0 .. n - 1
  BY DEF Rows
<1> HIDE DEF S
<1>6. /\ DOMAIN Ascending(S) = 1 .. Cardinality(S)
      /\ \A i \in 1 .. Cardinality(S) : Ascending(S)[i] \in S
  BY <1>3
<1>7. Entries(s) \in [1 .. Cardinality(S) -> 0 .. n - 1]
  BY <1>4, <1>5, <1>6
<1>8. Entries(s) \in Seq(0 .. n - 1) /\ Len(Entries(s)) = Cardinality(S)
  BY <1>3, <1>7
<1> QED  BY <1>2, <1>8 DEF S

-----------------------------------------------------------------------------
(* What the operators of a state leave of it.                              *)
LEMMA ListedIs ==
  ASSUME ConstantsFit, NEW n \in 0 .. Len(Log), NEW s \in KeyStates(n), NEW o \in Overlays
  PROVE  /\ Listed(s, o) \in Seq(Items) /\ Len(Listed(s, o)) \in Nat
         /\ Listed(s, o) = << >> <=> Len(Listed(s, o)) = 0
         /\ o.kind = "Marks" => Listed(s, o) \in Seq(0 .. n - 1)
<1>1. s.bookmarks \in [Digits -> Rows(n)] /\ o.list \in Seq(Items)
  BY DEF KeyStates, Overlays
<1>2. Entries(s) \in Seq(0 .. n - 1)
  BY <1>1, BookmarksAre
<1>3. Len(Log) \in Nat /\ 0 .. n - 1 \subseteq Items
  BY LenLog DEF Items, Ordinals
<1>4. Entries(s) \in [1 .. Len(Entries(s)) -> 0 .. n - 1] /\ Len(Entries(s)) \in Nat
  BY <1>2
<1>5. Entries(s) \in Seq(Items)
  BY <1>3, <1>4
<1>6. Listed(s, o) \in Seq(Items)
  BY <1>1, <1>5 DEF Listed
<1>7. o.kind = "Marks" => Listed(s, o) \in Seq(0 .. n - 1)
  BY <1>2 DEF Listed
<1> QED  BY <1>6, <1>7

(* Nothing that is seen has changed, or nothing but the list.              *)
LEMMA StaysSeen ==
  ASSUME NEW n, NEW s, NEW t \in KeyStates(n), Seen(s, n),
         t.visible = s.visible, t.row = s.row, t.filter_snapshot = s.filter_snapshot,
         t.overlay = s.overlay, t.previous_overlay = s.previous_overlay,
         t.diff_slots = s.diff_slots, t.bookmarks = s.bookmarks
  PROVE  Seen(t, n)
<1>1. \A o : Listed(t, o) = Listed(s, o)
  BY DEF Listed, Entries
<1>2. Overlaid(t, n)
  BY <1>1 DEF Seen, Overlaid, CursorFits
<1> QED  BY <1>2 DEF Seen, RowFits

LEMMA RowsSeen ==
  ASSUME NEW n, NEW s, NEW t \in KeyStates(n), Seen(s, n), RowFits(t),
         t.filter_snapshot = s.filter_snapshot,
         t.overlay = s.overlay, t.previous_overlay = s.previous_overlay,
         t.diff_slots = s.diff_slots, t.bookmarks = s.bookmarks
  PROVE  Seen(t, n)
<1>1. \A o : Listed(t, o) = Listed(s, o)
  BY DEF Listed, Entries
<1>2. Overlaid(t, n)
  BY <1>1 DEF Seen, Overlaid, CursorFits
<1> QED  BY <1>2 DEF Seen

LEMMA OpenIs ==
  ASSUME NEW kind \in Kinds, NEW id \in Items \cup Keys \cup {None}, NEW list \in Seq(Items)
  PROVE  /\ Open(kind, id, list) \in Overlays /\ Open(kind, id, list).cursor = 0
         /\ Open(kind, id, list).kind = kind /\ Open(kind, id, list).list = list
         /\ Open(kind, id, list).id = id
BY DEF Open, Overlays

LEMMA NoneIsOpen ==
  /\ NoOverlay \in Overlays /\ NoOverlay.cursor = 0 /\ NoOverlay.kind = "none"
  /\ NoOverlay.list = << >>
<1>1. << >> \in Seq(Items) /\ "none" \in Kinds /\ None \in Items \cup Keys \cup {None}
  BY DEF Kinds
<1>2. /\ Open("none", None, << >>) \in Overlays /\ Open("none", None, << >>).cursor = 0
      /\ Open("none", None, << >>).kind = "none"
      /\ Open("none", None, << >>).list = << >>
  BY <1>1 DEF Open, Overlays
<1> QED  BY <1>2 DEF NoOverlay

(* open_overlay, of the same state but for the diff slots.                 *)
LEMMA OverlaySeen ==
  ASSUME ConstantsFit, NEW n \in 0 .. Len(Log), NEW s, Seen(s, n), NEW new \in Overlays,
         new.cursor = 0, new.kind = "Orders" => ToSet(new.list) \subseteq 0 .. n - 1,
         new.kind = "Diff" => s.diff_slots[1] # None /\ s.diff_slots[2] # None
  PROVE  Seen(open_overlay(s, new), n)
<1> DEFINE t == open_overlay(s, new)
<1>1. /\ t.visible = s.visible /\ t.row = s.row /\ t.filter_snapshot = s.filter_snapshot
      /\ t.overlay = new /\ t.previous_overlay = NoOverlay
      /\ t.diff_slots = s.diff_slots /\ t.bookmarks = s.bookmarks
  BY DEF open_overlay, Seen, KeyStates
<1>2. t \in KeyStates(n)
  BY NoneIsOpen DEF open_overlay, Seen, KeyStates
<1> HIDE DEF t
<1>3. CursorFits(t, new) /\ CursorFits(t, NoOverlay)
  BY <1>2, NoneIsOpen, ListedIs DEF CursorFits
<1>4. Overlaid(t, n)
  BY <1>1, <1>3, NoneIsOpen DEF Overlaid
<1>5. Seen(t, n)
  BY <1>1, <1>2, <1>4 DEF Seen, RowFits
<1> QED  BY <1>5 DEF t

LEMMA CloseSeen ==
  ASSUME ConstantsFit, NEW n \in 0 .. Len(Log), NEW s, Seen(s, n)
  PROVE  Seen(close_overlay(s), n)
BY OverlaySeen, NoneIsOpen DEF close_overlay

LEMMA EscSeen ==
  ASSUME ConstantsFit, NEW n \in 0 .. Len(Log), NEW s, Seen(s, n)
  PROVE  Seen(esc_overlay(s), n)
<1> DEFINE t == esc_overlay(s)
<1>1. /\ t.visible = s.visible /\ t.row = s.row /\ t.filter_snapshot = s.filter_snapshot
      /\ t.overlay = s.previous_overlay /\ t.previous_overlay = NoOverlay
      /\ t.diff_slots = s.diff_slots /\ t.bookmarks = s.bookmarks
  BY DEF esc_overlay, Seen, KeyStates
<1>2. t \in KeyStates(n)
  BY NoneIsOpen DEF esc_overlay, Seen, KeyStates
<1> HIDE DEF t
<1>3. CursorFits(t, NoOverlay)
  BY <1>2, NoneIsOpen, ListedIs DEF CursorFits
<1>4. \A o : Listed(t, o) = Listed(s, o)
  BY <1>1 DEF Listed, Entries
<1>5. Overlaid(t, n)
  BY <1>1, <1>3, <1>4, NoneIsOpen DEF Overlaid, CursorFits, Seen
<1>6. Seen(t, n)
  BY <1>1, <1>2, <1>5 DEF Seen, RowFits
<1> QED  BY <1>6 DEF t

LEMMA OrdersSeen ==
  ASSUME Given, NEW s, Seen(s, indexed), NEW id \in Items \cup Keys \cup {None}
  PROVE  Seen(open_orders_overlay(s, id), indexed)
<1>1. Timeline(id) \in Seq(Items) /\ ToSet(Timeline(id)) \subseteq 0 .. indexed - 1
  BY TimelineIs
<1> DEFINE new == Open("Orders", id, Timeline(id))
<1>2. new \in Overlays /\ new.cursor = 0 /\ new.kind = "Orders" /\ new.list = Timeline(id)
  BY <1>1, OpenIs DEF Kinds
<1>3. Seen(open_overlay(s, new), indexed)
  BY <1>1, <1>2, OverlaySeen DEF Given
<1> QED  BY <1>3 DEF open_orders_overlay

LEMMA FilterSeen ==
  ASSUME Given, NEW s, Seen(s, indexed), NEW filter \in SUBSET Ordinals
  PROVE  /\ Seen(filtered(s, filter), indexed)
         /\ filtered(s, filter).filter = filter
<1> DEFINE visible == filter \cap 0 .. indexed - 1
           t == filtered(s, filter)
<1>1. indexed \in Nat /\ visible \in SUBSET (0 .. indexed - 1)
  BY LenLog DEF Given
<1>2. /\ LastOf(visible) \in Rows(indexed)
      /\ IF visible = {} THEN LastOf(visible) = None ELSE LastOf(visible) \in visible
  <2> HIDE DEF visible
  <2> QED  BY <1>1, LastIsShown
<1>3. t = [s EXCEPT !.filter = filter, !.visible = visible, !.row = LastOf(visible)]
  BY DEF filtered
<1> HIDE DEF visible, t
<1>4. /\ t.visible = visible /\ t.row = LastOf(visible)
      /\ t.filter_snapshot = s.filter_snapshot
      /\ t.overlay = s.overlay /\ t.previous_overlay = s.previous_overlay
      /\ t.diff_slots = s.diff_slots /\ t.bookmarks = s.bookmarks /\ t.filter = filter
  BY <1>3 DEF Seen, KeyStates
<1>5. t \in KeyStates(indexed)
  BY <1>1, <1>2, <1>3 DEF Seen, KeyStates
<1>6. RowFits(t)
  BY <1>2, <1>4 DEF RowFits
<1> QED  BY <1>4, <1>5, <1>6, RowsSeen DEF t

LEMMA RowSeen ==
  ASSUME NEW n, NEW s, Seen(s, n), NEW r \in s.visible
  PROVE  Seen([s EXCEPT !.row = r], n)
<1> DEFINE t == [s EXCEPT !.row = r]
<1>1. /\ t.visible = s.visible /\ t.row = r /\ t.filter_snapshot = s.filter_snapshot
      /\ t.overlay = s.overlay /\ t.previous_overlay = s.previous_overlay
      /\ t.diff_slots = s.diff_slots /\ t.bookmarks = s.bookmarks
  BY DEF Seen, KeyStates
<1>2. t \in KeyStates(n)
  BY DEF Seen, KeyStates, Rows
<1> HIDE DEF t
<1>3. RowFits(t)
  BY <1>1 DEF RowFits
<1>4. Seen(t, n)
  BY <1>1, <1>2, <1>3, RowsSeen
<1> QED  BY <1>4 DEF t

(* taken, and what else the modes change.                                  *)
LEMMA ModeSeen ==
  ASSUME NEW n, NEW s, Seen(s, n), NEW prefix \in {None, "y", "d", "m", "'"},
         NEW mode \in {"Normal", "Command", "Search"},
         NEW line \in Seq(Keys), NEW idx \in {None, 0}
  PROVE  /\ Seen([s EXCEPT !.pending_prefix = prefix], n)
         /\ Seen([s EXCEPT !.input_mode = mode], n)
         /\ Seen([s EXCEPT !.command_buffer = line, !.command_history_idx = idx], n)
<1>1. ASSUME NEW t \in KeyStates(n),
             t.visible = s.visible, t.row = s.row, t.filter_snapshot = s.filter_snapshot,
             t.overlay = s.overlay, t.previous_overlay = s.previous_overlay,
             t.diff_slots = s.diff_slots, t.bookmarks = s.bookmarks
      PROVE  Seen(t, n)
  BY <1>1, StaysSeen
<1>2. Seen([s EXCEPT !.pending_prefix = prefix], n)
  <2> DEFINE t == [s EXCEPT !.pending_prefix = prefix]
  <2>1. /\ t.visible = s.visible /\ t.row = s.row /\ t.filter_snapshot = s.filter_snapshot
        /\ t.overlay = s.overlay /\ t.previous_overlay = s.previous_overlay
        /\ t.diff_slots = s.diff_slots /\ t.bookmarks = s.bookmarks /\ t \in KeyStates(n)
    BY DEF Seen, KeyStates
  <2> HIDE DEF t
  <2>2. Seen(t, n)
    BY <1>1, <2>1
  <2> QED  BY <2>2 DEF t
<1>3. Seen([s EXCEPT !.input_mode = mode], n)
  <2> DEFINE t == [s EXCEPT !.input_mode = mode]
  <2>1. /\ t.visible = s.visible /\ t.row = s.row /\ t.filter_snapshot = s.filter_snapshot
        /\ t.overlay = s.overlay /\ t.previous_overlay = s.previous_overlay
        /\ t.diff_slots = s.diff_slots /\ t.bookmarks = s.bookmarks /\ t \in KeyStates(n)
    BY DEF Seen, KeyStates
  <2> HIDE DEF t
  <2>2. Seen(t, n)
    BY <1>1, <2>1
  <2> QED  BY <2>2 DEF t
<1>4. Seen([s EXCEPT !.command_buffer = line, !.command_history_idx = idx], n)
  <2> DEFINE t == [s EXCEPT !.command_buffer = line, !.command_history_idx = idx]
  <2>1. /\ t.visible = s.visible /\ t.row = s.row /\ t.filter_snapshot = s.filter_snapshot
        /\ t.overlay = s.overlay /\ t.previous_overlay = s.previous_overlay
        /\ t.diff_slots = s.diff_slots /\ t.bookmarks = s.bookmarks /\ t \in KeyStates(n)
    BY DEF Seen, KeyStates
  <2> HIDE DEF t
  <2>2. Seen(t, n)
    BY <1>1, <2>1
  <2> QED  BY <2>2 DEF t
<1> QED  BY <1>2, <1>3, <1>4

LEMMA SlotSeen ==
  ASSUME ConstantsFit, NEW n \in 0 .. Len(Log), NEW s, Seen(s, n), NEW slot \in {1, 2}
  PROVE  Seen(set_diff_slot(s, slot), n)
<1> DEFINE t == [s EXCEPT !.diff_slots[slot] = s.row]
<1>1. CASE s.visible = {}
  BY <1>1 DEF set_diff_slot
<1>2. CASE s.visible # {}
  <2>1. s.row # None
    <3>1. s.row \in 0 .. n - 1 /\ n \in 0 .. Len(Log) /\ Len(Log) \in Nat
      BY <1>2, LenLog DEF Seen, RowFits, KeyStates
    <3>2. s.row \in Ordinals
      BY <3>1 DEF Ordinals
    <3> QED  BY <3>2 DEF ConstantsFit
  <2>2. /\ t.visible = s.visible /\ t.row = s.row /\ t.filter_snapshot = s.filter_snapshot
        /\ t.overlay = s.overlay /\ t.previous_overlay = s.previous_overlay
        /\ t.bookmarks = s.bookmarks
        /\ s.diff_slots[1] # None => t.diff_slots[1] # None
        /\ s.diff_slots[2] # None => t.diff_slots[2] # None
    BY <2>1 DEF Seen, KeyStates
  <2>3. t \in KeyStates(n)
    <3> DEFINE slots == [s.diff_slots EXCEPT ![slot] = s.row]
    <3>1. s.diff_slots \in Rows(n) \X Rows(n) /\ s.row \in Rows(n)
      BY DEF Seen, KeyStates
    <3>2. slots \in Rows(n) \X Rows(n)
      BY <3>1
    <3>3. t = [s EXCEPT !.diff_slots = slots]
      OBVIOUS
    <3> HIDE DEF slots, t
    <3> QED  BY <3>2, <3>3 DEF Seen, KeyStates
  <2> HIDE DEF t
  <2>4. \A o : Listed(t, o) = Listed(s, o)
    BY <2>2 DEF Listed, Entries
  <2>5. Overlaid(t, n)
    BY <2>2, <2>4 DEF Seen, Overlaid, CursorFits
  <2>6. Seen(t, n)
    BY <2>2, <2>3, <2>5 DEF Seen, RowFits
  <2> DEFINE new == Open("Diff", None, << >>)
  <2>7. new \in Overlays /\ new.cursor = 0 /\ new.kind = "Diff"
    BY DEF Open, Overlays, Kinds
  <2> HIDE DEF new
  <2>8. t.diff_slots[1] # None /\ t.diff_slots[2] # None => Seen(open_overlay(t, new), n)
    BY <2>6, <2>7, OverlaySeen
  <2>9. \/ set_diff_slot(s, slot) = t
        \/ /\ t.diff_slots[1] # None /\ t.diff_slots[2] # None
           /\ set_diff_slot(s, slot) = open_overlay(t, new)
    BY <1>2 DEF set_diff_slot, t, new
  <2> QED  BY <2>6, <2>8, <2>9
<1> QED  BY <1>1, <1>2

(* A bookmark under the open list of them: it may only get longer.         *)
LEMMA BookmarkSeen ==
  ASSUME ConstantsFit, NEW n \in 0 .. Len(Log), NEW s, Seen(s, n), NEW c \in Digits
  PROVE  Seen(bookmarked(s, c), n)
<1> DEFINE t == [s EXCEPT !.bookmarks[c] = s.row]
<1>1. CASE s.visible = {}
  BY <1>1 DEF bookmarked
<1>2. CASE s.visible # {}
  <2>1. s.row # None
    <3>1. s.row \in 0 .. n - 1 /\ n \in 0 .. Len(Log) /\ Len(Log) \in Nat
      BY <1>2, LenLog DEF Seen, RowFits, KeyStates
    <3>2. s.row \in Ordinals
      BY <3>1 DEF Ordinals
    <3> QED  BY <3>2 DEF ConstantsFit
  <2>2. /\ t.visible = s.visible /\ t.row = s.row /\ t.filter_snapshot = s.filter_snapshot
        /\ t.overlay = s.overlay /\ t.previous_overlay = s.previous_overlay
        /\ t.diff_slots = s.diff_slots
        /\ \A d \in Digits : s.bookmarks[d] # None => t.bookmarks[d] # None
    BY <2>1 DEF Seen, KeyStates
  <2>3. t \in KeyStates(n)
    BY DEF Seen, KeyStates
  <2> HIDE DEF t
  <2> DEFINE S == {d \in Digits : s.bookmarks[d] # None}
             T == {d \in Digits : t.bookmarks[d] # None}
  <2>4. /\ Len(Entries(s)) = Cardinality(S) /\ Entries(s) \in Seq(0 .. n - 1)
        /\ Len(Entries(t)) = Cardinality(T) /\ Entries(t) \in Seq(0 .. n - 1)
        /\ IsFiniteSet(T)
    <3>1. s.bookmarks \in [Digits -> Rows(n)] /\ t.bookmarks \in [Digits -> Rows(n)]
      BY <2>3 DEF Seen, KeyStates
    <3>2. Len(Entries(s)) = Cardinality(S) /\ Entries(s) \in Seq(0 .. n - 1)
      BY <3>1, BookmarksAre
    <3>3. /\ Len(Entries(t)) = Cardinality(T) /\ Entries(t) \in Seq(0 .. n - 1)
          /\ IsFiniteSet(T)
      BY <3>1, BookmarksAre
    <3> QED  BY <3>2, <3>3
  <2>5. S \in SUBSET T
    BY <2>2
  <2> HIDE DEF S, T
  <2>6. Cardinality(S) <= Cardinality(T)
    BY <2>4, <2>5, FS_Subset
  <2>7. /\ Len(Entries(s)) \in Nat /\ Len(Entries(t)) \in Nat
        /\ Len(Entries(s)) <= Len(Entries(t))
    BY <2>4, <2>6
  <2>8. Entries(t) = << >> \/ 0 < Len(Entries(t))
    BY <2>4
  <2>9. ASSUME NEW o \in Overlays, CursorFits(s, o) PROVE CursorFits(t, o)
    <3>1. CASE o.kind # "Marks"
      BY <2>9, <3>1 DEF CursorFits, Listed
    <3>2. CASE o.kind = "Marks"
      <4>1. o.cursor \in Nat
        BY DEF Overlays
      <4>2. o.cursor < Len(Entries(s)) \/ (o.cursor = 0 /\ Entries(s) = << >>)
        BY <2>9, <3>2 DEF CursorFits, Listed
      <4>3. o.cursor < Len(Entries(t)) \/ (o.cursor = 0 /\ Entries(t) = << >>)
        BY <2>7, <2>8, <4>1, <4>2
      <4> QED  BY <3>2, <4>3 DEF CursorFits, Listed
    <3> QED  BY <3>1, <3>2
  <2>10. s.overlay \in Overlays /\ s.previous_overlay \in Overlays
    BY DEF Seen, KeyStates
  <2>11. Overlaid(t, n)
    BY <2>2, <2>9, <2>10 DEF Seen, Overlaid
  <2>12. Seen(t, n)
    BY <2>2, <2>3, <2>11 DEF Seen, RowFits
  <2> QED  BY <1>2, <2>12 DEF bookmarked, t
<1> QED  BY <1>1, <1>2

LEMMA JumpSeen ==
  ASSUME NEW n, NEW s, Seen(s, n), NEW c
  PROVE  Seen(jumped(s, c), n)
BY RowSeen DEF jumped

(* What is left of the modes and of the command line.                      *)
SameMode(t, s) ==
  /\ t.input_mode = s.input_mode /\ t.pending_prefix = s.pending_prefix
  /\ t.filter_snapshot = s.filter_snapshot
  /\ t.command_buffer = s.command_buffer /\ t.command_history_idx = s.command_history_idx

LEMMA OverlayModes ==
  ASSUME NEW n, NEW s \in KeyStates(n)
  PROVE  /\ \A new : SameMode(open_overlay(s, new), s)
         /\ SameMode(esc_overlay(s), s)
         /\ SameMode(close_overlay(s), s)
         /\ \A id : SameMode(open_orders_overlay(s, id), s)
<1>1. ASSUME NEW new PROVE SameMode(open_overlay(s, new), s)
  BY DEF open_overlay, SameMode, KeyStates
<1>2. SameMode(esc_overlay(s), s)
  BY DEF esc_overlay, SameMode, KeyStates
<1>3. SameMode(s, s)
  BY DEF SameMode
<1> QED  BY <1>1, <1>2, <1>3 DEF close_overlay, open_orders_overlay

LEMMA ListModes ==
  ASSUME NEW n, NEW s \in KeyStates(n)
  PROVE  /\ \A filter : SameMode(filtered(s, filter), s)
         /\ \A r : SameMode([s EXCEPT !.row = r], s)
         /\ \A c : SameMode(bookmarked(s, c), s)
         /\ \A c : SameMode(jumped(s, c), s)
         /\ \A slot \in {1, 2} : SameMode(set_diff_slot(s, slot), s)
<1>1. ASSUME NEW filter PROVE SameMode(filtered(s, filter), s)
  BY DEF filtered, SameMode, KeyStates
<1>2. ASSUME NEW r PROVE SameMode([s EXCEPT !.row = r], s)
  BY DEF SameMode, KeyStates
<1>3. ASSUME NEW c PROVE SameMode(bookmarked(s, c), s) /\ SameMode(jumped(s, c), s)
  BY <1>2 DEF bookmarked, jumped, SameMode, KeyStates
<1>4. ASSUME NEW slot \in {1, 2} PROVE SameMode(set_diff_slot(s, slot), s)
  <2> DEFINE t == [s EXCEPT !.diff_slots[slot] = s.row]
  <2>1. SameMode(t, s) /\ SameMode(s, s)
    BY DEF SameMode, KeyStates
  <2>2. ASSUME NEW new PROVE SameMode(open_overlay(t, new), s)
    BY DEF open_overlay, SameMode, KeyStates
  <2> QED  BY <2>1, <2>2 DEF set_diff_slot
<1> QED  BY <1>1, <1>2, <1>3, <1>4

LEMMA NormalReady ==
  ASSUME NEW n, NEW s, Moded(s), s.input_mode = "Normal",
         NEW t, Seen(t, n), SameMode(t, s)
  PROVE  Ready(t, n)
<1>1. Moded(t)
  BY DEF Moded, SameMode
<1>2. Previewed(t)
  BY DEF Previewed, SameMode
<1> QED  BY <1>1, <1>2 DEF Ready

LEMMA TakenReady ==
  ASSUME NEW n, NEW s, Ready(s, n)
  PROVE  Ready([s EXCEPT !.pending_prefix = None], n)
<1> DEFINE t == [s EXCEPT !.pending_prefix = None]
<1>1. Seen(t, n)
  <2>1. "Normal" \in {"Normal", "Command", "Search"} /\ << >> \in Seq(Keys)
    OBVIOUS
  <2> QED  BY <2>1, ModeSeen DEF Ready
<1>2. /\ t.input_mode = s.input_mode /\ t.pending_prefix = None /\ t.filter = s.filter
      /\ t.filter_snapshot = s.filter_snapshot
      /\ t.command_buffer = s.command_buffer
      /\ t.command_history_idx = s.command_history_idx
  BY DEF Ready, Seen, KeyStates
<1> HIDE DEF t
<1>3. Moded(t)
  BY <1>2 DEF Moded, Ready
<1>4. Previewed(t)
  BY <1>2 DEF Previewed, Ready
<1>5. Ready(t, n)
  BY <1>1, <1>3, <1>4 DEF Ready
<1> QED  BY <1>5 DEF t

LEMMA EventKeeps ==
  ASSUME InputInv, NEW t, Ready(t, indexed), Event(t)
  PROVE  InputInv'
<1>1. app' = t /\ indexed' = indexed /\ running' = running
  BY DEF Event
<1>2. Ready(app', indexed')
  BY <1>1
<1> QED  BY <1>1, <1>2 DEF InputInv, ConstantsFit

-----------------------------------------------------------------------------
(* The command line.                                                       *)
LEMMA SplitIs ==
  ASSUME NEW line \in Seq(Keys)
  PROVE  Split(line)[1] \in Seq(Keys) /\ Split(line)[2] \in Seq(Keys)
<1> DEFINE blanks == {i \in DOMAIN line : line[i] = " "}
<1>1. Len(line) \in Nat /\ DOMAIN line = 1 .. Len(line)
  OBVIOUS
<1>2. CASE blanks = {}
  <2>1. Split(line) = <<line, << >>>>
    BY <1>2 DEF Split
  <2> QED  BY <2>1
<1>3. CASE blanks # {}
  <2> DEFINE at == Min(blanks)
  <2>1. IsFiniteSet(1 .. Len(line))
    <3>1. 1 \in Int /\ Len(line) \in Int
      BY <1>1
    <3>2. /\ IsFiniteSet(1 .. Len(line))
          /\ Cardinality(1 .. Len(line)) = IF 1 > Len(line) THEN 0 ELSE Len(line) - 1 + 1
      BY <3>1, FS_Interval
    <3> QED  BY <3>2
  <2>2. blanks \in SUBSET (1 .. Len(line))
    BY <1>1
  <2> HIDE DEF blanks
  <2>3. IsFiniteSet(blanks) /\ blanks \in SUBSET Int
    <3>1. IsFiniteSet(blanks)
      BY <2>1, <2>2, FS_Subset
    <3> QED  BY <2>2, <3>1
  <2>4. at \in 1 .. Len(line)
    BY <1>3, <2>2, <2>3, LeastIs
  <2>5. Split(line) = <<SubSeq(line, 1, at - 1), SubSeq(line, at + 1, Len(line))>>
    BY <1>3 DEF Split, blanks
  <2> HIDE DEF at
  <2>6. /\ SubSeq(line, 1, at - 1) \in Seq(Keys)
        /\ SubSeq(line, at + 1, Len(line)) \in Seq(Keys)
    BY <1>1, <2>4
  <2> QED  BY <2>5, <2>6
<1> QED  BY <1>2, <1>3

LEMMA CommandIs ==
  ASSUME ConstantsFit, NEW line \in Seq(Keys), NEW cmd, cmd = parse(line)
  PROVE  /\ cmd.arg \in Seq(Keys)
         /\ cmd.kind = "ClearFilter" => Split(line)[1] = <<"f">> /\ Split(line)[2] = << >>
         /\ cmd.kind = "Filter" =>
              /\ Split(line)[1] = <<"f">> /\ Split(line)[2] # << >>
              /\ cmd.arg = Split(line)[2]
<1> DEFINE head == Split(line)[1]
           rest == Split(line)[2]
<1>1. head \in Seq(Keys) /\ rest \in Seq(Keys)
  BY SplitIs
<1>2. cmd = IF Len(head) # 1 \/ Head(head) \notin DOMAIN Words
            THEN [kind |-> "Unknown", arg |-> << >>]
            ELSE [kind |-> IF Words[Head(head)] = "Filter" /\ rest = << >> THEN "ClearFilter"
                           ELSE Words[Head(head)],
                  arg |-> rest]
  BY DEF parse
<1> HIDE DEF head, rest
<1>3. CASE Len(head) # 1 \/ Head(head) \notin DOMAIN Words
  BY <1>2, <1>3
<1>4. CASE Len(head) = 1 /\ Head(head) \in DOMAIN Words
  <2>1. head = <<Head(head)>>
    BY <1>1, <1>4
  <2>2. Words[Head(head)] # "ClearFilter" /\ (Words[Head(head)] = "Filter" => Head(head) = "f")
    BY <1>4 DEF ConstantsFit
  <2>3. /\ cmd.arg = rest
        /\ cmd.kind = IF Words[Head(head)] = "Filter" /\ rest = << >> THEN "ClearFilter"
                       ELSE Words[Head(head)]
    BY <1>2, <1>4
  <2>4. cmd.kind \in {"ClearFilter", "Filter"} => Words[Head(head)] = "Filter"
    BY <2>2, <2>3
  <2>5. cmd.kind = "ClearFilter" => rest = << >>
    BY <2>2, <2>3
  <2>6. cmd.kind = "Filter" => rest # << >>
    BY <2>2, <2>3
  <2> QED  BY <1>1, <2>1, <2>2, <2>3, <2>4, <2>5, <2>6 DEF head, rest
<1> QED  BY <1>3, <1>4

LEMMA QueryIs ==
  ASSUME NEW text
  PROVE  parse_query(text) # << >> => parse_query(text)[1] \in SUBSET Ordinals
BY DEF parse_query

LEMMA PreviewSeen ==
  ASSUME Given, NEW s, Seen(s, indexed)
  PROVE  /\ Seen(live_preview(s), indexed)
         /\ SameMode(live_preview(s), s)
         /\ Previewed(live_preview(s))
<1> DEFINE t == live_preview(s)
           expr == Split(s.command_buffer)[2]
<1>1. /\ Ordinals \in SUBSET Ordinals /\ s \in KeyStates(indexed)
      /\ s.command_buffer \in Seq(Keys)
  BY DEF Seen, KeyStates
<1>2. PICK cmd : cmd = parse(s.command_buffer)
  OBVIOUS
<1>3. /\ cmd.kind = "ClearFilter" => Split(s.command_buffer)[1] = <<"f">> /\ expr = << >>
      /\ cmd.kind = "Filter" =>
           Split(s.command_buffer)[1] = <<"f">> /\ expr # << >> /\ cmd.arg = expr
  BY <1>1, <1>2, CommandIs DEF Given
<1>4. \A filter \in SUBSET Ordinals : Seen(filtered(s, filter), indexed)
        /\ filtered(s, filter).filter = filter
        /\ SameMode(filtered(s, filter), s)
  BY <1>1, FilterSeen, ListModes
<1>5. SameMode(s, s)
  BY DEF SameMode
<1> DEFINE q == parse_query(expr)
<1>6. q # << >> => q[1] \in SUBSET Ordinals
  BY QueryIs
<1>7. t = IF Split(s.command_buffer)[1] # <<"f">> THEN s
          ELSE IF expr = << >> THEN filtered(s, Ordinals)
          ELSE IF q # << >> THEN filtered(s, q[1])
          ELSE s
  BY DEF live_preview
<1>8. Seen(t, indexed) /\ SameMode(t, s)
  <2> HIDE DEF t, expr, q
  <2> QED  BY <1>1, <1>4, <1>5, <1>6, <1>7
<1>9. cmd.kind = "ClearFilter" => t.filter = Ordinals
  <2> HIDE DEF t, expr, q
  <2> QED  BY <1>1, <1>3, <1>4, <1>7
<1>10. cmd.kind = "Filter" /\ parse_query(cmd.arg) # << >> =>
         t.filter = parse_query(cmd.arg)[1]
  <2>1. cmd.kind = "Filter" => q = parse_query(cmd.arg)
    BY <1>3
  <2> HIDE DEF t, expr, q
  <2> QED  BY <1>1, <1>3, <1>4, <1>6, <1>7, <2>1
<1>11. t.command_buffer = s.command_buffer
  BY <1>8 DEF SameMode
<1> HIDE DEF t
<1>12. Previewed(t)
  BY <1>2, <1>9, <1>10, <1>11 DEF Previewed
<1> QED  BY <1>8, <1>12 DEF t

LEMMA ClearedSeen ==
  ASSUME ConstantsFit, NEW n \in 0 .. Len(Log), NEW s, Seen(s, n)
  PROVE  Seen(cleared(s), n) /\ SameMode(cleared(s), s)
<1> DEFINE u == close_overlay(s)
           t == [u EXCEPT !.diff_slots = <<None, None>>]
<1>1. Seen(u, n) /\ SameMode(u, s)
  BY CloseSeen, OverlayModes DEF Seen
<1>2. u.overlay = NoOverlay
  BY DEF close_overlay, open_overlay, Seen, KeyStates
<1> HIDE DEF u
<1>3. /\ t.visible = u.visible /\ t.row = u.row /\ t.filter_snapshot = u.filter_snapshot
      /\ t.overlay = u.overlay /\ t.previous_overlay = u.previous_overlay
      /\ t.bookmarks = u.bookmarks
  BY <1>1 DEF Seen, KeyStates
<1>4. t \in KeyStates(n)
  BY <1>1 DEF Seen, KeyStates, Rows
<1>5. SameMode(t, s)
  BY <1>1 DEF SameMode, Seen, KeyStates
<1> HIDE DEF t
<1>6. \A o : Listed(t, o) = Listed(u, o)
  BY <1>3 DEF Listed, Entries
<1>7. Overlaid(t, n)
  BY <1>1, <1>2, <1>3, <1>6, NoneIsOpen DEF Seen, Overlaid, CursorFits
<1>8. Seen(t, n)
  BY <1>1, <1>3, <1>4, <1>7 DEF Seen, RowFits
<1> QED  BY <1>5, <1>8 DEF cleared, t, u

LEMMA ExecuteSeen ==
  ASSUME Given, NEW s, Seen(s, indexed), NEW cmd, cmd.arg \in Seq(Keys)
  PROVE  Seen(execute(s, cmd), indexed) /\ SameMode(execute(s, cmd), s)
<1> DEFINE t == execute(s, cmd)
           id == IF cmd.arg = << >> THEN IdAt(s.row) ELSE cmd.arg[1]
<1> SUFFICES Seen(t, indexed) /\ SameMode(t, s)
  OBVIOUS
<1>1. s \in KeyStates(indexed) /\ SameMode(s, s)
  BY DEF Seen, SameMode
<1>2. \/ t = s
      \/ /\ cmd.kind \in {"Help", "Histogram", "Marks"}
         /\ t = open_overlay(s, Open(cmd.kind, None, << >>))
      \/ t = open_overlay(s, Open("Sessions", None, Sessions))
      \/ t = open_orders_overlay(s, id)
      \/ t = open_overlay(s, Open("Consolidated", None, Families))
      \/ t = filtered(s, Ordinals)
      \/ parse_query(cmd.arg) # << >> /\ t = filtered(s, parse_query(cmd.arg)[1])
      \/ t = cleared(s)
  BY DEF execute
<1>3. /\ \A new : SameMode(open_overlay(s, new), s)
      /\ \A x : SameMode(open_orders_overlay(s, x), s)
      /\ \A filter : SameMode(filtered(s, filter), s)
  BY <1>1, OverlayModes, ListModes
<1>4. ASSUME NEW kind \in Kinds \ {"Orders", "Diff"}, NEW list \in Seq(Items)
      PROVE  Seen(open_overlay(s, Open(kind, None, list)), indexed)
  <2> DEFINE new == Open(kind, None, list)
  <2>1. new \in Overlays /\ new.cursor = 0 /\ new.kind = kind
    BY DEF Open, Overlays
  <2> HIDE DEF new
  <2>2. Seen(open_overlay(s, new), indexed)
    BY <2>1, OverlaySeen DEF Given
  <2> QED  BY <2>2 DEF new
<1>5. << >> \in Seq(Items) /\ Sessions \in Seq(Items) /\ Families \in Seq(Items)
  BY SessionsAre, FamiliesAre
<1>6. id \in Items \cup Keys \cup {None}
  <2>1. s.row \in Rows(indexed) /\ Len(Log) \in Nat /\ indexed \in 0 .. Len(Log)
    BY <1>1, LenLog DEF KeyStates, Given
  <2>2. s.row # None => s.row \in Ordinals
    BY <2>1 DEF Rows, Ordinals
  <2>3. IdAt(s.row) \in Items \cup {None}
    BY <2>2 DEF IdAt, Items
  <2>4. cmd.arg # << >> => cmd.arg[1] \in Keys
    OBVIOUS
  <2> QED  BY <2>3, <2>4
<1> HIDE DEF t, id
<1>7. CASE t = s
  BY <1>1, <1>7
<1>8. CASE /\ cmd.kind \in {"Help", "Histogram", "Marks"}
           /\ t = open_overlay(s, Open(cmd.kind, None, << >>))
  BY <1>3, <1>4, <1>5, <1>8 DEF Kinds
<1>9. CASE t = open_overlay(s, Open("Sessions", None, Sessions))
  BY <1>3, <1>4, <1>5, <1>9 DEF Kinds
<1>10. CASE t = open_orders_overlay(s, id)
  BY <1>3, <1>6, <1>10, OrdersSeen
<1>11. CASE t = open_overlay(s, Open("Consolidated", None, Families))
  BY <1>3, <1>4, <1>5, <1>11 DEF Kinds
<1>12. CASE t = filtered(s, Ordinals)
  <2>1. Ordinals \in SUBSET Ordinals
    OBVIOUS
  <2> QED  BY <1>3, <1>12, <2>1, FilterSeen
<1>13. CASE parse_query(cmd.arg) # << >> /\ t = filtered(s, parse_query(cmd.arg)[1])
  <2>1. parse_query(cmd.arg)[1] \in SUBSET Ordinals
    BY <1>13, QueryIs
  <2> QED  BY <1>3, <1>13, <2>1, FilterSeen
<1>14. CASE t = cleared(s)
  BY <1>14, ClearedSeen DEF Given
<1> QED  BY <1>2, <1>7, <1>8, <1>9, <1>10, <1>11, <1>12, <1>13, <1>14

-----------------------------------------------------------------------------
(* The keys of the overlays.                                               *)
LEMMA InvIs ==
  ASSUME InputInv
  PROVE  /\ Given /\ ConstantsFit /\ indexed \in 0 .. Len(Log) /\ indexed \in Nat
         /\ Ready(app, indexed) /\ Ready(taken, indexed)
         /\ Seen(app, indexed) /\ Moded(app) /\ app \in KeyStates(indexed)
         /\ Seen(taken, indexed) /\ Moded(taken) /\ taken \in KeyStates(indexed)
         /\ taken.input_mode = app.input_mode /\ taken.visible = app.visible
         /\ taken.row = app.row
         /\ taken.filter_snapshot = app.filter_snapshot
         /\ taken.command_buffer = app.command_buffer
<1>1. /\ Given /\ Ready(app, indexed) /\ Ready(taken, indexed)
  BY TakenReady DEF InputInv, Given, taken
<1>2. Seen(app, indexed) /\ app \in KeyStates(indexed)
  BY <1>1 DEF Ready, Seen
<1>3. /\ taken.input_mode = app.input_mode /\ taken.visible = app.visible
      /\ taken.row = app.row /\ taken.filter_snapshot = app.filter_snapshot
      /\ taken.command_buffer = app.command_buffer
  BY <1>2 DEF taken, KeyStates
<1>4. indexed \in Nat
  BY <1>1, LenLog DEF Given
<1> QED  BY <1>1, <1>2, <1>3, <1>4 DEF Given, Ready, Seen

LEMMA ScrollSeen ==
  ASSUME ConstantsFit, NEW n \in 0 .. Len(Log), NEW s, Seen(s, n),
         NEW c \in Scrolled(s.overlay.kind, s.overlay.cursor, Len(Listed(s, s.overlay))),
         Len(Listed(s, s.overlay)) > 0
  PROVE  /\ Seen([s EXCEPT !.overlay.cursor = c], n)
         /\ SameMode([s EXCEPT !.overlay.cursor = c], s)
<1> DEFINE o == s.overlay
           m == Len(Listed(s, o))
           new == [o EXCEPT !.cursor = c]
           t == [s EXCEPT !.overlay = new]
<1>1. s \in KeyStates(n) /\ o \in Overlays /\ CursorFits(s, o)
  BY DEF Seen, KeyStates, Overlaid
<1>2. m \in Nat /\ m > 0 /\ o.cursor \in Nat /\ o.cursor < m
  BY <1>1, ListedIs DEF CursorFits, Overlays
<1>3. c \in 0 .. m - 1
  <2>1. c \in {Min({o.cursor + 1, m - 1}), Max({o.cursor - 1, 0}), 0, m - 1}
    BY DEF Scrolled
  <2> HIDE DEF o, m
  <2>2. Min({o.cursor + 1, m - 1}) = IF o.cursor + 1 <= m - 1 THEN o.cursor + 1 ELSE m - 1
    BY <1>2, OfTwo
  <2>3. Max({o.cursor - 1, 0}) = IF o.cursor - 1 <= 0 THEN 0 ELSE o.cursor - 1
    <3>1. o.cursor - 1 \in Int /\ 0 \in Int
      BY <1>2
    <3> QED  BY <3>1, OfTwo
  <2> QED  BY <1>2, <2>1, <2>2, <2>3
<1>4. c \in Nat /\ c < m
  <2> HIDE DEF m
  <2> QED  BY <1>2, <1>3
<1>5. /\ new \in Overlays /\ new.kind = o.kind /\ new.list = o.list /\ new.id = o.id
      /\ new.cursor = c
  BY <1>1, <1>4 DEF Overlays
<1>6. [s EXCEPT !.overlay.cursor = c] = t
  OBVIOUS
<1> HIDE DEF new, m
<1>7. /\ t.visible = s.visible /\ t.row = s.row /\ t.filter_snapshot = s.filter_snapshot
      /\ t.overlay = new /\ t.previous_overlay = s.previous_overlay
      /\ t.diff_slots = s.diff_slots /\ t.bookmarks = s.bookmarks
      /\ t \in KeyStates(n) /\ SameMode(t, s)
  BY <1>1, <1>5 DEF KeyStates, SameMode
<1> HIDE DEF t
<1>8. \A x : Listed(t, x) = Listed(s, x)
  BY <1>7 DEF Listed, Entries
<1>9. Listed(t, new) = Listed(s, o)
  BY <1>5, <1>8 DEF Listed
<1>10. CursorFits(t, new)
  BY <1>4, <1>5, <1>9 DEF CursorFits, m
<1>11. Overlaid(t, n)
  BY <1>5, <1>7, <1>8, <1>10 DEF Seen, Overlaid, CursorFits
<1>12. Seen(t, n)
  BY <1>7, <1>11 DEF Seen, RowFits
<1> QED  BY <1>6, <1>7, <1>12

LEMMA AtCursorIs ==
  ASSUME ConstantsFit, NEW n \in 0 .. Len(Log), NEW s, Seen(s, n), AtCursor(s) # << >>
  PROVE  /\ AtCursor(s)[1] \in Items
         /\ s.overlay.cursor < Len(Listed(s, s.overlay))
         /\ AtCursor(s)[1] = Listed(s, s.overlay)[s.overlay.cursor + 1]
<1> DEFINE list == Listed(s, s.overlay)
<1>1. list \in Seq(Items) /\ Len(list) \in Nat /\ s.overlay.cursor \in Nat
  BY ListedIs DEF Seen, KeyStates, Overlays
<1>2. AtCursor(s) = IF s.overlay.cursor < Len(list)
                      THEN <<list[s.overlay.cursor + 1]>> ELSE << >>
  BY DEF AtCursor
<1> HIDE DEF list
<1>3. s.overlay.cursor < Len(list) /\ AtCursor(s) = <<list[s.overlay.cursor + 1]>>
  BY <1>2
<1>4. s.overlay.cursor + 1 \in 1 .. Len(list)
  BY <1>1, <1>3
<1>5. list[s.overlay.cursor + 1] \in Items
  BY <1>1, <1>4
<1> QED  BY <1>3, <1>5 DEF list

LEMMA DrillSeen ==
  ASSUME Given, NEW s, Seen(s, indexed), s.overlay.kind = "Consolidated", AtCursor(s) # << >>,
         NEW u, u = open_orders_overlay(s, AtCursor(s)[1]), u.overlay.kind = "Orders"
  PROVE  /\ Seen([u EXCEPT !.previous_overlay = s.overlay], indexed)
         /\ SameMode([u EXCEPT !.previous_overlay = s.overlay], s)
<1> DEFINE o == s.overlay
           id == AtCursor(s)[1]
           t == [u EXCEPT !.previous_overlay = o]
<1>1. /\ id \in Items /\ o.cursor < Len(Listed(s, o))
      /\ id = Listed(s, o)[o.cursor + 1]
  BY AtCursorIs DEF Given
<1>2. s \in KeyStates(indexed) /\ o \in Overlays
  BY DEF Seen, KeyStates
<1>3. Seen(u, indexed) /\ u \in KeyStates(indexed) /\ SameMode(u, s)
  BY <1>1, <1>2, OrdersSeen, OverlayModes DEF Seen
<1>4. u = open_overlay(s, Open("Orders", id, Timeline(id)))
  BY DEF open_orders_overlay
<1>5. u.bookmarks = s.bookmarks /\ u.overlay.id = id
  BY <1>2, <1>4 DEF open_overlay, Open, KeyStates
<1>6. Listed(s, o) = o.list
  BY DEF Listed
<1> HIDE DEF o, id
<1>7. /\ t.visible = u.visible /\ t.row = u.row /\ t.filter_snapshot = u.filter_snapshot
      /\ t.overlay = u.overlay /\ t.previous_overlay = o
      /\ t.diff_slots = u.diff_slots /\ t.bookmarks = u.bookmarks
      /\ t \in KeyStates(indexed) /\ SameMode(t, s)
  BY <1>2, <1>3 DEF KeyStates, SameMode
<1> HIDE DEF t
<1>8. \A x : Listed(t, x) = Listed(u, x)
  BY <1>7 DEF Listed, Entries
<1>9. Listed(t, o) = Listed(s, o)
  BY <1>5, <1>7 DEF Listed, Entries
<1>10. CursorFits(t, o) /\ CursorFits(t, t.overlay)
  BY <1>1, <1>3, <1>7, <1>8, <1>9 DEF CursorFits, Seen, Overlaid
<1>11. Overlaid(t, indexed)
  <2>1. o.kind = "Consolidated"
    BY DEF o
  <2>2. /\ t.overlay.kind = "Orders" => ToSet(t.overlay.list) \subseteq 0 .. indexed - 1
        /\ t.overlay.kind = "Diff" => t.diff_slots[1] # None /\ t.diff_slots[2] # None
    BY <1>3, <1>7 DEF Seen, Overlaid
  <2> QED  BY <1>1, <1>5, <1>6, <1>7, <1>10, <2>1, <2>2 DEF Overlaid
<1>12. Seen(t, indexed)
  BY <1>3, <1>7, <1>11 DEF Seen, RowFits
<1> QED  BY <1>7, <1>12 DEF t, o

LEMMA OverlayKeysKeep ==
  ASSUME InputInv, OverlayKey
  PROVE  InputInv'
<1> USE InvIs
<1>1. ASSUME NEW t, Seen(t, indexed), SameMode(t, app), NormalMode, Event(t)
      PROVE  InputInv'
  BY <1>1, NormalReady, EventKeeps DEF NormalMode
<1>2. /\ SameMode(app, app) /\ SameMode(close_overlay(app), app)
      /\ SameMode(esc_overlay(app), app)
  BY OverlayModes DEF SameMode
<1>3. Seen(close_overlay(app), indexed) /\ Seen(esc_overlay(app), indexed)
  BY CloseSeen, EscSeen
<1>4. CASE OverlayScroll
  <2>1. PICK c \in Scrolled(app.overlay.kind, app.overlay.cursor,
                             Len(Listed(app, app.overlay))) :
          Event([app EXCEPT !.overlay.cursor = c])
    BY <1>4 DEF OverlayScroll
  <2>2. /\ Seen([app EXCEPT !.overlay.cursor = c], indexed)
        /\ SameMode([app EXCEPT !.overlay.cursor = c], app)
    BY <1>4, ScrollSeen DEF OverlayScroll
  <2> QED  BY <1>1, <1>4, <2>1, <2>2 DEF OverlayScroll
<1>5. CASE OverlayIdle
  BY <1>1, <1>2, <1>5 DEF OverlayIdle
<1>6. CASE OverlayClose
  <2>1. \/ Event(taken) \/ Event(esc_overlay(app))
    BY <1>6 DEF OverlayClose
  <2> QED  BY <1>1, <1>2, <1>3, <1>6, <2>1, EventKeeps DEF OverlayClose
<1>7. CASE JumpToSelection
  <2> DEFINE at == AtCursor(app)
             u == close_overlay(app)
  <2>1. CASE at # << >> /\ at[1] \in app.visible
    <3>1. u.visible = app.visible /\ u \in KeyStates(indexed)
      BY <1>3 DEF close_overlay, open_overlay, Seen, KeyStates
    <3>2. Seen([u EXCEPT !.row = at[1]], indexed)
      BY <1>3, <2>1, <3>1, RowSeen
    <3>3. SameMode([u EXCEPT !.row = at[1]], u)
      BY <3>1, ListModes
    <3>4. SameMode([u EXCEPT !.row = at[1]], app)
      BY <1>2, <3>3 DEF SameMode
    <3>5. Event([u EXCEPT !.row = at[1]])
      BY <1>7, <2>1 DEF JumpToSelection
    <3> QED  BY <1>1, <1>7, <3>2, <3>4, <3>5 DEF JumpToSelection
  <2>2. CASE at = << >> \/ at[1] \notin app.visible
    <3>1. Event(u) \/ Event(app)
      BY <1>7, <2>2 DEF JumpToSelection
    <3> QED  BY <1>1, <1>2, <1>3, <1>7, <3>1 DEF JumpToSelection
  <2> QED  BY <2>1, <2>2
<1>8. CASE apply_session_filter
  <2> DEFINE at == AtCursor(app)
             u == filtered(app, OfSession(at[1]))
  <2>1. OfSession(at[1]) \in SUBSET Ordinals
    BY DEF OfSession
  <2> HIDE DEF at
  <2>2. Seen(u, indexed) /\ SameMode(u, app)
    BY <2>1, FilterSeen, ListModes
  <2> HIDE DEF u
  <2>3. Seen(close_overlay(u), indexed) /\ SameMode(close_overlay(u), u)
    BY <2>2, CloseSeen, OverlayModes DEF Seen
  <2>4. SameMode(close_overlay(u), app)
    BY <2>2, <2>3 DEF SameMode
  <2>5. Event(close_overlay(app)) \/ Event(app) \/ Event(close_overlay(u))
    BY <1>8 DEF apply_session_filter, u, at
  <2> QED  BY <1>1, <1>2, <1>3, <1>8, <2>3, <2>4, <2>5 DEF apply_session_filter
<1>9. CASE drill_into_consolidated_selection
  <2> DEFINE at == AtCursor(app)
             u == open_orders_overlay(app, at[1])
  <2>1. NormalMode /\ app.overlay.kind = "Consolidated"
    BY <1>9 DEF drill_into_consolidated_selection
  <2>2. CASE at = << >> \/ at[1] \in NotUtf8
    <3>1. Event(close_overlay(app)) \/ Event(app)
      BY <1>9, <2>2 DEF drill_into_consolidated_selection
    <3> QED  BY <1>1, <1>2, <1>3, <2>1, <3>1
  <2>3. CASE at # << >> /\ at[1] \notin NotUtf8 /\ u.overlay.kind = "Orders"
    <3>1. Event([u EXCEPT !.previous_overlay = app.overlay])
      BY <1>9, <2>3 DEF drill_into_consolidated_selection
    <3>2. /\ Seen([u EXCEPT !.previous_overlay = app.overlay], indexed)
          /\ SameMode([u EXCEPT !.previous_overlay = app.overlay], app)
      BY <2>1, <2>3, DrillSeen
    <3> QED  BY <1>1, <2>1, <3>1, <3>2
  <2>4. CASE at # << >> /\ at[1] \notin NotUtf8 /\ u.overlay.kind # "Orders"
    <3>1. Event(u)
      BY <1>9, <2>4 DEF drill_into_consolidated_selection
    <3>2. at[1] \in Items
      BY <2>4, AtCursorIs
    <3>3. Seen(u, indexed) /\ SameMode(u, app)
      BY <3>2, OrdersSeen, OverlayModes
    <3> QED  BY <1>1, <2>1, <3>1, <3>3
  <2> QED  BY <2>2, <2>3, <2>4
<1>10. CASE EnterIdle
  <2>1. Event(taken) \/ Event(app)
    BY <1>10 DEF EnterIdle
  <2> QED  BY <1>1, <1>2, <1>10, <2>1, EventKeeps DEF EnterIdle
<1> QED  BY <1>4, <1>5, <1>6, <1>7, <1>8, <1>9, <1>10 DEF OverlayKey

-----------------------------------------------------------------------------
(* The other keys.                                                         *)
LEMMA TakenKeeps ==
  ASSUME InputInv, NormalMode, NEW t, Seen(t, indexed), SameMode(t, taken), Event(t)
  PROVE  InputInv'
BY InvIs, NormalReady, EventKeeps DEF NormalMode

LEMMA PrefixKeeps ==
  ASSUME InputInv, NEW p \in {"y", "d", "m", "'"}, PrefixKey(p)
  PROVE  InputInv'
<1> DEFINE t == [taken EXCEPT !.pending_prefix = p]
<1>1. CASE Event(t)
  <2>1. Seen(t, indexed)
    <3>1. "Normal" \in {"Normal", "Command", "Search"} /\ << >> \in Seq(Keys)
          /\ p \in {None, "y", "d", "m", "'"} /\ None \in {None, 0}
      OBVIOUS
    <3> QED  BY <3>1, InvIs, ModeSeen
  <2>2. Moded(t)
    BY InvIs DEF Moded, KeyStates, PrefixKey, NormalMode
  <2>3. t.input_mode = "Normal"
    BY InvIs DEF KeyStates, PrefixKey, NormalMode
  <2> HIDE DEF t
  <2>4. SameMode(t, t)
    BY DEF SameMode
  <2> QED  BY <1>1, <2>1, <2>2, <2>3, <2>4, NormalReady, EventKeeps
<1>2. CASE Event(set_diff_slot(taken, 1))
  <2>1. /\ Seen(set_diff_slot(taken, 1), indexed)
        /\ SameMode(set_diff_slot(taken, 1), taken)
    BY InvIs, SlotSeen, ListModes
  <2> QED  BY <1>2, <2>1, TakenKeeps DEF PrefixKey
<1>3. CASE Event(taken)
  BY <1>3, InvIs, EventKeeps
<1> QED  BY <1>1, <1>2, <1>3 DEF PrefixKey

LEMMA NormalKeysKeep ==
  ASSUME InputInv, NormalKey
  PROVE  InputInv'
<1> USE InvIs
<1>1. ASSUME NEW r \in app.visible, Event([taken EXCEPT !.row = r]), NormalMode
      PROVE  InputInv'
  <2>1. /\ Seen([taken EXCEPT !.row = r], indexed)
        /\ SameMode([taken EXCEPT !.row = r], taken)
    BY RowSeen, ListModes
  <2> QED  BY <1>1, <2>1, TakenKeeps
<1>2. ASSUME Event(taken) PROVE InputInv'
  BY <1>2, EventKeeps
<1>3. CASE ListKey \/ SearchKey
  BY <1>1, <1>2, <1>3 DEF ListKey, SearchKey
<1>4. CASE DiffSlotB
  <2>1. /\ Seen(set_diff_slot(taken, 2), indexed)
        /\ SameMode(set_diff_slot(taken, 2), taken)
    BY SlotSeen, ListModes
  <2> QED  BY <1>2, <1>4, <2>1, TakenKeeps DEF DiffSlotB
<1>5. CASE OtherKey
  BY <1>2, <1>5 DEF OtherKey
<1>6. CASE \E p \in {"y", "d", "m", "'"} : PrefixKey(p)
  BY <1>6, PrefixKeeps
<1>7. ASSUME NEW c \in Digits, Digit(c) PROVE InputInv'
  <2>1. /\ Seen(bookmarked(taken, c), indexed)
        /\ SameMode(bookmarked(taken, c), taken)
    BY BookmarkSeen, ListModes
  <2>2. /\ Seen(jumped(taken, c), indexed)
        /\ SameMode(jumped(taken, c), taken)
    BY JumpSeen, ListModes
  <2> QED  BY <1>2, <1>7, <2>1, <2>2, TakenKeeps DEF Digit
<1>8. ASSUME NEW filter \in AppFilters, FilterKey(filter) PROVE InputInv'
  <2>1. filter \in SUBSET Ordinals
    BY DEF ConstantsFit
  <2>2. /\ Seen(filtered(taken, filter), indexed)
        /\ SameMode(filtered(taken, filter), taken)
    BY <2>1, FilterSeen, ListModes
  <2> QED  BY <1>8, <2>2, TakenKeeps DEF FilterKey
<1>9. CASE OpenOrderTimeline
  <2> DEFINE id == IdAt(app.row)
  <2>1. id \in Items \cup Keys \cup {None}
    <3>1. app.row \in Rows(indexed) /\ Len(Log) \in Nat
      BY LenLog DEF KeyStates
    <3>2. app.row # None => app.row \in Ordinals
      BY <3>1 DEF Rows, Ordinals
    <3> QED  BY <3>2 DEF IdAt, Items
  <2>2. Event(open_orders_overlay(taken, id))
    BY <1>9 DEF OpenOrderTimeline
  <2> HIDE DEF id
  <2>3. /\ Seen(open_orders_overlay(taken, id), indexed)
        /\ SameMode(open_orders_overlay(taken, id), taken)
    BY <2>1, OrdersSeen, OverlayModes
  <2> QED  BY <1>9, <2>2, <2>3, TakenKeeps DEF OpenOrderTimeline
<1>10. CASE OpenHelp
  <2> DEFINE new == Open("Help", None, << >>)
  <2>1. new \in Overlays /\ new.cursor = 0 /\ new.kind = "Help"
    BY DEF Open, Overlays, Kinds
  <2>2. Event(open_overlay(taken, new))
    BY <1>10 DEF OpenHelp
  <2> HIDE DEF new
  <2>3. /\ Seen(open_overlay(taken, new), indexed)
        /\ SameMode(open_overlay(taken, new), taken)
    BY <2>1, OverlaySeen, OverlayModes
  <2> QED  BY <1>10, <2>2, <2>3, TakenKeeps DEF OpenHelp
<1> QED  BY <1>3, <1>4, <1>5, <1>6, <1>7, <1>8, <1>9, <1>10 DEF NormalKey

-----------------------------------------------------------------------------
LEMMA TypedIs ==
  ASSUME InputInv, CommandMode, NEW line \in Seq(Keys)
  PROVE  /\ Seen(typed(line), indexed) /\ Moded(typed(line))
         /\ typed(line) \in KeyStates(indexed)
         /\ typed(line).input_mode = "Command" /\ typed(line).command_buffer = line
         /\ typed(line).filter_snapshot = app.filter_snapshot
         /\ typed(line).pending_prefix = None /\ typed(line).command_history_idx = None
         /\ typed(line).visible = app.visible /\ typed(line).row = app.row
<1> DEFINE t == [taken EXCEPT !.command_buffer = line, !.command_history_idx = None]
<1>1. Seen(t, indexed)
  <2>1. "Normal" \in {"Normal", "Command", "Search"} /\ None \in {None, 0}
        /\ None \in {None, "y", "d", "m", "'"}
    OBVIOUS
  <2> QED  BY <2>1, InvIs, ModeSeen
<1>2. /\ t.input_mode = "Command" /\ t.command_buffer = line
      /\ t.filter_snapshot = app.filter_snapshot /\ t.command_history_idx = None
      /\ t.visible = app.visible /\ t.row = app.row
      /\ t.pending_prefix = taken.pending_prefix
  BY InvIs DEF CommandMode, KeyStates
<1>3. taken.pending_prefix = None
  BY InvIs DEF taken, KeyStates
<1>4. app.filter_snapshot # << >>
  BY InvIs DEF Moded, CommandMode
<1>5. t = typed(line)
  BY DEF typed
<1> HIDE DEF t
<1>6. Moded(t)
  BY <1>2, <1>3, <1>4 DEF Moded
<1> QED  BY <1>1, <1>2, <1>3, <1>5, <1>6 DEF Seen

LEMMA EmptyIs == parse(<< >>).kind = "Unknown" /\ << >> \in Seq(Keys)
<1>1. DOMAIN << >> = {} /\ Len(<< >>) = 0 /\ << >> \in Seq(Keys)
  OBVIOUS
<1>2. Split(<< >>) = <<<< >>, << >>>>
  BY <1>1 DEF Split
<1> QED  BY <1>1, <1>2 DEF parse

LEMMA TypedKeeps ==
  ASSUME InputInv, CommandMode, NEW line \in Seq(Keys), Event(live_preview(typed(line)))
  PROVE  InputInv'
<1> DEFINE t == live_preview(typed(line))
<1>1. Seen(t, indexed) /\ SameMode(t, typed(line)) /\ Previewed(t)
  BY TypedIs, PreviewSeen, InvIs
<1> HIDE DEF t
<1>2. Moded(t)
  BY <1>1, TypedIs DEF Moded, SameMode
<1>3. Ready(t, indexed)
  BY <1>1, <1>2 DEF Ready
<1> QED  BY <1>3, EventKeeps DEF t

LEMMA RecalledKeeps ==
  ASSUME InputInv, nav_history
  PROVE  InputInv'
<1>1. ASSUME NEW line \in Lines,
             Event([taken EXCEPT !.command_buffer = line, !.command_history_idx = 0])
      PROVE  InputInv'
  <2> DEFINE t == [taken EXCEPT !.command_buffer = line, !.command_history_idx = 0]
  <2>1. line \in Seq(Keys)
    BY InvIs DEF ConstantsFit
  <2>2. Seen(t, indexed)
    <3>1. "Normal" \in {"Normal", "Command", "Search"} /\ 0 \in {None, 0}
          /\ None \in {None, "y", "d", "m", "'"}
      OBVIOUS
    <3> QED  BY <2>1, <3>1, InvIs, ModeSeen
  <2>3. Moded(t) /\ t.command_history_idx = 0
    BY InvIs DEF Moded, KeyStates, nav_history, CommandMode
  <2>4. None # 0
    BY InvIs DEF ConstantsFit
  <2>5. Event(t)
    BY <1>1
  <2> HIDE DEF t
  <2>6. Ready(t, indexed)
    BY <2>2, <2>3, <2>4 DEF Ready, Previewed
  <2> QED  BY <2>5, <2>6, EventKeeps
<1>2. ASSUME Event(typed(<< >>)) PROVE InputInv'
  <2>1. /\ Seen(typed(<< >>), indexed) /\ Moded(typed(<< >>))
        /\ typed(<< >>).command_buffer = << >>
    BY TypedIs, EmptyIs DEF nav_history
  <2>2. Previewed(typed(<< >>))
    BY <2>1, EmptyIs DEF Previewed
  <2> QED  BY <1>2, <2>1, <2>2, EventKeeps DEF Ready
<1> QED  BY <1>1, <1>2 DEF nav_history

LEMMA SubmittedIs ==
  ASSUME InputInv, CommandMode
  PROVE  /\ Seen(SubmittedLine, indexed) /\ Moded(SubmittedLine)
         /\ SubmittedLine \in KeyStates(indexed)
         /\ SubmittedLine.input_mode = "Normal" /\ SubmittedLine.filter_snapshot = << >>
<1> DEFINE u == typed(<< >>)
           t == [u EXCEPT !.input_mode = "Normal", !.filter_snapshot = << >>]
<1>1. /\ Seen(u, indexed) /\ u \in KeyStates(indexed) /\ u.command_buffer = << >>
      /\ u.pending_prefix = None
  BY TypedIs, EmptyIs
<1> HIDE DEF u
<1>2. /\ t.visible = u.visible /\ t.row = u.row /\ t.filter_snapshot = << >>
      /\ t.overlay = u.overlay /\ t.previous_overlay = u.previous_overlay
      /\ t.diff_slots = u.diff_slots /\ t.bookmarks = u.bookmarks
      /\ t.input_mode = "Normal" /\ t.command_buffer = << >> /\ t.pending_prefix = None
  BY <1>1 DEF KeyStates
<1>3. t \in KeyStates(indexed)
  BY <1>1 DEF KeyStates
<1> HIDE DEF t
<1>4. \A x : Listed(t, x) = Listed(u, x)
  BY <1>2 DEF Listed, Entries
<1>5. Overlaid(t, indexed)
  BY <1>1, <1>2, <1>4 DEF Seen, Overlaid, CursorFits
<1>6. Seen(t, indexed)
  BY <1>1, <1>2, <1>3, <1>5 DEF Seen, RowFits
<1>7. Moded(t)
  BY <1>2 DEF Moded
<1> QED  BY <1>2, <1>3, <1>6, <1>7 DEF SubmittedLine, t, u

LEMMA CancelKeeps ==
  ASSUME InputInv, CancelCommand
  PROVE  InputInv'
<1> DEFINE snap == app.filter_snapshot[1]
           u == SubmittedLine
           t == [u EXCEPT !.filter = snap.filter, !.visible = snap.visible, !.row = snap.row]
<1>1. CommandMode /\ Event(t)
  BY DEF CancelCommand
<1>2. app.filter_snapshot # << >>
  BY <1>1, InvIs DEF CommandMode, Moded
<1>3. snap \in Views(indexed) /\ RowFits(snap)
  BY <1>2, InvIs DEF Seen, KeyStates
<1>4. Seen(u, indexed) /\ u \in KeyStates(indexed) /\ Moded(u) /\ u.input_mode = "Normal"
  BY <1>1, SubmittedIs
<1> HIDE DEF snap, u
<1>5. /\ t.visible = snap.visible /\ t.row = snap.row
      /\ t.filter_snapshot = u.filter_snapshot
      /\ t.overlay = u.overlay /\ t.previous_overlay = u.previous_overlay
      /\ t.diff_slots = u.diff_slots /\ t.bookmarks = u.bookmarks
      /\ t \in KeyStates(indexed) /\ SameMode(t, u)
  BY <1>3, <1>4 DEF KeyStates, Views, SameMode
<1> HIDE DEF t
<1>6. RowFits(t)
  BY <1>3, <1>5 DEF RowFits
<1>7. Seen(t, indexed)
  BY <1>4, <1>5, <1>6, RowsSeen
<1> QED  BY <1>1, <1>4, <1>5, <1>7, NormalReady, EventKeeps

LEMMA SubmitKeeps ==
  ASSUME InputInv, submit_command
  PROVE  InputInv'
<1>1. PICK cmd : cmd = parse(app.command_buffer)
  OBVIOUS
<1>2. /\ CommandMode /\ app' = execute(SubmittedLine, cmd) /\ indexed' = indexed
      /\ running' \in BOOLEAN
  BY <1>1 DEF submit_command
<1>3. app.command_buffer \in Seq(Keys)
  BY InvIs DEF KeyStates
<1>4. cmd.arg \in Seq(Keys)
  BY <1>1, <1>3, CommandIs, InvIs
<1>5. /\ Seen(execute(SubmittedLine, cmd), indexed)
      /\ SameMode(execute(SubmittedLine, cmd), SubmittedLine)
  BY <1>2, <1>4, SubmittedIs, ExecuteSeen, InvIs
<1>6. Ready(execute(SubmittedLine, cmd), indexed)
  BY <1>2, <1>5, SubmittedIs, NormalReady
<1>7. Ready(app', indexed')
  BY <1>2, <1>6
<1> QED  BY <1>2, <1>7, InvIs DEF InputInv, ConstantsFit

LEMMA SearchModesKeep ==
  ASSUME InputInv, EnterSearch \/ SearchCancel \/ submit_search
  PROVE  InputInv'
<1>1. ASSUME NEW mode \in {"Normal", "Search"}
      PROVE  /\ Seen([taken EXCEPT !.input_mode = mode], indexed)
             /\ [taken EXCEPT !.input_mode = mode].visible = app.visible
             /\ [taken EXCEPT !.input_mode = mode].row = app.row
             /\ app.input_mode # "Command" =>
                  Ready([taken EXCEPT !.input_mode = mode], indexed)
  <2> DEFINE t == [taken EXCEPT !.input_mode = mode]
  <2>1. Seen(t, indexed)
    <3>1. mode \in {"Normal", "Command", "Search"} /\ << >> \in Seq(Keys)
          /\ None \in {None, "y", "d", "m", "'"} /\ None \in {None, 0}
      OBVIOUS
    <3> QED  BY <3>1, InvIs, ModeSeen
  <2>2. /\ t.input_mode = mode /\ t.visible = app.visible /\ t.row = app.row
        /\ t.filter_snapshot = app.filter_snapshot /\ t.command_buffer = app.command_buffer
        /\ t.pending_prefix = taken.pending_prefix
    BY InvIs DEF KeyStates
  <2>3. taken.pending_prefix = None
    BY InvIs DEF taken, KeyStates
  <2> HIDE DEF t
  <2>4. app.input_mode # "Command" => Moded(t)
    BY <2>2, <2>3, InvIs DEF Moded
  <2>5. Previewed(t)
    BY <2>2 DEF Previewed
  <2>6. app.input_mode # "Command" => Ready(t, indexed)
    BY <2>1, <2>4, <2>5 DEF Ready
  <2> QED  BY <2>1, <2>2, <2>6 DEF t
<1>2. CASE EnterSearch \/ SearchCancel
  BY <1>1, <1>2, EventKeeps DEF EnterSearch, SearchCancel, NormalMode
<1>3. CASE submit_search
  <2> DEFINE u == [taken EXCEPT !.input_mode = "Normal"]
  <2>1. PICK r \in app.visible \cup {app.row} :
          Event([taken EXCEPT !.input_mode = "Normal", !.row = r])
    BY <1>3 DEF submit_search
  <2>2. [taken EXCEPT !.input_mode = "Normal", !.row = r] = [u EXCEPT !.row = r]
    OBVIOUS
  <2>3. /\ Seen(u, indexed) /\ Ready(u, indexed) /\ u.visible = app.visible
        /\ u.row = app.row /\ u.input_mode = "Normal"
    BY <1>1, <1>3, InvIs DEF submit_search, KeyStates
  <2> HIDE DEF u
  <2>4. Seen([u EXCEPT !.row = r], indexed)
    <3>1. CASE r \in app.visible
      BY <2>3, <3>1, RowSeen
    <3>2. CASE r = u.row
      <4>1. [u EXCEPT !.row = r] = u
        BY <2>3, <3>2 DEF Seen, KeyStates
      <4> QED  BY <2>3, <4>1
    <3> QED  BY <2>1, <2>3, <3>1, <3>2
  <2>5. SameMode([u EXCEPT !.row = r], u)
    BY <2>3, ListModes DEF Seen
  <2>6. Ready([u EXCEPT !.row = r], indexed)
    BY <2>3, <2>4, <2>5, NormalReady DEF Ready
  <2> QED  BY <2>1, <2>2, <2>6, EventKeeps
<1> QED  BY <1>2, <1>3

LEMMA EnterCommandKeeps ==
  ASSUME InputInv, OpenCommand
  PROVE  InputInv'
<1> DEFINE view == [filter |-> app.filter, visible |-> app.visible, row |-> app.row]
           t == [taken EXCEPT !.input_mode = "Command", !.filter_snapshot = <<view>>]
<1>1. Event(t) /\ app.input_mode = "Normal"
  BY DEF OpenCommand, NormalMode
<1>2. view \in Views(indexed) /\ RowFits(view)
  BY InvIs DEF Views, KeyStates, Seen, RowFits
<1>3. taken.command_buffer = << >>
  BY <1>1, InvIs DEF Moded
<1>4. taken.pending_prefix = None
  BY InvIs DEF taken, KeyStates
<1> HIDE DEF view
<1>5. /\ t.visible = taken.visible /\ t.row = taken.row /\ t.filter_snapshot = <<view>>
      /\ t.overlay = taken.overlay /\ t.previous_overlay = taken.previous_overlay
      /\ t.diff_slots = taken.diff_slots /\ t.bookmarks = taken.bookmarks
      /\ t.input_mode = "Command" /\ t.command_buffer = << >> /\ t.pending_prefix = None
      /\ t \in KeyStates(indexed)
  BY <1>2, <1>3, <1>4, InvIs DEF KeyStates
<1> HIDE DEF t
<1>6. \A x : Listed(t, x) = Listed(taken, x)
  BY <1>5 DEF Listed, Entries
<1>7. Overlaid(t, indexed)
  BY <1>5, <1>6, InvIs DEF Seen, Overlaid, CursorFits
<1>8. Seen(t, indexed)
  BY <1>2, <1>5, <1>7, InvIs DEF Seen, RowFits
<1>9. Moded(t)
  BY <1>5 DEF Moded
<1>10. Previewed(t)
  BY <1>5, EmptyIs DEF Previewed
<1> QED  BY <1>1, <1>8, <1>9, <1>10, EventKeeps DEF Ready

LEMMA ModeKeysKeep ==
  ASSUME InputInv, ModeKey
  PROVE  InputInv'
<1>1. app.command_buffer \in Seq(Keys)
  BY InvIs DEF KeyStates
<1>2. CASE CommandBackspace
  <2>1. Front(app.command_buffer) \in Seq(Keys)
    <3>1. Len(app.command_buffer) \in Nat /\ Len(app.command_buffer) # 0
      BY <1>1, <1>2 DEF CommandBackspace
    <3> QED  BY <1>1, <3>1 DEF Front
  <2> QED  BY <1>2, <2>1, TypedKeeps DEF CommandBackspace
<1>3. ASSUME NEW line \in Lines, NEW key \in ToSet(line), CommandChar(key)
      PROVE  InputInv'
  <2>1. key \in Keys
    BY DEF Keys
  <2>2. Append(app.command_buffer, key) \in Seq(Keys)
    BY <1>1, <2>1
  <2> QED  BY <1>3, <2>2, TypedKeeps DEF CommandChar
<1>4. CASE Quit
  <2>1. app' = taken /\ indexed' = indexed /\ running' = FALSE
    BY <1>4 DEF Quit
  <2>2. Ready(app', indexed')
    BY <2>1, InvIs
  <2> QED  BY <2>1, <2>2, InvIs DEF InputInv, ConstantsFit
<1> QED  BY <1>2, <1>3, <1>4, SearchModesKeep, EnterCommandKeeps, CancelKeeps, SubmitKeeps,
            RecalledKeeps DEF ModeKey

-----------------------------------------------------------------------------
(* The watcher.                                                            *)
LEMMA GrownSeen ==
  ASSUME NEW n \in Nat, NEW s, Seen(s, n)
  PROVE  Seen(s, n + 1)
<1>1. 0 .. n - 1 \subseteq 0 .. n + 1 - 1 /\ Rows(n) \subseteq Rows(n + 1)
  BY DEF Rows
<1>2. Views(n) \subseteq Views(n + 1)
  BY <1>1 DEF Views
<1>3. {<<v>> : v \in Views(n)} \subseteq {<<v>> : v \in Views(n + 1)}
  BY <1>2
<1>4. s.bookmarks \in [Digits -> Rows(n + 1)] /\ s.diff_slots \in Rows(n + 1) \X Rows(n + 1)
  BY <1>1 DEF Seen, KeyStates
<1>5. s \in KeyStates(n + 1)
  BY <1>1, <1>3, <1>4 DEF Seen, KeyStates
<1>6. Overlaid(s, n + 1)
  BY <1>1 DEF Seen, Overlaid
<1> QED  BY <1>5, <1>6 DEF Seen

LEMMA GrowKeeps ==
  ASSUME InputInv, Grow
  PROVE  InputInv'
<1> DEFINE n == indexed + 1
           visible == app.visible \cup ({indexed} \cap app.filter)
<1>1. PICK r \in {app.row, LastOf(visible)} :
        /\ visible # {} => r # None
        /\ app' = [app EXCEPT !.visible = visible, !.row = r]
  BY DEF Grow
<1>2. indexed' = n /\ running' = running /\ indexed < Len(Log)
  BY DEF Grow
<1>3. Len(Log) \in Nat /\ indexed \in Nat /\ n \in 0 .. Len(Log) /\ n \in Nat
  BY <1>2, InvIs, LenLog
<1>4. Seen(app, n) /\ app \in KeyStates(n)
  BY <1>3, InvIs, GrownSeen DEF Seen
<1>5. visible \in SUBSET (0 .. n - 1) /\ app.visible \subseteq visible
  BY <1>3, InvIs DEF KeyStates
<1> DEFINE t == [app EXCEPT !.visible = visible, !.row = r]
<1> HIDE DEF visible, n
<1>6. /\ LastOf(visible) \in Rows(n)
      /\ IF visible = {} THEN LastOf(visible) = None ELSE LastOf(visible) \in visible
  BY <1>3, <1>5, LastIsShown
<1>7. IF visible = {} THEN r = None ELSE r \in visible
  BY <1>1, <1>5, <1>6, InvIs DEF Seen, RowFits
<1>8. r \in Rows(n)
  BY <1>5, <1>7 DEF Rows
<1>9. /\ t.visible = visible /\ t.row = r /\ t.filter_snapshot = app.filter_snapshot
      /\ t.overlay = app.overlay /\ t.previous_overlay = app.previous_overlay
      /\ t.diff_slots = app.diff_slots /\ t.bookmarks = app.bookmarks
      /\ t.filter = app.filter /\ SameMode(t, app)
  BY <1>4 DEF KeyStates, SameMode
<1>10. t \in KeyStates(n)
  BY <1>4, <1>5, <1>8 DEF KeyStates
<1>11. app' = t
  BY <1>1
<1> HIDE DEF t
<1>12. Seen(t, n)
  BY <1>4, <1>7, <1>9, <1>10, RowsSeen DEF RowFits
<1>13. Moded(t) /\ Previewed(t)
  BY <1>9, InvIs DEF Moded, Previewed, SameMode, Ready
<1>14. Ready(app', indexed')
  BY <1>2, <1>11, <1>12, <1>13 DEF Ready
<1> QED  BY <1>2, <1>3, <1>14 DEF InputInv, ConstantsFit

LEMMA FreshIs ==
  ASSUME ConstantsFit, NEW n \in 0 .. Len(Log), NEW filter \in SUBSET Ordinals,
         NEW s, s = Fresh(filter)
  PROVE  /\ Seen(s, n) /\ Moded(s) /\ s \in KeyStates(n) /\ s.input_mode = "Normal"
         /\ s.filter = filter
<1>1. /\ s.visible = {} /\ s.row = None /\ s.filter_snapshot = << >>
      /\ s.overlay = NoOverlay
      /\ s.previous_overlay = NoOverlay /\ s.input_mode = "Normal"
      /\ s.command_buffer = << >>
      /\ s.pending_prefix = None /\ s.filter = filter
  BY DEF Fresh
<1>2. s \in KeyStates(n)
  BY NoneIsOpen, EmptyIs DEF Fresh, KeyStates, Rows
<1>3. CursorFits(s, NoOverlay)
  BY <1>2, NoneIsOpen, ListedIs DEF CursorFits
<1>4. Overlaid(s, n)
  BY <1>1, <1>3, NoneIsOpen DEF Overlaid
<1>5. Seen(s, n)
  BY <1>1, <1>2, <1>4 DEF Seen, RowFits
<1>6. Moded(s)
  BY <1>1 DEF Moded
<1> QED  BY <1>1, <1>2, <1>5, <1>6

LEMMA RebuildKeeps ==
  ASSUME InputInv, NEW n \in 0 .. Len(Log), RebuildIndex(n)
  PROVE  InputInv'
<1> DEFINE visible == app.filter \cap 0 .. n - 1
           s == Fresh(app.filter)
           t == [s EXCEPT !.visible = visible, !.row = LastOf(visible)]
<1>1. app' = t /\ indexed' = n /\ running' = running
  BY DEF RebuildIndex, rebuilt
<1>2. app.filter \in SUBSET Ordinals /\ ConstantsFit /\ n \in Nat
  BY InvIs, LenLog DEF KeyStates
<1>3. Seen(s, n) /\ Moded(s) /\ s \in KeyStates(n) /\ s.input_mode = "Normal"
  BY <1>2, FreshIs
<1>4. visible \in SUBSET (0 .. n - 1)
  OBVIOUS
<1> HIDE DEF visible, s
<1>5. /\ LastOf(visible) \in Rows(n)
      /\ IF visible = {} THEN LastOf(visible) = None ELSE LastOf(visible) \in visible
  BY <1>2, <1>4, LastIsShown
<1>6. /\ t.visible = visible /\ t.row = LastOf(visible)
      /\ t.filter_snapshot = s.filter_snapshot
      /\ t.overlay = s.overlay /\ t.previous_overlay = s.previous_overlay
      /\ t.diff_slots = s.diff_slots /\ t.bookmarks = s.bookmarks /\ SameMode(t, s)
  BY <1>3 DEF KeyStates, SameMode
<1>7. t \in KeyStates(n)
  BY <1>3, <1>4, <1>5 DEF KeyStates
<1> HIDE DEF t
<1>8. Seen(t, n)
  BY <1>3, <1>5, <1>6, <1>7, RowsSeen DEF RowFits
<1>9. Ready(t, n)
  BY <1>3, <1>6, <1>8, NormalReady
<1>10. Ready(app', indexed')
  BY <1>1, <1>9
<1> QED  BY <1>1, <1>2, <1>10 DEF InputInv, ConstantsFit

-----------------------------------------------------------------------------
(* The invariant, and what it says.                                        *)
LEMMA InputInvInit ==
  ASSUME AppInit
  PROVE  InputInv
<1> USE AppAssumption
<1> DEFINE s == Fresh(Ordinals)
<1>1. indexed \in 0 .. Len(Log) /\ app = filtered(s, Ordinals) /\ running = TRUE
  BY DEF AppInit
<1>2. Given /\ Ordinals \in SUBSET Ordinals
  BY <1>1 DEF Given
<1>3. /\ Seen(s, indexed) /\ Moded(s) /\ s \in KeyStates(indexed)
      /\ s.input_mode = "Normal"
  BY <1>1, <1>2, FreshIs
<1> HIDE DEF s
<1>4. Seen(app, indexed) /\ SameMode(app, s)
  BY <1>1, <1>2, <1>3, FilterSeen, ListModes
<1>5. Ready(app, indexed)
  BY <1>3, <1>4, NormalReady
<1> QED  BY <1>1, <1>5 DEF InputInv

LEMMA InputInvNext ==
  ASSUME InputInv, [AppNext]_app_vars
  PROVE  InputInv'
<1>1. CASE UNCHANGED app_vars
  <2>1. indexed' = indexed /\ app' = app /\ running' = running
    BY <1>1 DEF app_vars
  <2>2. Ready(app', indexed')
    BY <2>1 DEF InputInv
  <2> QED  BY <2>1, <2>2 DEF InputInv, ConstantsFit
<1>2. CASE AppNext
  BY <1>2, OverlayKeysKeep, NormalKeysKeep, ModeKeysKeep, GrowKeeps, RebuildKeeps DEF AppNext
<1> QED  BY <1>1, <1>2

LEMMA InputInvAlways == AppSpec => []InputInv
<1>1. AppInit => InputInv
  BY InputInvInit
<1>2. InputInv /\ [AppNext]_app_vars => InputInv'
  BY InputInvNext
<1> QED  BY <1>1, <1>2, PTL DEF AppSpec

(* The state that a key of any mode leaves is of its type, and each cursor  *)
(* is in its list.                                                         *)
THEOREM KeysAreTyped == AppSpec => []AppTypeOK
<1>1. InputInv => AppTypeOK
  <2> SUFFICES ASSUME InputInv PROVE AppTypeOK
    OBVIOUS
  <2>1. /\ indexed \in 0 .. Len(Log) /\ running \in BOOLEAN /\ app \in KeyStates(indexed)
        /\ RowFits(app) /\ Moded(app) /\ Overlaid(app, indexed)
    BY DEF InputInv, Ready, Seen
  <2>2. /\ app.filter \subseteq Ordinals /\ app.visible \subseteq 0 .. indexed - 1
        /\ app.input_mode \in {"Normal", "Command", "Search"}
        /\ app.pending_prefix \in {None, "y", "d", "m", "'"}
        /\ app.overlay \in Overlays /\ app.previous_overlay \in Overlays
    BY <2>1 DEF KeyStates
  <2>3. \A o \in {app.overlay, app.previous_overlay} :
          /\ o.kind \in Kinds
          /\ o.cursor < Len(Listed(app, o)) \/ (o.cursor = 0 /\ Listed(app, o) = << >>)
    BY <2>1, <2>2 DEF Overlaid, CursorFits, Overlays
  <2> QED  BY <2>1, <2>2, <2>3 DEF AppTypeOK, NormalMode, CommandMode, Moded, RowFits
<1> QED  BY <1>1, InputInvAlways, PTL

(* open_overlay and esc_overlay: only a table of families whose order is    *)
(* open is ever parked, with its cursor on that order.                      *)
THEOREM ParentsAreDrilled == AppSpec => []ParentIsDrilled
<1>1. InputInv => ParentIsDrilled
  <2> SUFFICES ASSUME InputInv, app.previous_overlay.kind # "none"
               PROVE  /\ app.previous_overlay.kind = "Consolidated"
                      /\ app.overlay.kind = "Orders"
                      /\ app.overlay.id = AtCursor([app EXCEPT !.overlay = app.previous_overlay])[1]
    BY DEF ParentIsDrilled
  <2> DEFINE parent == app.previous_overlay
             t == [app EXCEPT !.overlay = parent]
  <2>1. app \in KeyStates(indexed) /\ Overlaid(app, indexed)
    BY DEF InputInv, Ready, Seen
  <2>2. /\ parent.kind = "Consolidated" /\ app.overlay.kind = "Orders"
        /\ parent.cursor < Len(parent.list)
        /\ app.overlay.id = parent.list[parent.cursor + 1]
    BY <2>1 DEF Overlaid
  <2>3. t.overlay = parent
    BY <2>1 DEF KeyStates
  <2>4. Listed(t, parent) = parent.list
    BY <2>2 DEF Listed
  <2> HIDE DEF t, parent
  <2>5. AtCursor(t) = <<parent.list[parent.cursor + 1]>>
    BY <2>2, <2>3, <2>4 DEF AtCursor
  <2> QED  BY <2>2, <2>5 DEF t, parent
<1> QED  BY <1>1, InputInvAlways, PTL

(* FollowWatcher: bookmarks, diff slots, timelines and the snapshot of the  *)
(* command line name only messages of the index in force.                   *)
THEOREM OrdinalsStayIndexed == AppSpec => []OrdinalsAreIndexed
<1>1. InputInv => OrdinalsAreIndexed
  <2> SUFFICES ASSUME InputInv PROVE OrdinalsAreIndexed
    OBVIOUS
  <2>1. app \in KeyStates(indexed) /\ Overlaid(app, indexed)
    BY DEF InputInv, Ready, Seen
  <2>2. MaybeOrdinal = Rows(indexed)
    BY DEF MaybeOrdinal, Rows
  <2>3. \A c \in Digits : app.bookmarks[c] \in MaybeOrdinal
    BY <2>1, <2>2 DEF KeyStates
  <2>4. \A i \in 1 .. 2 :
          app.diff_slots[i] \in
            MaybeOrdinal \ (IF app.overlay.kind = "Diff" THEN {None} ELSE {})
    <3>1. app.diff_slots \in Rows(indexed) \X Rows(indexed)
      BY <2>1 DEF KeyStates
    <3>2. app.diff_slots[1] \in MaybeOrdinal /\ app.diff_slots[2] \in MaybeOrdinal
      BY <2>2, <3>1
    <3>3. app.overlay.kind = "Diff" => app.diff_slots[1] # None /\ app.diff_slots[2] # None
      BY <2>1 DEF Overlaid
    <3>4. \A i \in 1 .. 2 : i = 1 \/ i = 2
      OBVIOUS
    <3> QED  BY <3>2, <3>3, <3>4
  <2>5. app.overlay.kind = "Orders" => ToSet(app.overlay.list) \subseteq 0 .. indexed - 1
    BY <2>1 DEF Overlaid
  <2>6. \A i \in DOMAIN app.filter_snapshot : app.filter_snapshot[i].row \in MaybeOrdinal
    <3>1. app.filter_snapshot = << >> \/ \E v \in Views(indexed) : app.filter_snapshot = <<v>>
      BY <2>1 DEF KeyStates
    <3>2. CASE app.filter_snapshot = << >>
      BY <3>2
    <3>3. ASSUME NEW v \in Views(indexed), app.filter_snapshot = <<v>>
          PROVE  \A i \in DOMAIN app.filter_snapshot :
                   app.filter_snapshot[i].row \in MaybeOrdinal
      <4>1. v.row \in MaybeOrdinal
        BY <2>2 DEF Views
      <4>2. \A i \in DOMAIN <<v>> : <<v>>[i] = v
        OBVIOUS
      <4> QED  BY <3>3, <4>1, <4>2
    <3> QED  BY <3>1, <3>2, <3>3
  <2> QED  BY <2>3, <2>4, <2>5, <2>6 DEF OrdinalsAreIndexed
<1> QED  BY <1>1, InputInvAlways, PTL

(* live_preview: Enter leaves the list that the preview of the typed filter *)
(* shows.                                                                  *)
THEOREM PreviewsAreKept == AppSpec => []PreviewIsKept
<1>1. InputInv => PreviewIsKept
  <2> SUFFICES ASSUME InputInv, NEW cmd, cmd = parse(app.command_buffer),
                      CommandMode, app.command_history_idx = None,
                      \/ cmd.kind = "ClearFilter"
                      \/ (cmd.kind = "Filter" /\ parse_query(cmd.arg) # << >>)
               PROVE  app.filter = execute(app, cmd).filter
    BY DEF PreviewIsKept
  <2>1. /\ Seen(app, indexed) /\ Given
        /\ cmd.kind = "ClearFilter" => app.filter = Ordinals
        /\ cmd.kind = "Filter" /\ parse_query(cmd.arg) # << >> =>
             app.filter = parse_query(cmd.arg)[1]
    BY DEF InputInv, Ready, Previewed, CommandMode, Given
  <2>2. CASE cmd.kind = "ClearFilter"
    <3>1. /\ execute(app, cmd) = filtered(app, Ordinals)
          /\ Ordinals \in SUBSET Ordinals
      BY <2>2 DEF execute
    <3> QED  BY <2>1, <2>2, <3>1, FilterSeen
  <2>3. CASE cmd.kind = "Filter" /\ parse_query(cmd.arg) # << >>
    <3>1. execute(app, cmd) = filtered(app, parse_query(cmd.arg)[1])
      BY <2>3 DEF execute
    <3>2. parse_query(cmd.arg)[1] \in SUBSET Ordinals
      BY <2>3, QueryIs
    <3> QED  BY <2>1, <2>3, <3>1, <3>2, FilterSeen
  <2> QED  BY <2>2, <2>3
<1> QED  BY <1>1, InputInvAlways, PTL
=============================================================================
