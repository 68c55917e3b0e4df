---------------------------- MODULE ScreenProofs ----------------------------
(***************************************************************************)
(* What is selected is on the screen and exists, for logs, filters, orders *)
(* and terminals of any size from four rows on, whatever is typed, resized, *)
(* written to the file or rotated in between.                              *)
(***************************************************************************)
EXTENDS Screen, FiniteSetTheorems, TLAPS

SnapshotsFit(s) ==
  \A i \in DOMAIN s.filter_snapshot :
    InRange(s.filter_snapshot[i].cursor, Len(s.filter_snapshot[i].visible))

FieldFits(s) == detail_fields_len(s) > 0 => s.detail_cursor < detail_fields_len(s)

TableFits(s) == s.overlay.rows > 0 => s.overlay.cursor < s.overlay.rows

(* What every handler may rely on, between any two of them: the cursors are *)
(* those of their rows, and a command can be taken back to rows and a       *)
(* cursor that fit each other.                                             *)
Sound(s) ==
  /\ s \in AppState
  /\ InRange(s.cursor, Len(s.visible))
  /\ TableFits(s)
  /\ FieldFits(s)
  /\ SnapshotsFit(s)
  /\ s.input_mode = "Command" => s.filter_snapshot # << >>

IInv == TypeOK /\ Sound(state) /\ CursorIsDrawn

Snapshot == [filter : SUBSET Ordinals, visible : Seq(Ordinals), cursor : Nat, viewport_top : Nat]

-----------------------------------------------------------------------------
LEMMA OrdinalsFinite == Len(Log) \in Nat /\ IsFiniteSet(Ordinals)
<1>1. Len(Log) \in Nat
  BY ConstantsAssumption
<1> QED  BY <1>1, FS_Interval DEF Ordinals

LEMMA RowsAreOrdinals ==
  ASSUME NEW S \in SUBSET Ordinals, NEW order, NEW w \in Rows(S, order)
  PROVE  w \in Seq(Ordinals) /\ DOMAIN w = 1 .. Len(w) /\ Len(w) \in Nat
<1>1. Cardinality(S) \in Nat
  BY OrdinalsFinite, FS_Subset, FS_CardinalityType
<1>2. w \in [1 .. Cardinality(S) -> Ordinals]
  BY DEF Rows
<1>3. w \in Seq(Ordinals)
  BY <1>1, <1>2
<1> QED  BY <1>3

LEMMA PassingAreOrdinals ==
  ASSUME NEW filter \in SUBSET Ordinals, NEW n, NEW w \in Passing(filter, n)
  PROVE  w \in Seq(Ordinals)
<1>1. PICK order \in Orders : w \in Rows(filter \cap 0 .. n - 1, order)
  BY DEF Passing
<1> QED  BY <1>1, RowsAreOrdinals

LEMMA LeastMost ==
  ASSUME NEW a \in Int, NEW b \in Int
  PROVE  /\ Least(a, b) \in Int /\ Least(a, b) <= a /\ Least(a, b) <= b
         /\ Least(a, b) \in {a, b}
         /\ Most(a, b) \in Int /\ Most(a, b) >= a /\ Most(a, b) >= b
         /\ Most(a, b) \in {a, b}
         /\ Minus(a, b) \in Nat /\ Minus(a, b) >= a - b
         /\ Minus(a, b) = IF a > b THEN a - b ELSE 0
BY DEF Least, Most, Minus

LEMMA FieldsLen ==
  ASSUME NEW s \in AppState
  PROVE  detail_fields_len(s) \in Nat
<1>1. CASE s.detail_cache = << >>
  BY <1>1 DEF detail_fields_len
<1>2. CASE s.detail_cache # << >>
  <2>1. PICK ord \in Ordinals : s.detail_cache = <<ord>>
    BY <1>2 DEF AppState
  <2>2. s.detail_cache[1] + 1 \in 1 .. Len(Log)
    BY <2>1, OrdinalsFinite DEF Ordinals
  <2>3. Log[s.detail_cache[1] + 1] \in Message
    BY <2>2, ConstantsAssumption
  <2> QED  BY <1>2, <2>3 DEF detail_fields_len, Message
<1> QED  BY <1>1, <1>2

LEMMA SameFields ==
  ASSUME NEW s, NEW t, t.detail_cache = s.detail_cache, t.skip_common = s.skip_common
  PROVE  detail_fields_len(t) = detail_fields_len(s)
BY DEF detail_fields_len

(* A handler that leaves the detail pane and the snapshot alone.           *)
LEMMA Kept ==
  ASSUME NEW s, Sound(s), NEW t \in AppState,
         t.detail_cache = s.detail_cache, t.skip_common = s.skip_common,
         t.detail_cursor = s.detail_cursor, t.filter_snapshot = s.filter_snapshot,
         t.input_mode \in {s.input_mode, "Normal", "Search"},
         InRange(t.cursor, Len(t.visible)), TableFits(t)
  PROVE  Sound(t)
<1>1. FieldFits(t)
  BY SameFields DEF Sound, FieldFits
<1>2. SnapshotsFit(t)
  BY DEF Sound, SnapshotsFit
<1> QED  BY <1>1, <1>2 DEF Sound

LEMMA Untouched ==
  ASSUME NEW s, Sound(s), NEW t \in AppState,
         t.detail_cache = s.detail_cache, t.skip_common = s.skip_common,
         t.detail_cursor = s.detail_cursor, t.filter_snapshot = s.filter_snapshot,
         t.input_mode \in {s.input_mode, "Normal", "Search"},
         t.visible = s.visible, t.cursor = s.cursor, t.overlay = s.overlay
  PROVE  Sound(t)
<1>1. InRange(t.cursor, Len(t.visible)) /\ TableFits(t)
  BY DEF Sound, TableFits
<1> QED  BY <1>1, Kept

LEMMA Refreshed ==
  ASSUME NEW s, Sound(s)
  PROVE  LET t == refresh_detail_cache(s)
         IN /\ Sound(t)
            /\ t.visible = s.visible /\ t.cursor = s.cursor /\ t.viewport_top = s.viewport_top
            /\ t.overlay = s.overlay /\ t.input_mode = s.input_mode
            /\ t.raw_detail_mode = s.raw_detail_mode
<1> DEFINE t == refresh_detail_cache(s)
<1>1. s \in AppState
  BY DEF Sound
<1>2. CASE s.visible = << >>
  <2>1. t = [s EXCEPT !.detail_cache = << >>]
    BY <1>2 DEF refresh_detail_cache
  <2>2. t \in AppState
    BY <1>1, <2>1 DEF AppState
  <2>3. detail_fields_len(t) = 0
    BY <1>1, <2>1 DEF detail_fields_len, AppState
  <2>4. FieldFits(t)
    BY <2>3 DEF FieldFits
  <2>5. SnapshotsFit(t) /\ TableFits(t)
    BY <1>1, <2>1 DEF Sound, SnapshotsFit, TableFits, AppState
  <2> QED  BY <1>1, <2>1, <2>2, <2>4, <2>5 DEF Sound, AppState
<1>3. CASE s.visible # << >> /\ s.detail_cache = <<s.visible[s.cursor + 1]>>
  BY <1>3 DEF refresh_detail_cache
<1>4. CASE s.visible # << >> /\ s.detail_cache # <<s.visible[s.cursor + 1]>>
  <2> DEFINE cached == <<s.visible[s.cursor + 1]>>
  <2>1. t = [s EXCEPT !.detail_cache = cached, !.detail_v_offset = 0, !.detail_cursor = 0]
    BY <1>4 DEF refresh_detail_cache
  <2>2. s.visible[s.cursor + 1] \in Ordinals
    <3>1. s.visible \in Seq(Ordinals) /\ s.cursor \in Nat /\ Len(s.visible) \in Nat
      BY <1>1 DEF AppState
    <3>2. s.cursor < Len(s.visible)
      BY <1>4, <3>1 DEF Sound, InRange
    <3> QED  BY <3>1, <3>2
  <2>3. 0 \in 0 .. MaxOffset
    BY ConstantsAssumption
  <2>8. cached \in {<<ord>> : ord \in Ordinals}
    BY <2>2
  <2>4. t \in AppState
    <3> DEFINE u == [s EXCEPT !.detail_v_offset = 0, !.detail_cursor = 0]
    <3>1. u \in AppState
      BY <1>1, <2>3 DEF AppState
    <3>2. t = [u EXCEPT !.detail_cache = cached]
      BY <1>1, <2>1 DEF AppState
    <3>3. cached \in {<< >>} \cup {<<ord>> : ord \in Ordinals}
      BY <2>8
    <3> HIDE DEF cached, u, t
    <3> QED  BY <3>1, <3>2, <3>3 DEF AppState
  <2>5. t.detail_cursor = 0 /\ detail_fields_len(t) \in Nat
    BY <1>1, <2>1, <2>4, FieldsLen DEF AppState
  <2>6. FieldFits(t)
    BY <2>5 DEF FieldFits
  <2>7. SnapshotsFit(t) /\ TableFits(t)
    BY <1>1, <2>1 DEF Sound, SnapshotsFit, TableFits, AppState
  <2> QED  BY <1>1, <2>1, <2>4, <2>6, <2>7 DEF Sound, AppState
<1> QED  BY <1>2, <1>3, <1>4

LEMMA ShownSound ==
  ASSUME NEW s, Sound(s), NEW visible \in Seq(Ordinals), NEW cursor \in Nat, NEW top \in Nat,
         InRange(cursor, Len(visible))
  PROVE  Sound(Shown(s, visible, cursor, top))
<1> DEFINE t == [s EXCEPT !.visible = visible, !.cursor = cursor,
                          !.viewport_top = top, !.detail_cache = << >>]
<1>1. s \in AppState
  BY DEF Sound
<1>2. t \in AppState
  BY <1>1 DEF AppState
<1>3. detail_fields_len(t) = 0
  BY <1>1 DEF detail_fields_len, AppState
<1>4. FieldFits(t)
  BY <1>3 DEF FieldFits
<1>5. SnapshotsFit(t) /\ TableFits(t)
  BY <1>1 DEF Sound, SnapshotsFit, TableFits, AppState
<1>6. Sound(t)
  BY <1>1, <1>2, <1>4, <1>5 DEF Sound, AppState
<1> QED  BY <1>6, Refreshed DEF Shown

LEMMA Filtered ==
  ASSUME NEW s, Sound(s), NEW filter \in SUBSET Ordinals, NEW visible \in Seq(Ordinals)
  PROVE  Sound(apply_filter(s, filter, visible))
<1> DEFINE t == [s EXCEPT !.filter = filter]
           c == Minus(Len(visible), 1)
<1>1. s \in AppState
  BY DEF Sound
<1>2. t \in AppState
  BY <1>1 DEF AppState
<1>3. Sound(t)
  BY <1>1, <1>2, Kept DEF Sound, AppState, TableFits
<1>4. c \in Nat /\ InRange(c, Len(visible))
  BY DEF Minus, Most, InRange
<1> QED  BY <1>3, <1>4, ShownSound DEF apply_filter

LEMMA Booted ==
  ASSUME NEW filter \in SUBSET Ordinals, NEW visible \in Seq(Ordinals)
  PROVE  Sound(bootstrap(filter, visible))
<1> DEFINE s == [filter |-> filter, visible |-> << >>, cursor |-> 0, viewport_top |-> 0,
     mode |-> "Follow", last_list_height |-> 0, detail_cache |-> << >>,
     raw_detail_mode |-> FALSE, skip_common |-> FALSE, focus |-> "List",
     detail_cursor |-> 0, detail_v_offset |-> 0, last_detail_height |-> 0,
     input_mode |-> "Normal", filter_snapshot |-> << >>, overlay |-> NoTable]
<1>1. s \in AppState
  <2>1. 0 \in 0 .. MaxOffset /\ NoTable \in Overlay
    BY ConstantsAssumption DEF NoTable, Overlay
  <2> QED  BY <2>1 DEF AppState
<1>2. FieldFits(s)
  BY DEF FieldFits, detail_fields_len
<1>3. SnapshotsFit(s) /\ TableFits(s) /\ InRange(s.cursor, Len(s.visible))
  BY DEF SnapshotsFit, TableFits, InRange, NoTable
<1>4. Sound(s)
  BY <1>1, <1>2, <1>3 DEF Sound
<1> HIDE DEF s
<1>5. Sound(apply_filter(s, filter, visible))
  BY <1>4, Filtered
<1> QED  BY <1>5 DEF bootstrap, s

-----------------------------------------------------------------------------
(* A frame.                                                                *)
LEMMA EnsuredShows ==
  ASSUME NEW top \in Nat, NEW cursor \in Nat, NEW len \in Nat, NEW height \in Nat
  PROVE  /\ Ensured(top, cursor, len, height) \in Nat
         /\ height > 0 /\ cursor < len => Shows(Ensured(top, cursor, len, height), cursor, len, height)
BY DEF Ensured, Shows, Least, Most, Minus

LEMMA ClampedShows ==
  ASSUME NEW hint \in Nat, NEW cursor \in Nat, NEW height \in Nat \ {0}, NEW total \in Nat,
         cursor < total
  PROVE  /\ clamp_viewport_top(hint, cursor, height, total) \in Nat
         /\ Shows(clamp_viewport_top(hint, cursor, height, total), cursor, total, height)
BY DEF clamp_viewport_top, Shows, Least, Most, Minus

LEMMA Heights ==
  ASSUME TypeOK
  PROVE  /\ Body \in Nat
         /\ Body >= 2 => ListRows \in Nat \ {0} /\ FieldRows \in Nat
         /\ size.table \in Nat \ {0}
<1>1. size.height \in Nat /\ size.height >= 4 /\ size.table \in Nat \ {0}
  BY ConstantsAssumption DEF TypeOK, Size
<1> QED  BY <1>1 DEF Body, ListRows, FieldRows

(* What a part of a frame leaves alone.                                    *)
Same(s, t) ==
  /\ t.visible = s.visible /\ t.cursor = s.cursor
  /\ t.input_mode = s.input_mode /\ t.raw_detail_mode = s.raw_detail_mode

LEMMA HeightsNext ==
  ASSUME TypeOK'
  PROVE  (Body >= 2 => FieldRows \in Nat)'
<1>1. size'.height \in Nat /\ size'.height >= 4
  BY ConstantsAssumption DEF TypeOK, Size
<1> QED  BY <1>1 DEF Body, FieldRows

LEMMA ListIsDrawn ==
  ASSUME TypeOK, NEW s, Sound(s)
  PROVE  LET t == DrawList(s)
         IN /\ Sound(t) /\ Same(s, t) /\ t.overlay = s.overlay
            /\ ListDrawn /\ s.visible # << >> =>
                 Shows(t.viewport_top, t.cursor, Len(t.visible), ListRows)
<1>1. CASE ~ ListDrawn
  BY <1>1 DEF DrawList, Same
<1>2. CASE ListDrawn
  <2> DEFINE top == Ensured(s.viewport_top, s.cursor, Len(s.visible), ListRows)
             t   == [s EXCEPT !.last_list_height = ListRows, !.viewport_top = top]
  <2>1. s \in AppState /\ ListRows \in Nat \ {0}
    BY <1>2, Heights DEF Sound, ListDrawn
  <2>2. s.viewport_top \in Nat /\ s.cursor \in Nat /\ Len(s.visible) \in Nat
    BY <2>1 DEF AppState
  <2>3. top \in Nat /\ (s.cursor < Len(s.visible) => Shows(top, s.cursor, Len(s.visible), ListRows))
    <3> DEFINE c == s.cursor
               l == Len(s.visible)
               v == s.viewport_top
               h == ListRows
    <3>1. v \in Nat /\ c \in Nat /\ l \in Nat /\ h \in Nat /\ h > 0
      BY <2>1, <2>2
    <3>2. /\ Ensured(v, c, l, h) \in Nat
          /\ h > 0 /\ c < l => Shows(Ensured(v, c, l, h), c, l, h)
      <4> HIDE DEF c, l, v, h
      <4> QED  BY <3>1, EnsuredShows
    <3> QED  BY <3>1, <3>2
  <2>4. s.visible # << >> => s.cursor < Len(s.visible)
    BY <2>1, <2>2 DEF Sound, InRange, AppState
  <2> HIDE DEF top
  <2>5. DrawList(s) = t
    BY <1>2 DEF DrawList, top
  <2>6. t \in AppState
    BY <2>1, <2>3 DEF AppState
  <2>7. Sound(t)
    BY <2>1, <2>6, Kept DEF Sound, AppState, TableFits
  <2>8. Same(s, t) /\ t.overlay = s.overlay /\ t.viewport_top = top
    BY <2>1 DEF Same, AppState
  <2> HIDE DEF t
  <2> QED  BY <2>3, <2>4, <2>5, <2>7, <2>8 DEF Same
<1> QED  BY <1>1, <1>2

LEMMA DetailIsDrawn ==
  ASSUME TypeOK, NEW s, Sound(s)
  PROVE  LET t == DrawDetail(s)
         IN Sound(t) /\ Same(s, t) /\ t.overlay = s.overlay /\ t.viewport_top = s.viewport_top
<1> DEFINE r == refresh_detail_cache(s)
<1>1. /\ Sound(r) /\ r \in AppState /\ Same(s, r)
      /\ r.overlay = s.overlay /\ r.viewport_top = s.viewport_top
  BY Refreshed DEF Sound, Same
<1> HIDE DEF r
<1>2. DrawDetail(s) \in {s, r} \cup
        (IF DetailDrawn THEN {[r EXCEPT !.last_detail_height = Body - 1],
                [r EXCEPT !.last_detail_height = FieldRows, !.detail_v_offset = Clamped(r)]} ELSE {})
  BY DEF DrawDetail, r
<1>3. ASSUME DetailDrawn, NEW h \in Nat, NEW v \in 0 .. MaxOffset
      PROVE  LET t == [r EXCEPT !.last_detail_height = h, !.detail_v_offset = v]
             IN Sound(t) /\ Same(s, t) /\ t.overlay = s.overlay /\ t.viewport_top = s.viewport_top
  <2> DEFINE t == [r EXCEPT !.last_detail_height = h, !.detail_v_offset = v]
  <2>1. t \in AppState
    BY <1>1, <1>3 DEF AppState
  <2>2. Sound(t)
    BY <1>1, <2>1, Kept DEF Sound, AppState, TableFits
  <2> QED  BY <1>1, <2>2 DEF Same, AppState
<1>4. DetailDrawn => Body - 1 \in Nat /\ FieldRows \in Nat
  BY Heights DEF DetailDrawn
<1>5. r.detail_v_offset \in 0 .. MaxOffset /\ detail_fields_len(r) \in Nat
  BY <1>1, FieldsLen DEF AppState
<1>6. DetailDrawn => Clamped(r) \in 0 .. MaxOffset
  BY <1>4, <1>5, ConstantsAssumption DEF Clamped, Least, Minus, Most
<1>7. [r EXCEPT !.last_detail_height = Body - 1]
        = [r EXCEPT !.last_detail_height = Body - 1, !.detail_v_offset = r.detail_v_offset]
  BY <1>1 DEF AppState
<1>8. Same(s, s)
  BY DEF Same
<1> DEFINE a == [r EXCEPT !.last_detail_height = Body - 1, !.detail_v_offset = r.detail_v_offset]
           b == [r EXCEPT !.last_detail_height = FieldRows, !.detail_v_offset = Clamped(r)]
           Fine(t) == /\ Sound(t) /\ Same(s, t) /\ t.overlay = s.overlay
                      /\ t.viewport_top = s.viewport_top
<1>9. Fine(s) /\ Fine(r)
  BY <1>1, <1>8
<1>10. DetailDrawn => Fine(a)
  BY <1>3, <1>4, <1>5
<1>11. DetailDrawn => Fine(b)
  BY <1>3, <1>4, <1>6
<1>12. DrawDetail(s) \in {s, r} \/ (DetailDrawn /\ DrawDetail(s) \in {a, b})
  BY <1>2, <1>7
<1> HIDE DEF a, b, Fine
<1>13. Fine(DrawDetail(s))
  BY <1>9, <1>10, <1>11, <1>12
<1> QED  BY <1>13 DEF Fine

LEMMA TableIsDrawn ==
  ASSUME TypeOK, NEW s, Sound(s)
  PROVE  LET t == DrawTable(s)
             o == t.overlay
         IN /\ Sound(t) /\ Same(s, t) /\ t.viewport_top = s.viewport_top
            /\ o.rows > 0 =>
                 o.cursor < o.rows /\ Shows(o.viewport_top, o.cursor, o.rows, size.table)
<1>1. s \in AppState /\ s.overlay \in Overlay
  BY DEF Sound, AppState
<1>2. CASE s.overlay.rows = 0
  BY <1>1, <1>2 DEF DrawTable, Same, Overlay
<1>3. CASE s.overlay.rows # 0
  <2> DEFINE top == clamp_viewport_top(s.overlay.viewport_top, s.overlay.cursor, size.table, s.overlay.rows)
             o   == [s.overlay EXCEPT !.viewport_top = top]
             t   == [s EXCEPT !.overlay = o]
  <2>1. s.overlay.rows \in Nat \ {0} /\ s.overlay.cursor \in Nat /\ s.overlay.viewport_top \in Nat
    BY <1>1, <1>3 DEF Overlay
  <2>2. s.overlay.cursor < s.overlay.rows
    BY <2>1 DEF Sound, TableFits
  <2>3. top \in Nat /\ Shows(top, s.overlay.cursor, s.overlay.rows, size.table)
    BY <2>1, <2>2, Heights, ClampedShows
  <2> HIDE DEF top
  <2>4. o \in Overlay /\ o.rows = s.overlay.rows /\ o.cursor = s.overlay.cursor /\ o.viewport_top = top
    BY <1>1, <2>3 DEF Overlay
  <2> HIDE DEF o
  <2>5. DrawTable(s) = t
    BY <1>1, <1>3 DEF DrawTable, o, top, AppState
  <2>6. t \in AppState /\ t.overlay = o
    BY <1>1, <2>4 DEF AppState
  <2>7. Sound(t)
    BY <1>1, <2>2, <2>4, <2>6, Kept DEF Sound, AppState, TableFits
  <2>8. Same(s, t) /\ t.viewport_top = s.viewport_top
    BY <1>1 DEF Same, AppState
  <2> HIDE DEF t
  <2> QED  BY <2>2, <2>3, <2>4, <2>5, <2>6, <2>7, <2>8
<1> QED  BY <1>2, <1>3

-----------------------------------------------------------------------------
(* The frame that Draw makes of the state, part after part.                *)
LEMMA FrameIsDrawn ==
  ASSUME IInv, Draw
  PROVE  IInv'
<1> DEFINE l == DrawList(state)
           d == DrawDetail(l)
           t == DrawTable(d)
<1>1. TypeOK /\ Sound(state)
  BY DEF IInv
<1>2. /\ Sound(l) /\ Same(state, l)
      /\ ListDrawn /\ state.visible # << >> =>
           Shows(l.viewport_top, l.cursor, Len(l.visible), ListRows)
  BY <1>1, ListIsDrawn
<1>3. Sound(d) /\ Same(l, d) /\ d.viewport_top = l.viewport_top
  <2> HIDE DEF l
  <2> QED  BY <1>1, <1>2, DetailIsDrawn
<1>4. /\ Sound(t) /\ Same(d, t) /\ t.viewport_top = d.viewport_top
      /\ t.overlay.rows > 0 =>
           /\ t.overlay.cursor < t.overlay.rows
           /\ Shows(t.overlay.viewport_top, t.overlay.cursor, t.overlay.rows, size.table)
  <2> HIDE DEF d
  <2> QED  BY <1>1, <1>3, TableIsDrawn
<1>5. state' = t /\ pc' = "event" /\ UNCHANGED <<tty, size, indexed, aimed>>
  BY DEF Draw
<1> HIDE DEF t, d, l
<1>6. /\ t.visible = state.visible /\ t.cursor = state.cursor
      /\ t.input_mode = state.input_mode /\ t.raw_detail_mode = state.raw_detail_mode
      /\ t.viewport_top = l.viewport_top /\ l.cursor = state.cursor /\ l.visible = state.visible
  BY <1>2, <1>3, <1>4 DEF Same
<1>7. ListDrawn' = ListDrawn /\ ListRows' = ListRows
  BY <1>5, <1>6 DEF ListDrawn, ListRows, Body
<1>8. TypeOK'
  BY <1>1, <1>4, <1>5 DEF TypeOK, Sound
<1>9. ListDrawn' /\ state'.visible # << >> =>
        Shows(state'.viewport_top, state'.cursor, Len(state'.visible), ListRows')
  BY <1>2, <1>5, <1>6, <1>7
<1>10. CursorIsDrawn'
  BY <1>4, <1>5, <1>9 DEF CursorIsDrawn, Shows, Minus, Most
<1> QED  BY <1>4, <1>5, <1>8, <1>10 DEF IInv

-----------------------------------------------------------------------------
(* A key: what it makes of the state must be sound.                        *)
LEMMA EventKeeps ==
  ASSUME IInv, NEW s, NEW aims \in BOOLEAN, Event(s, aims), Sound(s)
  PROVE  IInv'
<1>1. TypeOK'
  BY DEF IInv, TypeOK, Event, Sound
<1>2. CursorIsDrawn'
  BY DEF Event, CursorIsDrawn
<1> QED  BY <1>1, <1>2 DEF IInv, Event

LEMMA KeyKeeps ==
  ASSUME IInv, NEW s, Key(s), Sound(s)
  PROVE  IInv'
BY EventKeeps DEF Key

LEMMA TargetsAreRows ==
  ASSUME NEW cursor \in Nat, NEW step \in Nat, NEW end \in Nat, NEW c \in Targets(cursor, step, end)
  PROVE  c \in 0 .. end
<1>1. CASE c = 0
  BY <1>1
<1>2. CASE c # 0
  <2>1. PICK d \in {1, -1, step, - step} : c = offset_cursor(cursor, d, end)
    BY <1>2 DEF Targets
  <2>2. d \in Int
    OBVIOUS
  <2> QED  BY <2>1, <2>2 DEF offset_cursor, Least, Minus, Most
<1> QED  BY <1>1, <1>2

LEMMA HalfPageIsNat == ASSUME NEW h \in Nat PROVE HalfPage(h) \in Nat
BY DEF HalfPage, Most

LEMMA PreviewIsSound ==
  ASSUME IInv, NEW filter \in Filters \cup {Ordinals}, NEW visible \in Passing(filter, indexed)
  PROVE  Sound(apply_filter(state, filter, visible))
<1>1. filter \in SUBSET Ordinals
  BY ConstantsAssumption
<1>2. visible \in Seq(Ordinals)
  BY <1>1, PassingAreOrdinals
<1> QED  BY <1>1, <1>2, Filtered DEF IInv

LEMMA LastIsRow ==
  ASSUME NEW s \in AppState
  PROVE  /\ Len(s.visible) \in Nat /\ Last(s) \in Nat
         /\ s.visible # << >> => Last(s) = Len(s.visible) - 1 /\ Len(s.visible) > 0
<1>1. s.visible \in Seq(Ordinals)
  BY DEF AppState
<1>2. Len(s.visible) \in Nat /\ (s.visible # << >> => Len(s.visible) > 0)
  BY <1>1
<1> HIDE DEF AppState
<1> QED  BY <1>2 DEF Last, Minus, Most

(* A key that sets the mode, the cursor of the list and its window.        *)
LEMMA MovedSound ==
  ASSUME IInv, NEW c \in Nat, InRange(c, Len(state.visible)),
         NEW mode \in {"Follow", "Browse"}, NEW input_mode \in {state.input_mode, "Normal"}
  PROVE  Sound([state EXCEPT !.cursor = c, !.mode = mode, !.input_mode = input_mode])
<1> DEFINE t == [state EXCEPT !.cursor = c, !.mode = mode, !.input_mode = input_mode]
<1>1. state \in AppState /\ Sound(state)
  BY DEF IInv, Sound
<1>2. t \in AppState
  BY <1>1 DEF AppState
<1>3. TableFits(t)
  BY <1>1 DEF Sound, TableFits, AppState
<1> QED  BY <1>1, <1>2, <1>3, Kept DEF AppState

LEMMA SnapshotReplaced ==
  ASSUME NEW s \in AppState, NEW q \in Seq(Snapshot)
  PROVE  /\ [s EXCEPT !.filter_snapshot = q] \in AppState
         /\ [s EXCEPT !.filter_snapshot = q].filter_snapshot = q
<1>1. [s EXCEPT !.filter_snapshot = q].filter_snapshot = q
  BY DEF AppState
<1>2. [s EXCEPT !.filter_snapshot = q] \in AppState
  BY DEF AppState, Snapshot
<1> QED  BY <1>1, <1>2

LEMMA UserKeeps ==
  ASSUME IInv, User
  PROVE  IInv'
<1>1. state \in AppState /\ Sound(state) /\ TypeOK
  BY DEF IInv, Sound
<1>2. CASE TableKey
  <2> DEFINE end == state.overlay.rows - 1
  <2>1. state.overlay \in Overlay /\ end \in Nat /\ state.overlay.cursor \in Nat
    BY <1>1, <1>2 DEF TableKey, AppState, Overlay
  <2>2. PICK c \in Targets(state.overlay.cursor, 10, end) \cup {end} :
          Key([state EXCEPT !.overlay.cursor = c])
    BY <1>2 DEF TableKey
  <2> DEFINE o == [state.overlay EXCEPT !.cursor = c]
             t == [state EXCEPT !.overlay = o]
  <2>3. c \in 0 .. end
    <3> HIDE DEF end
    <3> QED  BY <2>1, <2>2, TargetsAreRows
  <2>4. o \in Overlay /\ o.cursor < o.rows
    BY <2>1, <2>3 DEF Overlay
  <2>5. Key(t)
    BY <2>2
  <2> HIDE DEF o
  <2>6. t \in AppState /\ t.overlay = o
    BY <1>1, <2>4 DEF AppState
  <2>7. Sound(t)
    BY <1>1, <2>4, <2>6, Kept DEF Sound, AppState, TableFits
  <2> HIDE DEF t
  <2> QED  BY <2>5, <2>7, KeyKeeps
<1>3. CASE CloseTable
  <2> DEFINE t == [state EXCEPT !.overlay = NoTable]
  <2>1. NoTable \in Overlay /\ NoTable.rows = 0
    BY DEF NoTable, Overlay
  <2> HIDE DEF NoTable
  <2>2. t \in AppState /\ t.overlay = NoTable
    BY <1>1, <2>1 DEF AppState
  <2>4. TableFits(t)
    BY <2>1, <2>2 DEF TableFits
  <2>3. Sound(t)
    BY <1>1, <2>2, <2>4, Kept DEF Sound, AppState
  <2> QED  BY <1>3, <2>3, KeyKeeps DEF CloseTable
<1>4. CASE move_cursor
  <2>1. CASE Key(state)
    BY <1>1, <2>1, KeyKeeps
  <2>2. ASSUME state.visible # << >>,
               NEW c \in Targets(state.cursor, HalfPage(state.last_list_height), Last(state)),
               Key([state EXCEPT !.cursor = c, !.mode = "Browse"])
        PROVE  IInv'
    <3>1. state.cursor \in Nat /\ HalfPage(state.last_list_height) \in Nat
      BY <1>1, HalfPageIsNat DEF AppState
    <3>2. c \in 0 .. Last(state)
      BY <1>1, <2>2, <3>1, LastIsRow, TargetsAreRows
    <3>3. c \in Nat /\ InRange(c, Len(state.visible))
      BY <1>1, <2>2, <3>2, LastIsRow DEF InRange
    <3>4. [state EXCEPT !.cursor = c, !.mode = "Browse"]
            = [state EXCEPT !.cursor = c, !.mode = "Browse", !.input_mode = state.input_mode]
      BY <1>1 DEF AppState
    <3> QED  BY <2>2, <3>3, <3>4, MovedSound, KeyKeeps
  <2>3. CASE /\ state.visible # << >>
             /\ Key([state EXCEPT !.cursor = Last(state), !.mode = "Follow"])
    <3>1. Last(state) \in Nat /\ InRange(Last(state), Len(state.visible))
      BY <1>1, <2>3, LastIsRow DEF InRange
    <3>2. [state EXCEPT !.cursor = Last(state), !.mode = "Follow"]
            = [state EXCEPT !.cursor = Last(state), !.mode = "Follow", !.input_mode = state.input_mode]
      BY <1>1 DEF AppState
    <3> QED  BY <2>3, <3>1, <3>2, MovedSound, KeyKeeps
  <2> QED  BY <1>4, <2>1, <2>2, <2>3 DEF move_cursor
<1>5. CASE ScrollRaw
  <2>1. PICK v \in Targets(state.detail_v_offset, HalfPage(state.last_detail_height), MaxOffset)
                     \cup {MaxOffset} : Key([state EXCEPT !.detail_v_offset = v])
    BY <1>5 DEF ScrollRaw
  <2>2. /\ MaxOffset \in Nat /\ state.detail_v_offset \in Nat
        /\ HalfPage(state.last_detail_height) \in Nat
    BY <1>1, ConstantsAssumption, HalfPageIsNat DEF AppState
  <2>3. v \in 0 .. MaxOffset
    BY <2>1, <2>2, TargetsAreRows
  <2> DEFINE t == [state EXCEPT !.detail_v_offset = v]
  <2>4. t \in AppState
    BY <1>1, <2>3 DEF AppState
  <2>5. Sound(t)
    BY <1>1, <2>4, Kept DEF Sound, AppState, TableFits
  <2> QED  BY <2>1, <2>5, KeyKeeps
<1>6. CASE detail_scroll
  <2> DEFINE end == detail_fields_len(state) - 1
  <2>1. detail_fields_len(state) \in Nat
    BY <1>1, FieldsLen
  <2>2. CASE Key(state)
    BY <1>1, <2>2, KeyKeeps
  <2>3. ASSUME end >= 0,
               NEW c \in {end} \cup
                 Targets(state.detail_cursor, HalfPage(state.last_detail_height), end),
               Event(Aimed(state, c), TRUE)
        PROVE  IInv'
    <3>1. end \in Nat /\ state.detail_cursor \in Nat /\ HalfPage(state.last_detail_height) \in Nat
      <4>1. state.detail_cursor \in Nat /\ state.last_detail_height \in Nat
        BY <1>1 DEF AppState
      <4>2. end \in Nat
        BY <2>1, <2>3
      <4> QED  BY <4>1, <4>2, HalfPageIsNat
    <3>2. c \in 0 .. end
      <4> HIDE DEF end
      <4> QED  BY <2>3, <3>1, TargetsAreRows
    <3> DEFINE data_rows == Most(state.last_detail_height - 1, 1)
               v == IF c < state.detail_v_offset THEN Least(c, MaxOffset)
                    ELSE IF c >= state.detail_v_offset + data_rows
                         THEN Least(c + 1 - data_rows, MaxOffset) ELSE state.detail_v_offset
               t == [state EXCEPT !.detail_cursor = c, !.detail_v_offset = v]
    <3>3. v \in 0 .. MaxOffset
      <4>1. state.detail_v_offset \in 0 .. MaxOffset /\ state.last_detail_height \in Nat
        BY <1>1 DEF AppState
      <4>2. data_rows \in Nat /\ data_rows > 0
        BY <4>1 DEF Most
      <4>3. c \in Nat /\ MaxOffset \in Nat
        BY <2>1, <3>2, ConstantsAssumption
      <4> HIDE DEF data_rows
      <4> QED  BY <4>1, <4>2, <4>3 DEF Least
    <3>4. Aimed(state, c) = t
      BY <1>1 DEF Aimed, AppState
    <3> HIDE DEF v
    <3>10. c \in Nat
      BY <2>1, <3>2
    <3>5. t \in AppState
      BY <1>1, <3>10, <3>3 DEF AppState
    <3>6. detail_fields_len(t) = detail_fields_len(state) /\ t.detail_cursor = c
      BY <1>1, SameFields DEF AppState
    <3>7. FieldFits(t)
      BY <2>1, <3>2, <3>6 DEF FieldFits
    <3>8. SnapshotsFit(t) /\ TableFits(t)
      BY <1>1 DEF Sound, SnapshotsFit, TableFits, AppState
    <3>9. Sound(t)
      BY <1>1, <3>5, <3>7, <3>8 DEF Sound, AppState
    <3> HIDE DEF t
    <3> QED  BY <2>3, <3>4, <3>9, EventKeeps
  <2> QED  BY <1>6, <2>2, <2>3 DEF detail_scroll
<1>7. CASE ToggleSkipCommon
  <2> DEFINE t == [state EXCEPT !.skip_common = ~ @]
             n == detail_fields_len(t)
             c == Least(state.detail_cursor, Minus(n, 1))
             u == [t EXCEPT !.detail_cursor = c]
  <2>1. t \in AppState
    BY <1>1 DEF AppState
  <2>2. n \in Nat /\ state.detail_cursor \in Nat /\ t.detail_cursor = state.detail_cursor
    BY <1>1, <2>1, FieldsLen DEF AppState
  <2>3. Skipped(state) = u
    BY <2>2 DEF Skipped
  <2>4. SnapshotsFit(u) /\ TableFits(u) /\ InRange(u.cursor, Len(u.visible))
    BY <1>1 DEF Sound, SnapshotsFit, TableFits, AppState
  <2>5. u.input_mode = state.input_mode /\ u.filter_snapshot = state.filter_snapshot
    BY <1>1 DEF AppState
  <2>6. detail_fields_len(u) = n /\ u.detail_cursor = c
    BY <2>1, SameFields DEF AppState
  <2> HIDE DEF n
  <2>7. c \in Nat /\ (n > 0 => c < n)
    BY <2>2 DEF Least, Minus, Most
  <2> HIDE DEF c, t
  <2>8. u \in AppState
    BY <2>1, <2>7 DEF AppState
  <2> HIDE DEF u
  <2>9. Sound(u)
    BY <1>1, <2>4, <2>5, <2>6, <2>7, <2>8 DEF Sound, FieldFits
  <2> QED  BY <1>7, <2>3, <2>9, KeyKeeps DEF ToggleSkipCommon
<1>8. CASE ToggleRawDetail
  <2> DEFINE t == [state EXCEPT !.raw_detail_mode = ~ @]
  <2>1. t \in AppState
    BY <1>1 DEF AppState
  <2>2. Sound(t)
    BY <1>1, <2>1, Untouched DEF AppState
  <2> QED  BY <1>8, <2>2, KeyKeeps DEF ToggleRawDetail
<1>9. CASE ScrollHome
  <2> DEFINE t == [state EXCEPT !.detail_v_offset = 0]
  <2>3. 0 \in 0 .. MaxOffset
    BY ConstantsAssumption
  <2>1. t \in AppState
    BY <1>1, <2>3 DEF AppState
  <2>2. Sound(t)
    BY <1>1, <2>1, Untouched DEF AppState
  <2> QED  BY <1>9, <2>2, KeyKeeps DEF ScrollHome
<1>10. CASE FocusNext
  <2> DEFINE t == [state EXCEPT !.focus = IF @ = "List" THEN "Detail" ELSE "List"]
  <2>1. t \in AppState
    BY <1>1 DEF AppState
  <2>2. Sound(t)
    BY <1>1, <2>1, Untouched DEF AppState
  <2> QED  BY <1>10, <2>2, KeyKeeps DEF FocusNext
<1>11. CASE OtherKey
  <2> DEFINE t == [state EXCEPT !.mode = "Browse"]
  <2>1. t \in AppState
    BY <1>1 DEF AppState
  <2>2. Sound(t)
    BY <1>1, <2>1, Untouched DEF AppState
  <2> QED  BY <1>1, <1>11, <2>2, KeyKeeps DEF OtherKey
<1>12. CASE toggle_mode
  <2> DEFINE c == IF state.visible = << >> THEN state.cursor ELSE Last(state)
             t == [state EXCEPT !.mode = "Follow", !.cursor = c]
  <2>4. state.cursor \in Nat /\ InRange(state.cursor, Len(state.visible))
    BY <1>1 DEF Sound, AppState
  <2>5. state.visible = << >> => c \in Nat /\ InRange(c, Len(state.visible))
    BY <2>4
  <2>6. state.visible # << >> => c \in Nat /\ InRange(c, Len(state.visible))
    BY <1>1, LastIsRow DEF InRange
  <2>1. c \in Nat /\ InRange(c, Len(state.visible))
    BY <2>5, <2>6
  <2>2. Key(t)
    BY <1>1, <1>12 DEF toggle_mode, AppState
  <2> HIDE DEF c
  <2>3. t = [state EXCEPT !.cursor = c, !.mode = "Follow", !.input_mode = state.input_mode]
    BY <1>1 DEF AppState
  <2> QED  BY <2>1, <2>2, <2>3, MovedSound, KeyKeeps
<1>13. CASE JumpTo
  <2>1. PICK c \in 0 .. Len(state.visible) - 1 :
          Key([state EXCEPT !.cursor = c, !.mode = "Browse", !.input_mode = "Normal"])
    BY <1>13 DEF JumpTo
  <2>2. c \in Nat /\ InRange(c, Len(state.visible))
    BY <1>1, LastIsRow DEF InRange
  <2> QED  BY <2>1, <2>2, MovedSound, KeyKeeps
<1>14. CASE cycle_sort_key
  <2>1. CASE Key([state EXCEPT !.viewport_top = 0])
    <3> DEFINE t == [state EXCEPT !.viewport_top = 0]
    <3>1. t \in AppState
      BY <1>1 DEF AppState
    <3>2. Sound(t)
      BY <1>1, <3>1, Kept DEF Sound, AppState, TableFits
    <3> QED  BY <2>1, <3>2, KeyKeeps
  <2> DEFINE S == {state.visible[i] : i \in DOMAIN state.visible}
  <2>2. ASSUME NEW order \in Orders, NEW visible \in Rows(S, order), NEW c \in DOMAIN visible,
               Key([state EXCEPT !.visible = visible, !.cursor = c - 1, !.viewport_top = 0])
        PROVE  IInv'
    <3>1. S \in SUBSET Ordinals
      <4>1. state.visible \in Seq(Ordinals)
        BY <1>1 DEF AppState
      <4> QED  BY <4>1
    <3> HIDE DEF S
    <3>2. visible \in Seq(Ordinals) /\ DOMAIN visible = 1 .. Len(visible) /\ Len(visible) \in Nat
      BY <3>1, RowsAreOrdinals
    <3>3. c - 1 \in Nat /\ InRange(c - 1, Len(visible))
      BY <3>2 DEF InRange
    <3> DEFINE t == [state EXCEPT !.visible = visible, !.cursor = c - 1, !.viewport_top = 0]
    <3>4. t \in AppState
      BY <1>1, <3>2, <3>3 DEF AppState
    <3>5. Sound(t)
      BY <1>1, <3>3, <3>4, Kept DEF Sound, AppState, TableFits
    <3> QED  BY <2>2, <3>5, KeyKeeps
  <2> QED  BY <1>14, <2>1, <2>2 DEF cycle_sort_key
<1>15. CASE Refilter
  BY <1>15, PreviewIsSound, KeyKeeps DEF Refilter
<1>16. CASE EnterCommand
  <2> DEFINE snap == [filter |-> state.filter, visible |-> state.visible, cursor |-> state.cursor,
                      viewport_top |-> state.viewport_top]
             t == [state EXCEPT !.input_mode = "Command", !.filter_snapshot = <<snap>>]
  <2>1. snap \in [filter : SUBSET Ordinals, visible : Seq(Ordinals), cursor : Nat, viewport_top : Nat]
    BY <1>1 DEF AppState
  <2>2. InRange(snap.cursor, Len(snap.visible))
    BY <1>1 DEF Sound
  <2>3. Key(t)
    BY <1>16 DEF EnterCommand
  <2> HIDE DEF snap
  <2> DEFINE u == [state EXCEPT !.input_mode = "Command"]
             q == <<snap>>
  <2>9. u \in AppState
    BY <1>1 DEF AppState
  <2>10. q \in Seq(Snapshot)
    BY <2>1 DEF Snapshot
  <2>11. t = [u EXCEPT !.filter_snapshot = q]
    BY <1>1 DEF AppState
  <2>4. t \in AppState /\ t.filter_snapshot = <<snap>>
    <3>1. t \in AppState /\ t.filter_snapshot = q
      <4> HIDE DEF u, q, t
      <4> QED  BY <2>9, <2>10, <2>11, SnapshotReplaced
    <3> QED  BY <3>1
  <2>5. SnapshotsFit(t)
    BY <2>2, <2>4 DEF SnapshotsFit
  <2>6. FieldFits(t)
    BY <1>1, SameFields DEF Sound, FieldFits, AppState
  <2>7. TableFits(t) /\ InRange(t.cursor, Len(t.visible)) /\ t.filter_snapshot # << >>
    BY <1>1, <2>4 DEF Sound, TableFits, AppState
  <2> HIDE DEF t
  <2>8. Sound(t)
    BY <2>4, <2>5, <2>6, <2>7 DEF Sound
  <2> QED  BY <2>3, <2>8, KeyKeeps
<1>17. CASE EnterSearch
  <2> DEFINE t == [state EXCEPT !.input_mode = "Search"]
  <2>1. t \in AppState
    BY <1>1 DEF AppState
  <2>2. Sound(t)
    BY <1>1, <2>1, Untouched DEF AppState
  <2> QED  BY <1>17, <2>2, KeyKeeps DEF EnterSearch
<1>18. CASE SearchCancel
  <2> DEFINE t == [state EXCEPT !.input_mode = "Normal"]
  <2>1. t \in AppState
    BY <1>1 DEF AppState
  <2>2. Sound(t)
    BY <1>1, <2>1, Untouched DEF AppState
  <2> QED  BY <1>18, <2>2, KeyKeeps DEF SearchCancel
<1>19. CASE live_preview
  BY <1>19, PreviewIsSound, KeyKeeps DEF live_preview
<1>20. Sound(Submitted) /\ Submitted \in AppState
  <2>1. Submitted \in AppState
    <3> DEFINE u == [state EXCEPT !.input_mode = "Normal"]
               q == << >>
    <3>3. q \in Seq(Snapshot)
      OBVIOUS
    <3>4. u \in AppState
      BY <1>1 DEF AppState
    <3>1. u \in AppState /\ q \in Seq(Snapshot)
      BY <3>3, <3>4
    <3>2. Submitted = [u EXCEPT !.filter_snapshot = q]
      BY <1>1 DEF Submitted, AppState
    <3> HIDE DEF u, q
    <3> QED  BY <3>1, <3>2, SnapshotReplaced
  <2>2. FieldFits(Submitted)
    BY <1>1, SameFields DEF Sound, FieldFits, Submitted, AppState
  <2>3. SnapshotsFit(Submitted)
    BY <1>1 DEF SnapshotsFit, Submitted, AppState
  <2>4. /\ TableFits(Submitted) /\ InRange(Submitted.cursor, Len(Submitted.visible))
        /\ Submitted.input_mode = "Normal"
    BY <1>1 DEF Sound, TableFits, Submitted, AppState
  <2> QED  BY <2>1, <2>2, <2>3, <2>4 DEF Sound
<1>21. CASE CommandCancel
  <2> DEFINE snap == state.filter_snapshot[1]
             t == [Submitted EXCEPT !.filter = snap.filter]
  <2>1. 1 \in DOMAIN state.filter_snapshot
    BY <1>1, <1>21 DEF CommandCancel, InCommand, Sound, AppState
  <2>7. snap \in Snapshot /\ InRange(snap.cursor, Len(snap.visible))
    <3>1. state.filter_snapshot \in Seq(Snapshot)
      BY <1>1 DEF AppState, Snapshot
    <3>2. snap \in Snapshot
      BY <2>1, <3>1
    <3>3. InRange(snap.cursor, Len(snap.visible))
      BY <1>1, <2>1 DEF Sound, SnapshotsFit
    <3> QED  BY <3>2, <3>3
  <2>2. /\ snap.filter \in SUBSET Ordinals /\ snap.visible \in Seq(Ordinals)
        /\ snap.cursor \in Nat /\ snap.viewport_top \in Nat
        /\ InRange(snap.cursor, Len(snap.visible))
    <3> HIDE DEF snap
    <3> QED  BY <2>7 DEF Snapshot
  <2>3. Key(Shown(t, snap.visible, snap.cursor, snap.viewport_top))
    BY <1>21 DEF CommandCancel
  <2> HIDE DEF snap
  <2>4. t \in AppState
    BY <1>20, <2>2 DEF AppState
  <2>5. Sound(t)
    BY <1>20, <2>4, Kept DEF Sound, AppState, TableFits
  <2> HIDE DEF t
  <2>6. Sound(Shown(t, snap.visible, snap.cursor, snap.viewport_top))
    BY <2>2, <2>5, ShownSound
  <2> QED  BY <2>3, <2>6, KeyKeeps
<1>22. CASE submit_command
  <2>1. CASE Key(Submitted)
    BY <1>20, <2>1, KeyKeeps
  <2>2. ASSUME NEW n \in Families \ {0},
               Key([Submitted EXCEPT !.overlay = [NoTable EXCEPT !.rows = n]])
        PROVE  IInv'
    <3> DEFINE o == [NoTable EXCEPT !.rows = n]
               t == [Submitted EXCEPT !.overlay = o]
    <3>1. n \in Nat /\ n > 0
      BY ConstantsAssumption
    <3>2. o \in Overlay /\ o.cursor < o.rows
      BY <3>1 DEF NoTable, Overlay
    <3> HIDE DEF o
    <3>3. t \in AppState /\ t.overlay = o
      BY <1>20, <3>2 DEF AppState
    <3>4. Sound(t)
      BY <1>20, <3>2, <3>3, Kept DEF Sound, AppState, TableFits
    <3> HIDE DEF t
    <3>5. Key(t)
      BY <2>2 DEF t, o
    <3> QED  BY <3>4, <3>5, KeyKeeps
  <2> QED  BY <1>22, <2>1, <2>2 DEF submit_command
<1> QED  BY <1>2, <1>3, <1>4, <1>5, <1>6, <1>7, <1>8, <1>9, <1>10, <1>11, <1>12, <1>13, <1>14,
            <1>15, <1>16, <1>17, <1>18, <1>19, <1>21, <1>22 DEF User

-----------------------------------------------------------------------------
LEMMA GrownSound ==
  ASSUME IInv, PollGrown
  PROVE  IInv'
<1> DEFINE visible == IF indexed \in state.filter THEN Append(state.visible, indexed)
                      ELSE state.visible
           c == IF state.mode = "Follow" /\ visible # << >> THEN Len(visible) - 1 ELSE state.cursor
           t == [state EXCEPT !.visible = visible, !.cursor = c]
<1>1. state \in AppState /\ Sound(state) /\ TypeOK /\ indexed \in Nat /\ Len(Log) \in Nat
  BY OrdinalsFinite DEF IInv, Sound, TypeOK
<1>2. /\ state' = t /\ pc' = "draw" /\ indexed' = indexed + 1 /\ indexed < Len(Log)
      /\ UNCHANGED <<tty, size, aimed>>
  BY DEF PollGrown
<1>3. state.visible \in Seq(Ordinals) /\ indexed \in Ordinals
  BY <1>1, <1>2 DEF AppState, Ordinals
<1>4. visible \in Seq(Ordinals) /\ Len(visible) \in {Len(state.visible), Len(state.visible) + 1}
  BY <1>3
<1>5. Len(state.visible) \in Nat /\ Len(visible) \in Nat /\ (visible # << >> => Len(visible) > 0)
  BY <1>3, <1>4
<1>6. state.cursor \in Nat /\ InRange(state.cursor, Len(state.visible))
  BY <1>1 DEF Sound, AppState
<1> HIDE DEF visible
<1>7. c \in Nat /\ InRange(c, Len(visible))
  BY <1>4, <1>5, <1>6 DEF InRange
<1> HIDE DEF c
<1>8. t \in AppState
  BY <1>1, <1>4, <1>7 DEF AppState
<1>9. Sound(t)
  BY <1>1, <1>7, <1>8, Kept DEF Sound, AppState, TableFits
<1> HIDE DEF t
<1>10. TypeOK'
  BY <1>1, <1>2, <1>8 DEF TypeOK
<1> QED  BY <1>2, <1>9, <1>10 DEF IInv, CursorIsDrawn

LEMMA RebuiltSound ==
  ASSUME IInv, PollRebuilt
  PROVE  IInv'
<1>1. PICK visible \in Passing(state.filter, indexed') : state' = bootstrap(state.filter, visible)
  BY DEF PollRebuilt
<1>2. state.filter \in SUBSET Ordinals
  BY DEF IInv, Sound, AppState
<1>3. visible \in Seq(Ordinals)
  BY <1>2, PassingAreOrdinals
<1>4. Sound(state')
  BY <1>1, <1>2, <1>3, Booted
<1>5. TypeOK'
  BY <1>4 DEF IInv, TypeOK, PollRebuilt, Sound
<1> QED  BY <1>4, <1>5 DEF IInv, CursorIsDrawn, PollRebuilt

LEMMA InvInit == Init => IInv
<1> SUFFICES ASSUME Init PROVE IInv
  OBVIOUS
<1>1. PICK filter \in Filters \cup {Ordinals} : \E visible \in Passing(filter, indexed) :
        state = bootstrap(filter, visible)
  BY DEF Init
<1>2. PICK visible \in Passing(filter, indexed) : state = bootstrap(filter, visible)
  BY <1>1
<1>3. filter \in SUBSET Ordinals
  BY ConstantsAssumption
<1>4. Sound(state)
  BY <1>2, <1>3, PassingAreOrdinals, Booted
<1>5. TypeOK
  BY <1>4 DEF Init, TypeOK, Cooked, Sound
<1> QED  BY <1>4, <1>5 DEF IInv, CursorIsDrawn, Init

LEMMA InvNext == IInv /\ [Next]_vars => IInv'
<1> SUFFICES ASSUME IInv, [Next]_vars PROVE IInv'
  OBVIOUS
<1>1. CASE Draw
  BY <1>1, FrameIsDrawn
<1>2. CASE User
  BY <1>2, UserKeeps
<1>3. CASE PollGrown
  BY <1>3, GrownSound
<1>4. CASE PollRebuilt
  BY <1>4, RebuiltSound
<1>5. CASE EnableRawMode \/ EnterAlternateScreen \/ NewTerminal \/ Leave
  <2>1. TypeOK'
    BY <1>5 DEF IInv, TypeOK, EnableRawMode, EnterAlternateScreen, NewTerminal, Leave, leave
  <2>2. state' = state /\ pc' # "event"
    BY <1>5 DEF EnableRawMode, EnterAlternateScreen, NewTerminal, Leave
  <2> QED  BY <2>1, <2>2 DEF IInv, CursorIsDrawn
<1>6. CASE Resize
  <2>1. TypeOK' /\ state' = state /\ pc' # "event"
    BY <1>6 DEF IInv, TypeOK, Resize
  <2> QED  BY <2>1 DEF IInv, CursorIsDrawn
<1>7. CASE PollIdle
  <2>1. TypeOK' /\ state' = state /\ pc' # "event"
    BY <1>7 DEF IInv, TypeOK, PollIdle
  <2> QED  BY <2>1 DEF IInv, CursorIsDrawn
<1>8. CASE UNCHANGED vars
  <2>1. TypeOK'
    BY <1>8 DEF IInv, TypeOK, vars
  <2>2. CursorIsDrawn'
    BY <1>8 DEF IInv, CursorIsDrawn, ListDrawn, ListRows, Body, Shows, Minus, Most, vars
  <2> QED  BY <1>8, <2>1, <2>2 DEF IInv, vars
<1> QED  BY <1>1, <1>2, <1>3, <1>4, <1>5, <1>6, <1>7, <1>8 DEF Next

LEMMA InvAlways == Spec => []IInv
<1>1. Init => IInv
  BY InvInit
<1>2. IInv /\ [Next]_vars => IInv'
  BY InvNext
<1> QED  BY <1>1, <1>2, PTL DEF Spec

(* The state keeps its types: the offset of the detail pane stays a u16,   *)
(* whatever the fields and whatever G asked for.                           *)
THEOREM TypeCorrect == Spec => []TypeOK
<1>1. IInv => TypeOK
  BY DEF IInv
<1> QED  BY <1>1, InvAlways, PTL

(* view::list and view::consolidated: when a key is taken, the row that it *)
(* acts upon exists and is on the screen, in a terminal of four rows of    *)
(* height or more, after any resize, filter, sort, growth or rotation.     *)
THEOREM CursorStaysDrawn == Spec => []CursorIsDrawn
<1>1. IInv => CursorIsDrawn
  BY DEF IInv
<1> QED  BY <1>1, InvAlways, PTL

(* detail_fields_len: wherever the message in the detail pane has fields,  *)
(* the cursor that f and x take is one of them.                            *)
THEOREM FieldStaysThere == Spec => []FieldIsThere
<1>1. IInv => FieldIsThere
  BY DEF IInv, Sound, FieldFits, FieldIsThere
<1> QED  BY <1>1, InvAlways, PTL

-----------------------------------------------------------------------------
(* The cursor over the fields, from the key that moves it to the next frame. *)

(* What the frame that is on the screen found for the keys.                *)
HeightIsDrawn ==
  pc = "event" /\ DetailDrawn /\ ~ state.raw_detail_mode /\ detail_fields_len(state) > 0 =>
    state.last_detail_height = FieldRows

(* After such a key, whatever was polled, the cursor is in the window that  *)
(* the next frame starts from.                                              *)
AimIsKept ==
  aimed =>
    /\ pc \in {"event", "poll", "draw", "ended"}
    /\ pc \in {"poll", "draw"} =>
         /\ state.detail_v_offset <= state.detail_cursor
         /\ DetailDrawn /\ FieldRows > 0 =>
              state.detail_cursor < state.detail_v_offset + FieldRows

AimInv == IInv /\ HeightIsDrawn /\ AimIsKept /\ DetailFollows

(* Every field of every message is one that a u16 can count.               *)
FieldsFit == \A i \in DOMAIN Log : Log[i].common + Log[i].own <= MaxOffset

LEMMA FieldsAreCounted ==
  ASSUME FieldsFit, NEW s \in AppState
  PROVE  detail_fields_len(s) <= MaxOffset
<1>0. MaxOffset \in Nat
  BY ConstantsAssumption
<1>1. CASE s.detail_cache = << >>
  BY <1>0, <1>1 DEF detail_fields_len
<1>2. CASE s.detail_cache # << >>
  <2>1. PICK ord \in Ordinals : s.detail_cache = <<ord>>
    BY <1>2 DEF AppState
  <2> DEFINE m == Log[s.detail_cache[1] + 1]
  <2>2. s.detail_cache[1] + 1 \in 1 .. Len(Log)
    BY <2>1, OrdinalsFinite DEF Ordinals
  <2>3. m \in Message /\ m.common + m.own <= MaxOffset
    BY <2>2, ConstantsAssumption DEF FieldsFit
  <2>4. m.common \in Nat /\ m.own \in Nat
    BY <2>3 DEF Message
  <2>5. detail_fields_len(s) = IF ~ m.parses THEN 0 ELSE m.own + IF s.skip_common THEN 0 ELSE m.common
    BY <1>2 DEF detail_fields_len
  <2> HIDE DEF m
  <2> QED  BY <1>0, <2>3, <2>4, <2>5
<1> QED  BY <1>1, <1>2

(* The detail pane of a frame: the fields are clamped, and the cursor is    *)
(* kept unless another message is shown from its first field.               *)
LEMMA FieldsAreDrawn ==
  ASSUME TypeOK, NEW s, Sound(s), DetailDrawn, ~ s.raw_detail_mode,
         NEW t, t = DrawDetail(s), detail_fields_len(t) > 0
  PROVE  /\ t.last_detail_height = FieldRows
         /\ \E v \in Nat :
              /\ t.detail_v_offset
                   = Least(v, Least(Minus(detail_fields_len(t), FieldRows), MaxOffset))
              /\ \/ v = s.detail_v_offset /\ t.detail_cursor = s.detail_cursor
                 \/ v = 0 /\ t.detail_cursor = 0
<1> DEFINE r == refresh_detail_cache(s)
           u == [r EXCEPT !.last_detail_height = FieldRows, !.detail_v_offset = Clamped(r)]
<1>1. Sound(r) /\ r.raw_detail_mode = s.raw_detail_mode /\ r \in AppState /\ s \in AppState
  BY Refreshed DEF Sound
<1>2. /\ r.detail_cache # << >> =>
           \/ r.detail_v_offset = s.detail_v_offset /\ r.detail_cursor = s.detail_cursor
           \/ r.detail_v_offset = 0 /\ r.detail_cursor = 0
  BY <1>1 DEF refresh_detail_cache, AppState
<1> HIDE DEF r
<1>3. t = IF r.detail_cache = << >> \/ ~ Log[r.detail_cache[1] + 1].parses THEN r ELSE u
  BY <1>1 DEF DrawDetail, r
<1>4. CASE r.detail_cache = << >> \/ ~ Log[r.detail_cache[1] + 1].parses
  BY <1>3, <1>4 DEF detail_fields_len
<1>5. CASE ~ (r.detail_cache = << >> \/ ~ Log[r.detail_cache[1] + 1].parses)
  <2>1. t = u
    BY <1>3, <1>5
  <2>2. /\ u.detail_cache = r.detail_cache /\ u.skip_common = r.skip_common
        /\ u.detail_cursor = r.detail_cursor
        /\ u.last_detail_height = FieldRows /\ u.detail_v_offset = Clamped(r)
    BY <1>1 DEF AppState
  <2> HIDE DEF u
  <2>3. detail_fields_len(t) = detail_fields_len(r)
    BY <2>1, <2>2, SameFields
  <2>4. r.detail_v_offset \in Nat
    BY <1>1, ConstantsAssumption DEF AppState
  <2>5. t.detail_v_offset
          = Least(r.detail_v_offset, Least(Minus(detail_fields_len(t), FieldRows), MaxOffset))
    BY <2>1, <2>2, <2>3 DEF Clamped
  <2> QED  BY <1>2, <1>5, <2>1, <2>2, <2>4, <2>5
<1> QED  BY <1>4, <1>5

(* The other parts of a frame leave the detail pane alone.                 *)
SamePane(s, t) ==
  /\ t.detail_cache = s.detail_cache /\ t.skip_common = s.skip_common
  /\ t.detail_cursor = s.detail_cursor /\ t.detail_v_offset = s.detail_v_offset
  /\ t.last_detail_height = s.last_detail_height

LEMMA FrameShowsAim ==
  ASSUME AimInv, Draw
  PROVE  HeightIsDrawn' /\ AimIsKept' /\ DetailFollows'
<1> DEFINE l == DrawList(state)
           d == DrawDetail(l)
           t == DrawTable(d)
<1>1. TypeOK /\ Sound(state) /\ state \in AppState
  BY DEF AimInv, IInv, Sound
<1>2. /\ Sound(l) /\ Same(state, l)
  BY <1>1, ListIsDrawn
<1>3. SamePane(state, l)
  BY <1>1 DEF SamePane, DrawList, AppState
<1>4. Sound(d) /\ Same(l, d)
  <2> HIDE DEF l
  <2> QED  BY <1>1, <1>2, DetailIsDrawn
<1>5. Sound(t) /\ Same(d, t)
  <2> HIDE DEF d
  <2> QED  BY <1>1, <1>4, TableIsDrawn
<1>6. SamePane(d, t)
  <2>1. d \in AppState
    BY <1>4 DEF Sound
  <2> HIDE DEF d
  <2> QED  BY <2>1 DEF SamePane, DrawTable, AppState
<1>7. state' = t /\ pc = "draw" /\ pc' = "event" /\ UNCHANGED <<tty, size, indexed, aimed>>
  BY DEF Draw
<1>8. d = DrawDetail(l)
  OBVIOUS
<1> HIDE DEF t, d, l
<1>9. /\ t.input_mode = state.input_mode /\ t.raw_detail_mode = state.raw_detail_mode
      /\ l.raw_detail_mode = state.raw_detail_mode
  BY <1>2, <1>4, <1>5 DEF Same
<1>10. Body' = Body /\ FieldRows' = FieldRows /\ DetailDrawn' = DetailDrawn
  BY <1>7, <1>9 DEF DetailDrawn, FieldRows, Body
<1>11. AimIsKept'
  BY <1>7 DEF AimInv, AimIsKept
<1>12. detail_fields_len(state') = detail_fields_len(d)
  BY <1>6, <1>7, SameFields DEF SamePane
<1> SUFFICES ASSUME DetailDrawn, ~ state.raw_detail_mode, detail_fields_len(d) > 0
             PROVE  HeightIsDrawn' /\ DetailFollows'
  BY <1>7, <1>9, <1>10, <1>11, <1>12 DEF HeightIsDrawn, DetailFollows
<1> DEFINE n == detail_fields_len(d)
<1>13. d.last_detail_height = FieldRows
  BY <1>1, <1>2, <1>8, <1>9, FieldsAreDrawn
<1>14. PICK v \in Nat :
         /\ d.detail_v_offset = Least(v, Least(Minus(n, FieldRows), MaxOffset))
         /\ \/ v = l.detail_v_offset /\ d.detail_cursor = l.detail_cursor
            \/ v = 0 /\ d.detail_cursor = 0
  BY <1>1, <1>2, <1>8, <1>9, FieldsAreDrawn
<1>15. HeightIsDrawn'
  BY <1>6, <1>7, <1>10, <1>13 DEF HeightIsDrawn, SamePane
<1>16. /\ n \in Nat /\ d.detail_cursor \in Nat /\ d.detail_cursor < n
       /\ FieldRows \in Nat /\ MaxOffset \in Nat
       /\ state.detail_cursor \in Nat /\ state.detail_v_offset \in 0 .. MaxOffset
  BY <1>1, <1>4, FieldsLen, Heights, ConstantsAssumption
     DEF Sound, FieldFits, AppState, DetailDrawn
<1> HIDE DEF n
<1>17. state.detail_v_offset \in Nat
  BY <1>16
<1>18. l.detail_v_offset = state.detail_v_offset /\ l.detail_cursor = state.detail_cursor
  BY <1>3 DEF SamePane
<1>19. state'.detail_v_offset = d.detail_v_offset /\ state'.detail_cursor = d.detail_cursor
  BY <1>6, <1>7 DEF SamePane
<1>20. FieldRows > 0 => d.detail_v_offset <= Minus(n, FieldRows)
  BY <1>14, <1>16 DEF Least, Minus, Most
<1>21. aimed /\ FieldRows > 0 =>
         d.detail_cursor \in d.detail_v_offset .. d.detail_v_offset + FieldRows - 1
  <2> SUFFICES ASSUME aimed, FieldRows > 0
               PROVE  d.detail_cursor \in d.detail_v_offset .. d.detail_v_offset + FieldRows - 1
    OBVIOUS
  <2>1. /\ state.detail_v_offset <= state.detail_cursor
        /\ state.detail_cursor < state.detail_v_offset + FieldRows
    BY <1>7 DEF AimInv, AimIsKept
  <2>2. v <= d.detail_cursor /\ d.detail_cursor < v + FieldRows
    BY <1>14, <1>16, <1>17, <1>18, <2>1
  <2>3. /\ d.detail_v_offset <= v /\ d.detail_v_offset \in Nat
        /\ d.detail_v_offset \in {v, Minus(n, FieldRows)}
    BY <1>14, <1>16, <1>18 DEF Least, Minus, Most
  <2>4. d.detail_v_offset <= d.detail_cursor
    BY <1>16, <2>2, <2>3
  <2>5. d.detail_cursor < d.detail_v_offset + FieldRows
    <3>1. CASE d.detail_v_offset = Minus(n, FieldRows)
      BY <1>16, <3>1 DEF Minus, Most
    <3>2. CASE d.detail_v_offset = v
      BY <2>2, <3>2
    <3> QED  BY <2>3, <3>1, <3>2
  <2> QED  BY <1>16, <2>3, <2>4, <2>5
<1>22. DetailFollows'
  BY <1>7, <1>10, <1>12, <1>19, <1>20, <1>21 DEF DetailFollows, Minus, Most, n
<1> QED  BY <1>11, <1>15, <1>22

(* A key over the fields: the offset follows the cursor, in the rows that   *)
(* the last frame has found.                                                *)
LEMMA AimFollows ==
  ASSUME FieldsFit, AimInv, detail_scroll, aimed'
  PROVE  AimIsKept'
<1> DEFINE n == detail_fields_len(state)
           h == state.last_detail_height
           rows == Most(h - 1, 1)
           at == state.detail_v_offset
<1>1. /\ TypeOK /\ state \in AppState /\ pc = "event"
      /\ Normal /\ ~ state.raw_detail_mode
  <2>1. detail_scroll => pc = "event"
    BY DEF detail_scroll, Key, Event
  <2> QED  BY <2>1 DEF AimInv, IInv, Sound, detail_scroll, Nav
<1>2. n \in Nat /\ h \in Nat /\ at \in 0 .. MaxOffset /\ MaxOffset \in Nat /\ state.detail_cursor \in Nat
  BY <1>1, FieldsLen, ConstantsAssumption DEF AppState
<1>3. n <= MaxOffset
  BY <1>1, FieldsAreCounted DEF AimInv
<1>4. PICK c \in {n - 1} \cup Targets(state.detail_cursor, HalfPage(h), n - 1) :
        n - 1 >= 0 /\ Event(Aimed(state, c), TRUE)
  <2>1. ~ Key(state)
    BY DEF Key, Event
  <2> QED  BY <2>1 DEF detail_scroll
<1>5. c \in 0 .. n - 1
  <2>1. HalfPage(h) \in Nat /\ n - 1 \in Nat
    BY <1>2, <1>4, HalfPageIsNat
  <2>2. CASE c = n - 1
    BY <2>1, <2>2
  <2>3. CASE c \in Targets(state.detail_cursor, HalfPage(h), n - 1)
    <3> HIDE DEF n, h
    <3> QED  BY <1>2, <2>1, <2>3, TargetsAreRows
  <2> QED  BY <1>4, <2>2, <2>3
<1>6. DetailDrawn => h = FieldRows
  BY <1>1, <1>2, <1>4 DEF AimInv, HeightIsDrawn
<1> DEFINE to == IF c < at THEN Least(c, MaxOffset)
                 ELSE IF c >= at + rows THEN Least(c + 1 - rows, MaxOffset) ELSE at
<1>7. /\ state' = [state EXCEPT !.detail_cursor = c, !.detail_v_offset = to]
      /\ pc' = "poll" /\ UNCHANGED size
  BY <1>4 DEF Event, Aimed
<1> HIDE DEF n, h
<1>8. to <= c /\ c < to + rows
  BY <1>2, <1>3, <1>5 DEF Least, Most
<1>9. rows = 1 \/ rows = h - 1
  BY <1>2 DEF Most
<1> HIDE DEF to, rows
<1>10. /\ state'.detail_cursor = c /\ state'.detail_v_offset = to
       /\ state'.input_mode = state.input_mode /\ state'.raw_detail_mode = state.raw_detail_mode
  BY <1>1, <1>7 DEF AppState
<1>11. DetailDrawn' = DetailDrawn /\ FieldRows' = FieldRows
  BY <1>7, <1>10 DEF DetailDrawn, FieldRows, Body
<1>12. DetailDrawn => FieldRows \in Nat
  BY <1>1, Heights DEF DetailDrawn
<1>13. to \in Int /\ rows \in Int
  BY <1>2, <1>5 DEF to, rows, Least, Most
<1>14. DetailDrawn /\ FieldRows > 0 => c < to + FieldRows
  BY <1>2, <1>5, <1>6, <1>8, <1>9, <1>12, <1>13
<1> QED  BY <1>7, <1>8, <1>10, <1>11, <1>14 DEF AimIsKept

LEMMA OthersDoNotAim ==
  ASSUME User, ~ detail_scroll
  PROVE  pc' = "poll" /\ aimed' = FALSE
<1> USE DEF Key, Event
<1>1. CASE TableKey \/ CloseTable \/ move_cursor \/ ScrollRaw
  BY <1>1 DEF TableKey, CloseTable, move_cursor, ScrollRaw
<1>2. CASE ToggleSkipCommon \/ ToggleRawDetail \/ ScrollHome \/ FocusNext \/ OtherKey
  BY <1>2 DEF ToggleSkipCommon, ToggleRawDetail, ScrollHome, FocusNext, OtherKey
<1>3. CASE toggle_mode \/ JumpTo \/ cycle_sort_key \/ Refilter
  BY <1>3 DEF toggle_mode, JumpTo, cycle_sort_key, Refilter
<1>4. CASE EnterCommand \/ EnterSearch \/ SearchCancel \/ live_preview
  BY <1>4 DEF EnterCommand, EnterSearch, SearchCancel, live_preview
<1>5. CASE CommandCancel \/ submit_command
  BY <1>5 DEF CommandCancel, submit_command
<1> QED  BY <1>1, <1>2, <1>3, <1>4, <1>5 DEF User

LEMMA UserAims ==
  ASSUME FieldsFit, AimInv, User
  PROVE  HeightIsDrawn' /\ AimIsKept' /\ DetailFollows'
<1>1. pc' = "poll"
  <2>1. detail_scroll => pc' = "poll"
    BY DEF detail_scroll, Key, Event
  <2> QED  BY <2>1, OthersDoNotAim
<1>2. HeightIsDrawn' /\ DetailFollows'
  BY <1>1 DEF HeightIsDrawn, DetailFollows
<1>3. CASE detail_scroll /\ aimed'
  BY <1>2, <1>3, AimFollows
<1>4. CASE detail_scroll /\ ~ aimed'
  BY <1>2, <1>4 DEF AimIsKept
<1>5. CASE ~ detail_scroll
  BY <1>2, <1>5, OthersDoNotAim DEF AimIsKept
<1> QED  BY <1>3, <1>4, <1>5

(* The poll before the next frame: new rows leave the pane alone, and a     *)
(* rebuilt state starts from the first field.                               *)
LEMMA PollKeepsAim ==
  ASSUME AimInv, PollIdle \/ PollGrown \/ PollRebuilt
  PROVE  HeightIsDrawn' /\ AimIsKept' /\ DetailFollows'
<1>1. pc = "poll" /\ pc' = "draw" /\ UNCHANGED <<size, aimed>> /\ state \in AppState
  BY DEF PollIdle, PollGrown, PollRebuilt, AimInv, IInv, Sound
<1>2. HeightIsDrawn' /\ DetailFollows'
  BY <1>1 DEF HeightIsDrawn, DetailFollows
<1>3. CASE PollIdle \/ PollGrown
  <2>1. /\ state'.detail_cursor = state.detail_cursor
        /\ state'.detail_v_offset = state.detail_v_offset
        /\ state'.input_mode = state.input_mode /\ state'.raw_detail_mode = state.raw_detail_mode
    BY <1>1, <1>3 DEF PollIdle, PollGrown, AppState
  <2>2. DetailDrawn' = DetailDrawn /\ FieldRows' = FieldRows
    BY <1>1, <2>1 DEF DetailDrawn, FieldRows, Body
  <2> QED  BY <1>1, <1>2, <2>1, <2>2 DEF AimInv, AimIsKept
<1>4. CASE PollRebuilt
  <2>1. PICK visible \in Passing(state.filter, indexed') : state' = bootstrap(state.filter, visible)
    BY <1>4 DEF PollRebuilt
  <2>2. state'.detail_cursor = 0 /\ state'.detail_v_offset = 0
    BY <2>1 DEF bootstrap, apply_filter, Shown, refresh_detail_cache
  <2>3. (DetailDrawn => FieldRows \in Nat)'
    <3>1. TypeOK'
      BY <1>4, RebuiltSound DEF AimInv, IInv
    <3> QED  BY <3>1, HeightsNext DEF DetailDrawn
  <2>4. AimIsKept'
    BY <1>1, <2>2, <2>3 DEF AimIsKept
  <2> QED  BY <1>2, <2>4
<1> QED  BY <1>3, <1>4

LEMMA AimInit == Init => AimInv
<1> SUFFICES ASSUME Init PROVE AimInv
  OBVIOUS
<1>1. IInv
  BY InvInit
<1>2. pc = "enable_raw_mode" /\ aimed = FALSE
  BY DEF Init
<1> QED  BY <1>1, <1>2 DEF AimInv, HeightIsDrawn, AimIsKept, DetailFollows

LEMMA AimNext ==
  ASSUME FieldsFit
  PROVE  AimInv /\ [Next]_vars => AimInv'
<1> SUFFICES ASSUME AimInv, [Next]_vars PROVE AimInv'
  OBVIOUS
<1>0. IInv'
  BY InvNext DEF AimInv
<1> SUFFICES HeightIsDrawn' /\ AimIsKept' /\ DetailFollows'
  BY <1>0 DEF AimInv
<1>1. CASE Draw
  BY <1>1, FrameShowsAim
<1>2. CASE User
  BY <1>2, UserAims
<1>3. CASE PollIdle \/ PollGrown \/ PollRebuilt
  BY <1>3, PollKeepsAim
<1>4. CASE EnableRawMode \/ EnterAlternateScreen \/ NewTerminal \/ Leave
  <2>1. /\ UNCHANGED aimed /\ pc' # "event"
        /\ pc \in {"enable_raw_mode", "alternate", "terminal"} \/ pc' = "ended"
    BY <1>4 DEF EnableRawMode, EnterAlternateScreen, NewTerminal, Leave
  <2>2. HeightIsDrawn' /\ DetailFollows'
    BY <2>1 DEF HeightIsDrawn, DetailFollows
  <2>3. AimIsKept'
    BY <2>1 DEF AimInv, AimIsKept
  <2> QED  BY <2>2, <2>3
<1>5. CASE Resize
  <2>1. ~ aimed' /\ pc' # "event"
    BY <1>5 DEF Resize
  <2> QED  BY <2>1 DEF HeightIsDrawn, AimIsKept, DetailFollows
<1>6. CASE UNCHANGED vars
  <2>1. UNCHANGED <<pc, size, state, aimed>>
    BY <1>6 DEF vars
  <2>2. /\ DetailDrawn' = DetailDrawn /\ FieldRows' = FieldRows
        /\ detail_fields_len(state') = detail_fields_len(state)
    BY <2>1 DEF DetailDrawn, FieldRows, Body
  <2>3. HeightIsDrawn'
    BY <2>1, <2>2 DEF AimInv, HeightIsDrawn
  <2>4. AimIsKept'
    BY <2>1, <2>2 DEF AimInv, AimIsKept
  <2>5. DetailFollows'
    BY <2>1, <2>2 DEF AimInv, DetailFollows, Minus, Most
  <2> QED  BY <2>3, <2>4, <2>5
<1> QED  BY <1>1, <1>2, <1>3, <1>4, <1>5, <1>6 DEF Next

(* view::detail, detail_scroll: a key that moves the cursor over the fields *)
(* leaves it on the screen, whatever arrives before the next frame, and the *)
(* offset never leaves rows blank while fields are above them; in terminals *)
(* of any size, for messages of up to u16::MAX fields.                      *)
THEOREM FieldsAreFollowed ==
  ASSUME FieldsFit
  PROVE  Spec => []DetailFollows
<1>1. Init => AimInv
  BY AimInit
<1>2. AimInv /\ [Next]_vars => AimInv'
  BY AimNext
<1>3. AimInv => DetailFollows
  BY DEF AimInv
<1> QED  BY <1>1, <1>2, <1>3, PTL DEF Spec

=============================================================================
