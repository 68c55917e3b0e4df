------------------------------- MODULE Screen -------------------------------
(***************************************************************************)
(* fixlog-tui: what is on the screen.  The loop of lib.rs draws a frame,   *)
(* takes one event and polls the file, in a terminal that a guard puts     *)
(* into raw mode and the alternate screen and takes back out of them.      *)
(* Drawing writes to the state: the list and the consolidated table scroll *)
(* to their cursors, the detail pane caches a message and clamps its       *)
(* offset, and the heights they find are what the half-page keys use.      *)
(*                                                                         *)
(* A message is how many fields it has, and the user's filter is the set   *)
(* of the ordinals that pass.  How rows are filtered, sorted and followed  *)
(* is in MessageList, which keys go to an overlay in TuiInput.  Columns    *)
(* and the horizontal offsets are left out.                                *)
(***************************************************************************)
EXTENDS Integers, Sequences, FiniteSets

CONSTANTS
  Log,       (* the messages of the file, from the first on                *)
  Filters,   (* the ordinals that pass an expression of the user           *)
  Orders,    (* the sort keys: a rank for every ordinal                    *)
  Families,  (* the numbers of rows that :consolidated may find            *)
  Sizes,     (* the sizes the terminal may have                            *)
  MaxOffset  (* u16::MAX                                                   *)

Ordinals == 0 .. Len(Log) - 1

(* common counts the fields in COMMON_TAGS, own the others.                *)
Message == [parses : BOOLEAN, common : Nat, own : Nat]

(* detail: the 40 % of the width are 10 columns or more.  table: the rows  *)
(* that borders and header leave of the 80 % of the height.                *)
Size == [height : {n \in Nat : n >= 4}, detail : BOOLEAN, table : Nat \ {0}]

ASSUME ConstantsAssumption ==
  /\ Log \in Seq(Message)
  /\ Filters \subseteq SUBSET Ordinals
  /\ Orders \subseteq [Ordinals -> Nat] /\ Orders # {}
  /\ Families \subseteq Nat
  /\ Sizes \subseteq Size /\ Sizes # {}
  /\ MaxOffset \in Nat

VARIABLES
  pc,       (* where run is                                                *)
  tty,      (* what has been done to the terminal: raw mode, the alternate *)
            (* screen, and whether a guard will undo it                    *)
  size,     (* the size that the last frame was drawn for                  *)
  indexed,  (* number of messages in the index                             *)
  state,    (* AppState                                                    *)
  aimed     (* history: the last key moved the cursor of the detail pane,  *)
            (* for the size that the terminal has                          *)

vars == <<pc, tty, size, indexed, state, aimed>>

-----------------------------------------------------------------------------
(* draw: title, status and the line of a command or a search take the rest. *)
Body == size.height - 2 - IF state.input_mode = "Normal" THEN 0 ELSE 1

(* The panes return early from an area that is too small.                  *)
ListDrawn == ~ state.raw_detail_mode /\ Body >= 2
DetailDrawn == Body >= 2 /\ (state.raw_detail_mode \/ size.detail)

ListRows == Body - 1    (* without the header                              *)
FieldRows == Body - 2   (* without the title and the header                *)

Least(a, b) == IF a < b THEN a ELSE b
Most(a, b) == IF a > b THEN a ELSE b
Minus(a, b) == Most(a - b, 0)

(* The ordinals of a set in the order of a sort key.                       *)
Rows(S, order) ==
  {w \in [1 .. Cardinality(S) -> S] :
     \A i, j \in 1 .. Cardinality(S) : i < j => order[w[i]] < order[w[j]]}

Last(s) == Minus(Len(s.visible), 1)

(* detail_fields_len, of the message in the cache.                         *)
detail_fields_len(s) ==
  IF s.detail_cache = << >> THEN 0
  ELSE LET m == Log[s.detail_cache[1] + 1]
       IN IF ~ m.parses THEN 0
          ELSE m.own + IF s.skip_common THEN 0 ELSE m.common

(* refresh_detail_cache: another message is read from its first field.     *)
refresh_detail_cache(s) ==
  IF s.visible = << >> THEN [s EXCEPT !.detail_cache = << >>]
  ELSE LET cached == <<s.visible[s.cursor + 1]>>
       IN IF s.detail_cache = cached THEN s
          ELSE [s EXCEPT !.detail_cache = cached,
                         !.detail_v_offset = 0, !.detail_cursor = 0]

(* apply_filter and restore_filter: the cache is made anew.                *)
Shown(s, visible, cursor, top) ==
  refresh_detail_cache([s EXCEPT !.visible = visible, !.cursor = cursor,
                                 !.viewport_top = top, !.detail_cache = << >>])

apply_filter(s, filter, visible) ==
  Shown([s EXCEPT !.filter = filter], visible, Minus(Len(visible), 1), 0)

NoTable == [rows |-> 0, cursor |-> 0, viewport_top |-> 0]

bootstrap(filter, visible) ==
  apply_filter(
    [filter |-> filter, visible |-> << >>, cursor |-> 0, viewport_top |-> 0,
     mode |-> "Follow", last_list_height |-> 0, detail_cache |-> << >>,
     raw_detail_mode |-> FALSE, skip_common |-> FALSE, focus |-> "List",
     detail_cursor |-> 0, detail_v_offset |-> 0, last_detail_height |-> 0,
     input_mode |-> "Normal", filter_snapshot |-> << >>, overlay |-> NoTable],
    filter, visible)

(* Whether the indexed messages that pass a filter can be these rows.      *)
Passing(filter, n) ==
  UNION {Rows(filter \cap 0 .. n - 1, order) : order \in Orders}

Cooked == [raw |-> FALSE, alternate |-> FALSE, guard |-> FALSE]

Init ==
  /\ pc = "enable_raw_mode" /\ tty = Cooked
  /\ size \in Sizes
  /\ indexed \in 0 .. Len(Log)
  /\ \E filter \in Filters \cup {Ordinals} : \E visible \in Passing(filter, indexed) :
       state = bootstrap(filter, visible)
  /\ aimed = FALSE

-----------------------------------------------------------------------------
(* TerminalGuard::enter, step by step; an error returns from run.          *)
EnableRawMode ==
  /\ pc = "enable_raw_mode"
  /\ \/ pc' = "alternate" /\ tty' = [tty EXCEPT !.raw = TRUE]
     \/ pc' = "ended" /\ UNCHANGED tty
  /\ UNCHANGED <<size, indexed, state, aimed>>

EnterAlternateScreen ==
  /\ pc = "alternate"
  /\ \/ pc' = "terminal" /\ tty' = [tty EXCEPT !.alternate = TRUE]
     \/ pc' = "ended" /\ UNCHANGED tty
  /\ UNCHANGED <<size, indexed, state, aimed>>

NewTerminal ==
  /\ pc = "terminal"
  /\ \/ pc' = "draw" /\ tty' = [tty EXCEPT !.guard = TRUE]
     \/ pc' = "ended" /\ UNCHANGED tty
  /\ UNCHANGED <<size, indexed, state, aimed>>

leave(t) == [t EXCEPT !.raw = FALSE, !.alternate = FALSE]

(* The guard's Drop, and the panic hook: should_quit, an error of drawing  *)
(* or of event::next, or a panic, wherever the loop is.                    *)
Leave ==
  /\ pc \in {"draw", "event", "poll"}
  /\ pc' = "ended" /\ tty' = leave(tty)
  /\ UNCHANGED <<size, indexed, state, aimed>>

-----------------------------------------------------------------------------
(* ensure_cursor_visible, for a window of so many rows; the mutant scrolls *)
(* down one row too few.                                                   *)
EnsuredLate(top, cursor, len, height) ==
  LET moved == IF cursor < top THEN cursor
               ELSE IF cursor > top + height THEN cursor + 1 - height ELSE top
  IN IF height = 0 \/ len = 0 THEN 0 ELSE Least(moved, Minus(len, height))

Ensured(top, cursor, len, height) ==
  LET moved == IF cursor < top THEN cursor
               ELSE IF cursor >= top + height THEN cursor + 1 - height ELSE top
  IN IF height = 0 \/ len = 0 THEN 0 ELSE Least(moved, Minus(len, height))

(* view::list::render                                                      *)
DrawList(s) ==
  IF ~ ListDrawn THEN s
  ELSE [s EXCEPT !.last_list_height = ListRows,
                 !.viewport_top = Ensured(@, s.cursor, Len(s.visible), ListRows)]

(* render_fields clamps the offset to the last page of the fields.         *)
Clamped(s) == Least(s.detail_v_offset, Least(Minus(detail_fields_len(s), FieldRows), MaxOffset))

(* view::detail::render: render_raw takes the offset as it is.             *)
DrawDetail(s) ==
  LET t == refresh_detail_cache(s) IN
  IF ~ DetailDrawn THEN s
  ELSE IF t.raw_detail_mode THEN [t EXCEPT !.last_detail_height = Body - 1]
  ELSE IF t.detail_cache = << >> \/ ~ Log[t.detail_cache[1] + 1].parses THEN t
  ELSE [t EXCEPT !.last_detail_height = FieldRows, !.detail_v_offset = Clamped(t)]

(* view::consolidated::render.                                             *)
clamp_viewport_top(hint, cursor, height, total) ==
  LET candidate == IF cursor < hint THEN cursor
                   ELSE IF cursor >= hint + height THEN cursor + 1 - height ELSE hint
  IN IF total <= height THEN 0 ELSE Least(candidate, total - height)

DrawTable(s) ==
  IF s.overlay.rows = 0 THEN s
  ELSE [s EXCEPT !.overlay.viewport_top =
          clamp_viewport_top(@, s.overlay.cursor, size.table, s.overlay.rows)]

(* The terminal may have been resized since the last frame; the frame is   *)
(* drawn for the size it has.                                              *)
Draw ==
  /\ pc = "draw"
  /\ pc' = "event"
  /\ state' = DrawTable(DrawDetail(DrawList(state)))
  /\ UNCHANGED <<tty, size, indexed, aimed>>

Resize ==
  /\ pc = "draw"
  /\ size' \in Sizes \ {size}
  /\ aimed' = FALSE
  /\ UNCHANGED <<pc, tty, indexed, state>>
-----------------------------------------------------------------------------
(* One event; then the loop polls.                                         *)
Event(s, aims) ==
  /\ pc = "event"
  /\ pc' = "poll"
  /\ state' = s /\ aimed' = aims
  /\ UNCHANGED <<tty, size, indexed>>

Key(s) == Event(s, FALSE)

Normal == state.input_mode = "Normal"

effective_focus == IF state.raw_detail_mode THEN "Detail" ELSE state.focus

(* The keys j, k, g, Ctrl+D and Ctrl+U of a cursor in 0 .. end.            *)
offset_cursor(cursor, d, end) == Least(Minus(cursor + d, 0), end)

Targets(cursor, step, end) ==
  {offset_cursor(cursor, d, end) : d \in {1, -1, step, - step}} \cup {0}

HalfPage(height) == Most(height, 1) \div 2

(* overlay_intercept moves the cursor of the open table; with any other    *)
(* key the keyboard is that of the list.                                   *)
TableKey ==
  /\ Normal /\ state.overlay.rows > 0
  /\ LET end == state.overlay.rows - 1
     IN \E c \in Targets(state.overlay.cursor, 10, end) \cup {end} :
          Key([state EXCEPT !.overlay.cursor = c])

CloseTable == Normal /\ Key([state EXCEPT !.overlay = NoTable])

(* nav goes to the list, to the raw text or to the fields.                 *)
Nav(focus) == Normal /\ state.overlay.rows = 0 /\ effective_focus = focus

move_cursor ==
  /\ Nav("List")
  /\ \/ state.visible = << >> /\ Key(state)
     \/ /\ state.visible # << >>
        /\ \/ \E c \in Targets(state.cursor, HalfPage(state.last_list_height), Last(state)) :
                Key([state EXCEPT !.cursor = c, !.mode = "Browse"])
           \/ Key([state EXCEPT !.cursor = Last(state), !.mode = "Follow"])

(* detail_scroll in raw mode: G goes to u16::MAX, whatever there is.       *)
ScrollRaw ==
  /\ Nav("Detail") /\ state.raw_detail_mode
  /\ \E v \in Targets(state.detail_v_offset, HalfPage(state.last_detail_height), MaxOffset)
                \cup {MaxOffset} :
       Key([state EXCEPT !.detail_v_offset = v])

(* ... and over the fields: the offset follows the cursor.  The mutant     *)
(* takes one row more than there are.                                      *)
Aimed_past(s, c) ==
  LET data_rows == Most(s.last_detail_height, 1) + 1
  IN [s EXCEPT !.detail_cursor = c, !.detail_v_offset =
        IF c < @ THEN Least(c, MaxOffset)
        ELSE IF c >= @ + data_rows THEN Least(c + 1 - data_rows, MaxOffset) ELSE @]

Aimed(s, c) ==
  LET data_rows == Most(s.last_detail_height - 1, 1)
  IN [s EXCEPT !.detail_cursor = c, !.detail_v_offset =
        IF c < @ THEN Least(c, MaxOffset)
        ELSE IF c >= @ + data_rows THEN Least(c + 1 - data_rows, MaxOffset) ELSE @]

detail_scroll ==
  /\ Nav("Detail") /\ ~ state.raw_detail_mode
  /\ LET end == detail_fields_len(state) - 1 IN
     \/ end < 0 /\ Key(state)
     \/ end >= 0 /\ \E c \in {end} \cup
          Targets(state.detail_cursor, HalfPage(state.last_detail_height), end) :
            Event(Aimed(state, c), TRUE)

-----------------------------------------------------------------------------
(* The mutant of ToggleSkipCommon does not clamp the cursor.               *)
Skipped_unclamped(s) == [s EXCEPT !.skip_common = ~ @]

Skipped(s) ==
  LET t == [s EXCEPT !.skip_common = ~ @]
  IN [t EXCEPT !.detail_cursor = Least(@, Minus(detail_fields_len(t), 1))]

ToggleSkipCommon == Normal /\ Key(Skipped(state))

ToggleRawDetail ==
  Normal /\ Key([state EXCEPT !.raw_detail_mode = ~ @])

ScrollHome == Normal /\ Key([state EXCEPT !.detail_v_offset = 0])

FocusNext ==
  Normal /\ Key([state EXCEPT !.focus = IF @ = "List" THEN "Detail" ELSE "List"])

(* Ticks, ToggleMode into Browse, horizontal scrolling, bookmarks, yanks.  *)
OtherKey == Key(state) \/ (Normal /\ Key([state EXCEPT !.mode = "Browse"]))

(* ToggleMode into Follow.                                                 *)
toggle_mode ==
  /\ Normal /\ state.mode = "Browse"
  /\ Key([state EXCEPT !.mode = "Follow",
            !.cursor = IF state.visible = << >> THEN @ ELSE Last(state)])

(* A search, a bookmark, or an entry of an overlay.                        *)
JumpTo ==
  \E c \in 0 .. Len(state.visible) - 1 :
    state.input_mode # "Command" /\
    Key([state EXCEPT !.cursor = c, !.mode = "Browse", !.input_mode = "Normal"])

cycle_sort_key ==
  /\ Normal
  /\ \/ Key([state EXCEPT !.viewport_top = 0])
     \/ \E order \in Orders : \E visible \in Rows({state.visible[i] : i \in DOMAIN state.visible}, order) :
          \E c \in DOMAIN visible :
            /\ visible[c] = state.visible[state.cursor + 1]
            /\ Key([state EXCEPT !.visible = visible, !.cursor = c - 1, !.viewport_top = 0])

(* H, and f and x on the field under the cursor of the detail pane.        *)
Refilter ==
  /\ Normal
  /\ \E filter \in Filters \cup {Ordinals} : \E visible \in Passing(filter, indexed) :
       Key(apply_filter(state, filter, visible))

EnterCommand ==
  /\ Normal
  /\ Key([state EXCEPT !.input_mode = "Command", !.filter_snapshot =
       <<[filter |-> state.filter, visible |-> state.visible, cursor |-> state.cursor,
          viewport_top |-> state.viewport_top]>>])

EnterSearch == Normal /\ Key([state EXCEPT !.input_mode = "Search"])

SearchCancel ==
  state.input_mode = "Search" /\ Key([state EXCEPT !.input_mode = "Normal"])

InCommand == state.input_mode = "Command"

live_preview ==
  /\ InCommand
  /\ \E filter \in Filters \cup {Ordinals} : \E visible \in Passing(filter, indexed) :
       Key(apply_filter(state, filter, visible))

Submitted == [state EXCEPT !.input_mode = "Normal", !.filter_snapshot = << >>]

CommandCancel ==
  /\ InCommand
  /\ LET snap == state.filter_snapshot[1]
     IN Key(Shown([Submitted EXCEPT !.filter = snap.filter],
                  snap.visible, snap.cursor, snap.viewport_top))

submit_command ==
  /\ InCommand
  /\ \/ Key(Submitted)
     \/ \E n \in Families \ {0} : Key([Submitted EXCEPT !.overlay = [NoTable EXCEPT !.rows = n]])

User ==
  \/ TableKey \/ CloseTable \/ move_cursor \/ ScrollRaw \/ detail_scroll
  \/ ToggleSkipCommon \/ ToggleRawDetail \/ ScrollHome \/ FocusNext \/ OtherKey
  \/ toggle_mode \/ JumpTo \/ cycle_sort_key \/ Refilter
  \/ EnterCommand \/ EnterSearch \/ SearchCancel \/ live_preview
  \/ CommandCancel \/ submit_command

-----------------------------------------------------------------------------
(* The watcher: nothing new, or one more message, or another file.         *)
PollIdle == pc = "poll" /\ pc' = "draw" /\ UNCHANGED <<tty, size, indexed, state, aimed>>

(* extend_visible and on_index_grew                                        *)
PollGrown ==
  /\ pc = "poll" /\ indexed < Len(Log)
  /\ pc' = "draw"
  /\ indexed' = indexed + 1
  /\ LET visible == IF indexed \in state.filter THEN Append(state.visible, indexed)
                    ELSE state.visible
     IN state' = [state EXCEPT !.visible = visible,
                    !.cursor = IF state.mode = "Follow" /\ visible # << >>
                               THEN Len(visible) - 1 ELSE @]
  /\ UNCHANGED <<tty, size, aimed>>

PollRebuilt ==
  /\ pc = "poll"
  /\ pc' = "draw"
  /\ indexed' \in 0 .. Len(Log)
  /\ \E visible \in Passing(state.filter, indexed') : state' = bootstrap(state.filter, visible)
  /\ UNCHANGED <<tty, size, aimed>>

Next ==
  \/ EnableRawMode \/ EnterAlternateScreen \/ NewTerminal \/ Leave
  \/ Draw \/ Resize \/ User \/ PollIdle \/ PollGrown \/ PollRebuilt

Spec == Init /\ [][Next]_vars
-----------------------------------------------------------------------------
InRange(cursor, len) == cursor < len \/ (cursor = 0 /\ len = 0)

(* What the drawing and the keys read and write of AppState.                *)
Overlay == [rows : Nat, cursor : Nat, viewport_top : Nat]

AppState ==
  [filter : SUBSET Ordinals, visible : Seq(Ordinals), cursor : Nat, viewport_top : Nat,
   mode : {"Follow", "Browse"}, last_list_height : Nat,
   detail_cache : {<< >>} \cup {<<ord>> : ord \in Ordinals},
   raw_detail_mode : BOOLEAN, skip_common : BOOLEAN, focus : {"List", "Detail"},
   detail_cursor : Nat, detail_v_offset : 0 .. MaxOffset, last_detail_height : Nat,
   input_mode : {"Normal", "Command", "Search"},
   filter_snapshot : Seq([filter : SUBSET Ordinals, visible : Seq(Ordinals),
                          cursor : Nat, viewport_top : Nat]),
   overlay : Overlay]

TypeOK ==
  /\ pc \in {"enable_raw_mode", "alternate", "terminal", "draw", "event", "poll", "ended"}
  /\ tty \in [raw : BOOLEAN, alternate : BOOLEAN, guard : BOOLEAN]
  /\ size \in Sizes /\ indexed \in 0 .. Len(Log)
  /\ state \in AppState /\ aimed \in BOOLEAN

(* A window of so many rows that shows the cursor, and that leaves no rows  *)
(* blank while others are above it.                                         *)
Shows(top, cursor, len, height) ==
  cursor \in top .. top + height - 1 /\ top <= Minus(len, height)

(* state.rs: "Adjust viewport_top so the cursor lies inside".  The row of   *)
(* the list that the keys act upon, and the row of the consolidated table   *)
(* that Enter opens, are on the screen: after any resize, filter, sort,     *)
(* growth or rotation.                                                      *)
CursorIsDrawn ==
  pc = "event" =>
    /\ ListDrawn /\ state.visible # << >> =>
         Shows(state.viewport_top, state.cursor, Len(state.visible), ListRows)
    /\ state.overlay.rows > 0 =>
         LET o == state.overlay
         IN o.cursor < o.rows /\ Shows(o.viewport_top, o.cursor, o.rows, size.table)

(* state.rs: detail_fields_len is the "source of truth for detail_cursor    *)
(* clamping and f/x dispatch": wherever there are fields, f takes one.      *)
FieldIsThere ==
  detail_fields_len(state) > 0 => state.detail_cursor < detail_fields_len(state)

(* A key that moves the cursor over the fields leaves it on the screen, and *)
(* the offset never leaves rows blank while fields are above them, also     *)
(* after raw mode and G scrolled the same offset to its greatest value.     *)
DetailFollows ==
  pc = "event" /\ DetailDrawn /\ ~ state.raw_detail_mode /\ FieldRows > 0 /\ detail_fields_len(state) > 0 =>
    /\ state.detail_v_offset <= Minus(detail_fields_len(state), FieldRows)
    /\ aimed =>
         state.detail_cursor \in state.detail_v_offset .. state.detail_v_offset + FieldRows - 1

=============================================================================
