------------------------------ MODULE TuiInput ------------------------------
(***************************************************************************)
(* fixlog-tui: what a key means.  App::on_event and App::apply over the    *)
(* input mode, the pending two-key prefix, the overlay with its parked     *)
(* parent, the diff slots and the bookmarks, while the file watcher grows  *)
(* and rebuilds the index between two keys.                                *)
(*                                                                         *)
(* The list is the set of the visible ordinals and the one under the       *)
(* cursor; how its keys move the cursor, and sorting, is in MessageList.   *)
(* A key of the list may put the cursor on any visible row.                *)
(***************************************************************************)
EXTENDS Order

CONSTANTS
  Log,      (* what the messages of the file are, from the first on        *)
  Meaning,  (* the predicates that can be typed: the ordinals that pass    *)
  Words,    (* the words of the command line, and the commands they are;   *)
            (* :filter and :f, which live_preview knows too, are one word  *)
  Lines,    (* bound: what is typed are these lines and their beginnings   *)
  Digits,   (* the digits of bookmarks                                     *)
  NotUtf8,  (* the ClOrdIDs that are not UTF-8                             *)
  Unquoted, (* the pairs of CompIDs that are no values of the query        *)
            (* language as they stand                                      *)
  None

Ordinals == 0 .. Len(Log) - 1

Keys == UNION {ToSet(line) : line \in Lines}

AppFilters == {Meaning[p] : p \in DOMAIN Meaning} \cup {Ordinals}

(* Without an expression :filter is another command, which has no word.    *)
ConstantsFit ==
  /\ Log \in Seq(ToSet(Log)) /\ Lines \subseteq Seq(Keys)
  /\ AppFilters \subseteq SUBSET Ordinals
  /\ \A w \in DOMAIN Words :
       Words[w] # "ClearFilter" /\ (Words[w] = "Filter" => w = "f")
  /\ Digits \subseteq 0 .. 9
  /\ None \notin Ordinals \cup {0}

ASSUME AppAssumption == ConstantsFit

VARIABLES
  indexed,  (* number of messages in the index                             *)
  app,      (* AppState                                                    *)
  running   (* not should_quit                                             *)

app_vars == <<indexed, app, running>>

-----------------------------------------------------------------------------
(* An overlay shows a list; for Marks it is the bookmarks of the moment.   *)
Open(kind, id, list) == [kind |-> kind, id |-> id, list |-> list, cursor |-> 0]

NoOverlay == Open("none", None, << >>)

Kinds == {"none", "Help", "Histogram", "Diff", "Marks", "Sessions", "Orders", "Consolidated"}

Entries(s) ==
  LET digits == Ascending({c \in Digits : s.bookmarks[c] # None})
  IN [i \in DOMAIN digits |-> s.bookmarks[digits[i]]]

Listed(s, o) == IF o.kind = "Marks" THEN Entries(s) ELSE o.list

ClOrdIDs == {Log[o + 1].clordid : o \in 0 .. indexed - 1} \ {None}

(* The events of OrderTimeline::build, the families of push_source and the *)
(* sessions of SessionMap::build over what is indexed.                     *)
Timeline(id) == Ascending({o \in 0 .. indexed - 1 : Log[o + 1].clordid = id})
Families == SetToSeq(ClOrdIDs)
canonical(m) == <<Min({m.sender, m.target}), Max({m.sender, m.target})>>
Sessions == SetToSeq({canonical(Log[o + 1]) : o \in 0 .. indexed - 1})

IdAt(row) == IF row = None THEN None ELSE Log[row + 1].clordid

(* 49=sender AND 56=target of the canonical pair: one direction of it.     *)
OfSession(key) == {o \in Ordinals : <<Log[o + 1].sender, Log[o + 1].target>> = key}

(* Mutant of open_overlay: the parked parent stays.                        *)
open_overlay_over(s, new) == [s EXCEPT !.overlay = new]

open_overlay(s, new) == [s EXCEPT !.overlay = new, !.previous_overlay = NoOverlay]

esc_overlay(s) ==
  [s EXCEPT !.overlay = s.previous_overlay, !.previous_overlay = NoOverlay]

close_overlay(s) == open_overlay(s, NoOverlay)

open_orders_overlay(s, id) ==
  IF id = None \/ Timeline(id) = << >> THEN s
  ELSE open_overlay(s, Open("Orders", id, Timeline(id)))

-----------------------------------------------------------------------------
LastOf(visible) == IF visible = {} THEN None ELSE Max(visible)

(* apply_filter: the cursor goes to the last row; rows are in file order.  *)
filtered(s, filter) ==
  LET visible == filter \cap 0 .. indexed - 1
  IN [s EXCEPT !.filter = filter, !.visible = visible, !.row = LastOf(visible)]

Fresh(filter) ==
  [filter |-> filter, visible |-> {}, row |-> None, input_mode |-> "Normal",
   command_buffer |-> << >>, command_history_idx |-> None,
   filter_snapshot |-> << >>, pending_prefix |-> None, overlay |-> NoOverlay,
   previous_overlay |-> NoOverlay, diff_slots |-> <<None, None>>,
   bookmarks |-> [c \in Digits |-> None]]

AppInit ==
  /\ indexed \in 0 .. Len(Log)
  /\ app = filtered(Fresh(Ordinals), Ordinals)
  /\ running = TRUE

-----------------------------------------------------------------------------
(* One event: the new state, and the prefix it leaves behind.              *)
Event(s) ==
  /\ running
  /\ app' = s
  /\ UNCHANGED <<indexed, running>>

(* In Normal mode overlay_intercept comes first; what it handles does not   *)
(* touch the pending prefix.                                               *)
NormalMode == app.input_mode = "Normal"

(* Everything else takes the prefix.                                       *)
taken == [app EXCEPT !.pending_prefix = None]

(* j, k, Ctrl+D, Ctrl+U, g and G in an overlay that has a cursor.          *)
Scrolled(kind, cursor, n) ==
  {Min({cursor + 1, n - 1}), Max({cursor - 1, 0})}
    \cup IF kind = "Sessions" THEN {} ELSE {0, n - 1}

OverlayScroll ==
  LET o == app.overlay
      n == Len(Listed(app, o))
  IN /\ NormalMode /\ o.kind \in {"Marks", "Sessions", "Orders", "Consolidated"} /\ n > 0
     /\ \E c \in Scrolled(o.kind, o.cursor, n) : Event([app EXCEPT !.overlay.cursor = c])

(* ... or nothing to move in; Help scrolls its text.                       *)
OverlayIdle ==
  /\ NormalMode
  /\ \/ app.overlay.kind = "Help"
     \/ /\ app.overlay.kind \in {"Marks", "Sessions", "Orders", "Consolidated"}
        /\ Listed(app, app.overlay) = << >>
  /\ Event(app)

(* nav, search and sort: in the list, and under the overlays without a     *)
(* cursor of their own; half pages and the ends also under Sessions.       *)
ListKey ==
  /\ NormalMode
  /\ app.overlay.kind \in {"none", "Histogram", "Diff", "Sessions"}
  /\ \/ app.visible = {} /\ Event(taken)
     \/ \E r \in app.visible : Event([taken EXCEPT !.row = r])

(* n, N, F and o move the cursor under every overlay.                      *)
SearchKey ==
  /\ NormalMode
  /\ \E r \in app.visible : Event([taken EXCEPT !.row = r])

OverlayClose ==
  /\ NormalMode
  /\ Event(IF app.overlay.kind = "none" THEN taken ELSE esc_overlay(app))

(* Enter: a row beyond the end of the list closes the overlay, a hidden    *)
(* target leaves it open.                                                  *)
AtCursor(s) ==
  LET list == Listed(s, s.overlay) IN
  IF s.overlay.cursor < Len(list) THEN <<list[s.overlay.cursor + 1]>> ELSE << >>

JumpToSelection ==
  /\ NormalMode /\ app.overlay.kind \in {"Orders", "Marks"}
  /\ LET at == AtCursor(app) IN
     Event(IF at = << >> THEN close_overlay(app)
           ELSE IF at[1] \in app.visible
                THEN [close_overlay(app) EXCEPT !.row = at[1]]
                ELSE app)

apply_session_filter ==
  /\ NormalMode /\ app.overlay.kind = "Sessions"
  /\ LET at == AtCursor(app) IN
     Event(IF at = << >> THEN close_overlay(app)
           ELSE IF at[1] \in Unquoted THEN app
           ELSE close_overlay(filtered(app, OfSession(at[1]))))

(* The row's ClOrdID is made a string and back: no timeline is found for   *)
(* one that is not UTF-8, and the overlay stays.                           *)
drill_into_consolidated_selection ==
  /\ NormalMode /\ app.overlay.kind = "Consolidated"
  /\ LET at == AtCursor(app)
         s  == open_orders_overlay(app, at[1])
     IN Event(IF at = << >> THEN close_overlay(app)
              ELSE IF at[1] \in NotUtf8 THEN app
              ELSE IF s.overlay.kind = "Orders"
                   THEN [s EXCEPT !.previous_overlay = app.overlay]
                   ELSE s)

EnterIdle ==
  /\ NormalMode /\ app.overlay.kind \in {"none", "Help", "Histogram", "Diff"}
  /\ Event(IF app.overlay.kind = "none" THEN taken ELSE app)

-----------------------------------------------------------------------------
(* Two keys: a prefix and its completion, else the key counts as fresh.    *)
set_diff_slot(s, slot) ==
  LET t == [s EXCEPT !.diff_slots[slot] = s.row]
  IN IF s.visible = {} THEN s
     ELSE IF None \notin {t.diff_slots[1], t.diff_slots[2]}
             /\ t.diff_slots[1] # t.diff_slots[2]
          THEN open_overlay(t, Open("Diff", None, << >>))
          ELSE t

PrefixKey(p) ==
  /\ NormalMode
  /\ Event(IF app.pending_prefix # p \/ p \in {"m", "'"}
           THEN [taken EXCEPT !.pending_prefix = p]
           ELSE IF p = "d" THEN set_diff_slot(taken, 1) ELSE taken)

DiffSlotB ==
  /\ NormalMode
  /\ Event(IF app.pending_prefix = "d" \/ app.diff_slots[1] # None
           THEN set_diff_slot(taken, 2) ELSE taken)

bookmarked(s, c) ==
  IF s.visible = {} THEN s ELSE [s EXCEPT !.bookmarks[c] = s.row]

jumped(s, c) ==
  IF s.bookmarks[c] \in s.visible THEN [s EXCEPT !.row = s.bookmarks[c]] ELSE s

Digit(c) ==
  /\ NormalMode
  /\ Event(IF app.pending_prefix = "m" THEN bookmarked(taken, c)
           ELSE IF app.pending_prefix = "'" THEN jumped(taken, c)
           ELSE taken)

(* Tick, Resize, and the keys that only change how things look.            *)
OtherKey == Event(taken)

-----------------------------------------------------------------------------
FilterKey(filter) == NormalMode /\ Event(filtered(taken, filter))

OpenOrderTimeline ==
  NormalMode /\ Event(open_orders_overlay(taken, IdAt(app.row)))

OpenHelp == NormalMode /\ Event(open_overlay(taken, Open("Help", None, << >>)))

EnterSearch == NormalMode /\ Event([taken EXCEPT !.input_mode = "Search"])

SearchCancel ==
  /\ app.input_mode = "Search"
  /\ Event([taken EXCEPT !.input_mode = "Normal"])

submit_search ==
  /\ app.input_mode = "Search"
  /\ \E r \in app.visible \cup {app.row} :
       Event([taken EXCEPT !.input_mode = "Normal", !.row = r])

-----------------------------------------------------------------------------
(* The command line.  A key is a word, a blank, or a part of an expression. *)
CommandMode == app.input_mode = "Command"

OpenCommand ==
  /\ NormalMode
  /\ Event([taken EXCEPT !.input_mode = "Command", !.filter_snapshot =
       <<[filter |-> app.filter, visible |-> app.visible, row |-> app.row]>>])

(* fixlog-query parses predicates with AND between them; << >> is an error. *)
parse_query(text) ==
  IF /\ Len(text) % 2 = 1
     /\ \A i \in DOMAIN text : IF i % 2 = 1 THEN text[i] \in DOMAIN Meaning ELSE text[i] = "AND"
  THEN <<{o \in Ordinals : \A i \in DOMAIN text : i % 2 = 1 => o \in Meaning[text[i]]}>>
  ELSE << >>

(* The head is what comes before the first blank, the rest what is after it.*)
Split(line) ==
  LET blanks == {i \in DOMAIN line : line[i] = " "}
      at == Min(blanks)
  IN IF blanks = {} THEN <<line, << >>>>
     ELSE <<SubSeq(line, 1, at - 1), SubSeq(line, at + 1, Len(line))>>

parse(line) ==
  LET head == Split(line)[1]
      rest == Split(line)[2]
  IN IF Len(head) # 1 \/ Head(head) \notin DOMAIN Words THEN [kind |-> "Unknown", arg |-> << >>]
     ELSE [kind |-> IF Words[Head(head)] = "Filter" /\ rest = << >> THEN "ClearFilter"
                    ELSE Words[Head(head)],
           arg |-> rest]

(* live_preview, after a key that was typed.                               *)
live_preview(s) ==
  LET expr == Split(s.command_buffer)[2]
  IN IF Split(s.command_buffer)[1] # <<"f">> THEN s
     ELSE IF expr = << >> THEN filtered(s, Ordinals)
     ELSE IF parse_query(expr) # << >> THEN filtered(s, parse_query(expr)[1])
     ELSE s

typed(line) == [taken EXCEPT !.command_buffer = line, !.command_history_idx = None]

CommandChar(key) ==
  /\ CommandMode
  /\ \E line \in Lines : IsPrefix(Append(app.command_buffer, key), line)
  /\ Event(live_preview(typed(Append(app.command_buffer, key))))

(* The mutant previews only what is added.                                 *)
CommandBackspace_quiet ==
  CommandMode /\ app.command_buffer # << >> /\ Event(typed(Front(app.command_buffer)))

CommandBackspace ==
  /\ CommandMode /\ app.command_buffer # << >>
  /\ Event(live_preview(typed(Front(app.command_buffer))))

(* The history may have any of the lines; past its end the buffer is empty. *)
nav_history ==
  /\ CommandMode
  /\ \/ \E line \in Lines :
          Event([taken EXCEPT !.command_buffer = line, !.command_history_idx = 0])
     \/ Event(typed(<< >>))

SubmittedLine ==
  [typed(<< >>) EXCEPT !.input_mode = "Normal", !.filter_snapshot = << >>]

CancelCommand ==
  /\ CommandMode
  /\ LET snap == app.filter_snapshot[1]
     IN Event([SubmittedLine EXCEPT !.filter = snap.filter, !.visible = snap.visible,
                                !.row = snap.row])

cleared(s) == [close_overlay(s) EXCEPT !.diff_slots = <<None, None>>]

(* What only changes the status: an export, an expression or a command that *)
(* is none.                                                                *)
execute(s, cmd) ==
  CASE cmd.kind \in {"Help", "Histogram", "Marks"} -> open_overlay(s, Open(cmd.kind, None, << >>))
    [] cmd.kind = "Sessions" -> open_overlay(s, Open("Sessions", None, Sessions))
    [] cmd.kind = "Orders" -> open_orders_overlay(s, IF cmd.arg = << >> THEN IdAt(s.row) ELSE cmd.arg[1])
    [] cmd.kind = "Consolidated" /\ Families # << >> ->
         open_overlay(s, Open("Consolidated", None, Families))
    [] cmd.kind = "ClearFilter" -> filtered(s, Ordinals)
    [] cmd.kind = "Filter" /\ parse_query(cmd.arg) # << >> -> filtered(s, parse_query(cmd.arg)[1])
    [] cmd.kind = "Diff" /\ cmd.arg = <<"clear">> -> cleared(s)
    [] OTHER -> s

submit_command ==
  /\ CommandMode /\ running
  /\ LET cmd == parse(app.command_buffer)
     IN /\ running' = (cmd.kind # "Quit")
        /\ app' = execute(SubmittedLine, cmd)
  /\ UNCHANGED indexed

(* q and Ctrl+C.                                                           *)
Quit ==
  /\ running /\ NormalMode
  /\ running' = FALSE
  /\ app' = taken
  /\ UNCHANGED indexed

OverlayKey ==
  \/ OverlayScroll \/ OverlayIdle \/ OverlayClose \/ JumpToSelection
  \/ apply_session_filter \/ drill_into_consolidated_selection \/ EnterIdle

NormalKey ==
  \/ ListKey \/ SearchKey \/ DiffSlotB \/ OtherKey
  \/ \E p \in {"y", "d", "m", "'"} : PrefixKey(p)
  \/ \E c \in Digits : Digit(c)
  \/ \E filter \in AppFilters : FilterKey(filter)
  \/ OpenOrderTimeline \/ OpenHelp

ModeKey ==
  \/ EnterSearch \/ SearchCancel \/ submit_search
  \/ OpenCommand \/ CancelCommand \/ submit_command \/ nav_history \/ CommandBackspace
  \/ \E line \in Lines : \E key \in ToSet(line) : CommandChar(key)
  \/ Quit

-----------------------------------------------------------------------------
(* The watcher between two events: append ...                              *)
Grow ==
  /\ running /\ indexed < Len(Log)
  /\ indexed' = indexed + 1
  /\ LET visible == app.visible \cup ({indexed} \cap app.filter)
     IN \E r \in {app.row, LastOf(visible)} :
          /\ visible # {} => r # None
          /\ app' = [app EXCEPT !.visible = visible, !.row = r]
  /\ UNCHANGED running

(* ... and rebuild: a state as at the start, whatever was being typed.     *)
(* The mutant keeps the diff slots.                                        *)
rebuilt_with_slots(n) ==
  [Fresh(app.filter) EXCEPT !.visible = app.filter \cap 0 .. n - 1,
     !.row = LastOf(app.filter \cap 0 .. n - 1), !.diff_slots = app.diff_slots]

rebuilt(n) ==
  [Fresh(app.filter) EXCEPT !.visible = app.filter \cap 0 .. n - 1,
     !.row = LastOf(app.filter \cap 0 .. n - 1)]

RebuildIndex(n) ==
  /\ running
  /\ indexed' = n
  /\ app' = rebuilt(n)
  /\ UNCHANGED running

AppNext ==
  \/ OverlayKey \/ NormalKey \/ ModeKey
  \/ Grow \/ \E n \in 0 .. Len(Log) : RebuildIndex(n)

AppSpec == AppInit /\ [][AppNext]_app_vars
-----------------------------------------------------------------------------
MaybeOrdinal == 0 .. indexed - 1 \cup {None}

(* The prefix belongs to Normal mode and the snapshot to Command mode, the  *)
(* cursor is on a visible row, and that of an overlay is in its list.       *)
AppTypeOK ==
  /\ indexed \in 0 .. Len(Log) /\ running \in BOOLEAN
  /\ app.filter \subseteq Ordinals /\ app.visible \subseteq 0 .. indexed - 1
  /\ IF app.visible = {} THEN app.row = None ELSE app.row \in app.visible
  /\ app.input_mode \in {"Normal", "Command", "Search"}
  /\ app.pending_prefix \in {None, "y", "d", "m", "'"}
  /\ app.pending_prefix # None => NormalMode
  /\ app.filter_snapshot # << >> <=> CommandMode
  /\ app.command_buffer # << >> => CommandMode
  /\ \A o \in {app.overlay, app.previous_overlay} :
       /\ o.kind \in Kinds
       /\ o.cursor < Len(Listed(app, o)) \/ (o.cursor = 0 /\ Listed(app, o) = << >>)

(* state.rs: open_overlay discards the parent "so an unrelated stale parent *)
(* never resurfaces on the next Esc".  A parked parent is the consolidated  *)
(* table, its cursor is on the order whose timeline is open, and that is    *)
(* all there ever is above it.                                              *)
ParentIsDrilled ==
  app.previous_overlay.kind # "none" =>
    /\ app.previous_overlay.kind = "Consolidated"
    /\ app.overlay.kind = "Orders"
    /\ app.overlay.id = AtCursor([app EXCEPT !.overlay = app.previous_overlay])[1]

(* What outlives a key as an ordinal - bookmarks, diff slots, the events of *)
(* an open or a parked timeline, the row of a cancelled command - is of     *)
(* the index in force, however often it was rebuilt; and an open diff has   *)
(* the two that lib.rs:189 draws it of, or it would take the keys and show  *)
(* nothing.                                                                 *)
OrdinalsAreIndexed ==
  /\ \A c \in Digits : app.bookmarks[c] \in MaybeOrdinal
  /\ \A i \in 1 .. 2 :
       app.diff_slots[i] \in MaybeOrdinal \ (IF app.overlay.kind = "Diff" THEN {None} ELSE {})
  /\ app.overlay.kind = "Orders" => ToSet(app.overlay.list) \subseteq 0 .. indexed - 1
  /\ \A i \in DOMAIN app.filter_snapshot :
       app.filter_snapshot[i].row \in MaybeOrdinal

(* tui.md:512: the preview "recompiles the expression from command_buffer". *)
(* Whatever was typed, taken back and recalled before, the list of a filter *)
(* command that was typed is the one that Enter leaves: only a line taken   *)
(* from the history as it is has not been previewed.                        *)
PreviewIsKept ==
  LET cmd == parse(app.command_buffer)
  IN /\ CommandMode /\ app.command_history_idx = None
     /\ cmd.kind = "ClearFilter" \/ (cmd.kind = "Filter" /\ parse_query(cmd.arg) # << >>)
     => app.filter = execute(app, cmd).filter

-----------------------------------------------------------------------------
(* tui.md:45: "any subsequent action is either a valid completion (handled  *)
(* inline and cleared) or triggers a fall-through (prefix cleared, action   *)
(* re-dispatched as fresh)".                                                *)
PrefixClears ==
  [][app.pending_prefix # None /\ app'.pending_prefix = app.pending_prefix
       => ~ OverlayKey]_app_vars
=============================================================================
