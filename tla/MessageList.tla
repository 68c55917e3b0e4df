---------------------------- MODULE MessageList ----------------------------
(***************************************************************************)
(* fixlog-tui: the message list under --follow.  One thread alternates     *)
(* drawing, handling one key and polling the file; a producer writes to    *)
(* the path, moves the file away and creates it again between any two      *)
(* steps.  The functions of state.rs, app.rs and follow.rs that take       *)
(* `&mut AppState` are operators from the old state to the new one.        *)
(*                                                                         *)
(* Every message takes two writes, so a file is its complete messages and  *)
(* perhaps half of another one, and lengths count halves.  A mapping keeps *)
(* the file it was made from.                                              *)
(***************************************************************************)
EXTENDS Order

CONSTANTS
  Messages,    (* what the messages of the log may be                      *)
  Filters,     (* the expressions of the user: the messages that match     *)
  InitialKeys, (* the values of --sort                                     *)
  HalfPage,    (* half of last_list_height                                 *)
  Marks,       (* the digits of bookmarks                                  *)
  MaxLen,      (* bound on the messages of a file                          *)
  MaxFiles     (* bound on the files the path ever has                     *)

(* The next value in the cycle of the o key.                               *)
cycle == [Natural |-> "MsgSeqNum", MsgSeqNum |-> "TransactTime",
          TransactTime |-> "SendingTime", SendingTime |-> "Natural"]

SortKeys == DOMAIN cycle

(* A message's tags 34, 60 and 52; Absent, above all values, for none.     *)
Absent == 9
Message == [heartbeat : BOOLEAN, MsgSeqNum : 0 .. Absent,
            TransactTime : 0 .. Absent, SendingTime : 0 .. Absent]

ASSUME ConstantsAssumption ==
  /\ Messages \subseteq Message
  /\ Filters \subseteq SUBSET Messages /\ Filters # {}
  /\ InitialKeys \subseteq SortKeys /\ InitialKeys # {}
  /\ HalfPage \in Nat /\ MaxLen \in Nat \ {0} /\ MaxFiles \in Nat \ {0}

VARIABLES
  logs,     (* the files that have been at the path, the live one last     *)
  half,     (* the live file ends in half a message                        *)
  present,  (* the path exists                                             *)
  pc,       (* what the event loop does                                    *)
  state,    (* AppState                                                    *)
  base,     (* history: the file that the last bootstrap indexed           *)
  origin,   (* history: the file in which each indexed message was found   *)
  failed    (* history: a rebuild failed, and nothing was mapped since     *)

vars == <<logs, half, present, pc, state, base, origin, failed>>

file == [gen |-> Len(logs), len |-> 2 * Len(logs[Len(logs)]) + IF half THEN 1 ELSE 0]

-----------------------------------------------------------------------------
(* The messages of a mapping, and message_bytes: << >> is None.            *)
Mapped(m) == SubSeq(logs[m.gen], 1, m.len \div 2)

message(s, ord) ==
  IF ord < Len(Mapped(s.mmap)) THEN <<Mapped(s.mmap)[ord + 1]>> ELSE << >>

consumed(s) == 2 * s.indexed

last(visible) == IF visible = << >> THEN 0 ELSE Len(visible) - 1

Row(s) == s.visible[s.cursor + 1]

(* seq_key and time_key: a message without the tag comes after the others. *)
SortValue(s, ord) ==
  IF message(s, ord) = << >> THEN Absent ELSE message(s, ord)[1][s.sort_key]

(* sort_visible: by the key, ties in file order; Natural leaves the list    *)
(* as it is.  The mutant puts later messages first.                        *)
sort_visible_unstable(s, visible) ==
  LET S == ToSet(visible)
  IN IF s.sort_key = "Natural" THEN visible
     ELSE Ranked(S, {p \in S \X S :
            \/ SortValue(s, p[1]) < SortValue(s, p[2])
            \/ SortValue(s, p[1]) = SortValue(s, p[2]) /\ p[1] > p[2]})

sort_visible(s, visible) ==
  LET S == ToSet(visible)
  IN IF s.sort_key = "Natural" THEN visible
     ELSE Ranked(S, {p \in S \X S :
            \/ SortValue(s, p[1]) < SortValue(s, p[2])
            \/ SortValue(s, p[1]) = SortValue(s, p[2]) /\ p[1] < p[2]})

Passes(s, ord, filter) == message(s, ord) # << >> /\ message(s, ord)[1] \in filter

(* The ordinals from lo up that pass the filter, in file order.            *)
PassingFrom(s, lo, filter) ==
  LET S == {ord \in lo .. s.indexed - 1 : Passes(s, ord, filter)}
  IN Ranked(S, {p \in S \X S : p[1] < p[2]})

(* evaluate_visible: without a filter every ordinal, mapped or not.        *)
evaluate_visible(s, filter) ==
  IF filter = Messages THEN [i \in 1 .. s.indexed |-> i - 1]
  ELSE PassingFrom(s, 0, filter)

(* resolve_ordinal: an error is << >>.                                     *)
resolve_ordinal(s, ord) == IF ord < s.indexed THEN message(s, ord) ELSE << >>

(* refresh_detail_cache: the cache is keyed by ordinal.  The mutant never  *)
(* looks at the key.                                                       *)
refresh_detail_cache_once(s) ==
  IF s.visible = << >> THEN [s EXCEPT !.detail_cache = << >>]
  ELSE IF s.detail_cache # << >> THEN s
  ELSE [s EXCEPT !.detail_cache = <<Row(s), resolve_ordinal(s, Row(s))>>]

refresh_detail_cache(s) ==
  IF s.visible = << >> THEN [s EXCEPT !.detail_cache = << >>]
  ELSE IF s.detail_cache # << >> /\ s.detail_cache[1] = Row(s) THEN s
  ELSE [s EXCEPT !.detail_cache = <<Row(s), resolve_ordinal(s, Row(s))>>]

(* apply_filter.  The last fields are history: no message is missing, and  *)
(* how many were indexed when the list was sorted.                         *)
apply_filter(s, filter) ==
  LET visible == sort_visible(s, evaluate_visible(s, filter))
  IN refresh_detail_cache([s EXCEPT !.filter = filter, !.visible = visible,
       !.cursor = last(visible), !.detail_cache = << >>,
       !.missed = {}, !.sorted = s.indexed])

(* compose_effective: NOT 35=0 is ANDed to the user's filter.              *)
Compose(user, hide) == {m \in user : hide => ~ m.heartbeat}

recompute_effective_filter(s) ==
  apply_filter(s, Compose(s.user_filter, s.hide_heartbeat))

(* bootstrap_with_sort, once the file has been mapped and sniffed.         *)
bootstrap(user, key) ==
  recompute_effective_filter(
    [mmap |-> file, indexed |-> file.len \div 2, filter |-> Messages,
     user_filter |-> user, hide_heartbeat |-> FALSE, sort_key |-> key,
     visible |-> << >>, cursor |-> 0, mode |-> "Follow", new_since_browse |-> 0,
     detail_cache |-> << >>, input_mode |-> "Normal", filter_snapshot |-> << >>,
     bookmarks |-> [c \in Marks |-> << >>], missed |-> {}, sorted |-> 0])

(* The messages of a file that is read from its start.                     *)
FoundIn(f) == [k \in 1 .. f.len \div 2 |-> f.gen]

Init ==
  /\ logs \in {<<log>> : log \in UNION {[1 .. n -> Messages] : n \in 0 .. MaxLen}}
  /\ half \in BOOLEAN
  /\ file.len > 0
  /\ present = TRUE
  /\ pc = "draw"
  /\ \E user \in Filters \cup {Messages}, key \in InitialKeys :
       state = bootstrap(user, key)
  /\ base = Len(logs)
  /\ origin = FoundIn(file)
  /\ failed = FALSE

-----------------------------------------------------------------------------
(* The producer starts a message, and finishes it.                         *)
WriteHalf ==
  /\ present /\ ~ half
  /\ Len(logs[Len(logs)]) < MaxLen
  /\ half' = TRUE
  /\ UNCHANGED <<logs, present, pc, state, base, origin, failed>>

WriteRest(m) ==
  /\ present /\ half
  /\ half' = FALSE
  /\ logs' = [logs EXCEPT ![Len(logs)] = Append(@, m)]
  /\ UNCHANGED <<present, pc, state, base, origin, failed>>

(* Rotation: the file is moved away, and a new empty one takes its place.  *)
MoveAway ==
  /\ present /\ Len(logs) < MaxFiles
  /\ present' = FALSE
  /\ UNCHANGED <<logs, half, pc, state, base, origin, failed>>

Create ==
  /\ ~ present
  /\ present' = TRUE
  /\ logs' = Append(logs, << >>)
  /\ half' = FALSE
  /\ UNCHANGED <<pc, state, base, origin, failed>>

Environment == WriteHalf \/ (\E m \in Messages : WriteRest(m)) \/ MoveAway \/ Create

-----------------------------------------------------------------------------
(* One key, or none before the 250 ms are over, and what it does to the    *)
(* state; then the loop polls.                                             *)
Key(s) ==
  /\ pc = "event"
  /\ pc' = "poll"
  /\ state' = s
  /\ UNCHANGED <<logs, half, present, base, origin, failed>>

Normal == state.input_mode = "Normal"

Tick == Key(state)

offset_cursor(cursor, d, end) ==
  IF cursor + d < 0 THEN 0 ELSE IF cursor + d > end THEN end ELSE cursor + d

(* move_cursor                                                             *)
Move(d) ==
  /\ Normal /\ state.visible # << >>
  /\ Key([state EXCEPT !.cursor = offset_cursor(@, d, last(state.visible)),
                       !.mode = "Browse"])

CursorTop ==
  Normal /\ state.visible # << >> /\ Key([state EXCEPT !.cursor = 0, !.mode = "Browse"])

CursorBottom ==
  /\ Normal /\ state.visible # << >>
  /\ Key([state EXCEPT !.cursor = last(state.visible), !.mode = "Follow"])

toggle_mode ==
  /\ Normal
  /\ Key(IF state.mode = "Follow" THEN [state EXCEPT !.mode = "Browse"]
         ELSE [state EXCEPT !.mode = "Follow", !.new_since_browse = 0,
                            !.cursor = IF state.visible = << >> THEN @
                                       ELSE last(state.visible)])

(* The position of an ordinal in the list, counted from 0.                 *)
Positions(s, ord) == {i \in 0 .. Len(s.visible) - 1 : s.visible[i + 1] = ord}

(* cycle_sort_key: the cursor stays on its message.                        *)
cycle_sort_key ==
  LET s == [state EXCEPT !.sort_key = cycle[@]]
      t == [s EXCEPT !.visible = sort_visible(s, @), !.sorted = s.indexed]
  IN /\ Normal
     /\ Key([t EXCEPT !.cursor =
          IF state.visible = << >> THEN 0
          ELSE CHOOSE i \in Positions(t, Row(state)) : TRUE])

(* evaluate_visible indexes the mapping with the ranges of the index; the  *)
(* filters here are the ones it scans for.                                 *)
Panics(filter) ==
  filter # Messages /\ state.indexed > Len(Mapped(state.mmap))

(* The keys that end in recompute_effective_filter.                        *)
Refilter(s) ==
  IF Panics(Compose(s.user_filter, s.hide_heartbeat))
  THEN /\ pc = "event" /\ pc' = "panicked"
       /\ UNCHANGED <<logs, half, present, state, base, origin, failed>>
  ELSE Key(recompute_effective_filter(s))

ToggleHideHeartbeat ==
  Normal /\ Refilter([state EXCEPT !.hide_heartbeat = ~ @])

snapshot_filter(s) ==
  [filter |-> s.filter, user_filter |-> s.user_filter, hide_heartbeat |-> s.hide_heartbeat,
   visible |-> s.visible, cursor |-> s.cursor,
   missed |-> s.missed, sorted |-> s.sorted, indexed |-> s.indexed]

EnterCommand ==
  /\ Normal
  /\ Key([state EXCEPT !.input_mode = "Command", !.filter_snapshot = <<snapshot_filter(state)>>])

(* live_preview: the keystroke makes the buffer a complete filter command; *)
(* the bare command previews no filter.                                    *)
Preview(user) ==
  ~ Normal /\ Refilter([state EXCEPT !.user_filter = user])

(* restore_filter, and a mutant that leaves the user's filter where the    *)
(* preview put it.  The snapshot's list lacks the messages that were       *)
(* indexed since it was taken.                                             *)
restore_filter_compiled(s, snap) ==
  refresh_detail_cache(
    [s EXCEPT !.filter = snap.filter, !.visible = snap.visible,
       !.cursor = snap.cursor, !.detail_cache = << >>,
       !.missed = snap.missed \cup (snap.indexed .. s.indexed - 1),
       !.sorted = snap.sorted])

restore_filter(s, snap) ==
  refresh_detail_cache(
    [s EXCEPT !.filter = snap.filter, !.user_filter = snap.user_filter,
       !.hide_heartbeat = snap.hide_heartbeat, !.visible = snap.visible,
       !.cursor = snap.cursor, !.detail_cache = << >>,
       !.missed = snap.missed \cup (snap.indexed .. s.indexed - 1),
       !.sorted = snap.sorted])

CommandCancel ==
  /\ ~ Normal
  /\ LET s == [state EXCEPT !.input_mode = "Normal", !.filter_snapshot = << >>]
     IN Key(restore_filter(s, state.filter_snapshot[1]))

(* submit_command: :filter sets or clears the filter, every other command  *)
(* keeps what the preview left.                                            *)
Submitted == [state EXCEPT !.input_mode = "Normal", !.filter_snapshot = << >>]

SubmitFilter(user) ==
  ~ Normal /\ Refilter([Submitted EXCEPT !.user_filter = user])

SubmitOther == ~ Normal /\ Key(Submitted)

(* next_match: the nearest row from the cursor on, or back, that matches.  *)
RowAfter(d, steps) == (state.cursor + d * steps) % Len(state.visible)

Search(filter, d) ==
  LET hits == {n \in 1 .. Len(state.visible) :
                 Passes(state, state.visible[RowAfter(d, n) + 1], filter)}
  IN /\ Normal /\ hits # {}
     /\ \E n \in hits :
          /\ \A k \in hits : n <= k
          /\ Key([state EXCEPT !.cursor = RowAfter(d, n), !.mode = "Browse"])

set_bookmark(c) ==
  Normal /\ state.visible # << >> /\ Key([state EXCEPT !.bookmarks[c] = <<Row(state)>>])

jump_bookmark(c) ==
  /\ Normal /\ state.bookmarks[c] # << >>
  /\ \E i \in Positions(state, state.bookmarks[c][1]) :
       Key([state EXCEPT !.cursor = i, !.mode = "Browse"])

User ==
  \/ Tick \/ CursorTop \/ CursorBottom \/ toggle_mode \/ cycle_sort_key
  \/ \E d \in {1, -1, HalfPage, - HalfPage} : Move(d)
  \/ ToggleHideHeartbeat \/ EnterCommand \/ CommandCancel \/ SubmitOther
  \/ \E user \in Filters \cup {Messages} : Preview(user) \/ SubmitFilter(user)
  \/ \E filter \in Filters, d \in {1, -1} : Search(filter, d)
  \/ \E c \in Marks : set_bookmark(c) \/ jump_bookmark(c)

-----------------------------------------------------------------------------
(* FollowWatcher::poll: less than POLL_INTERVAL after the last one.        *)
PollTooEarly ==
  /\ pc = "poll"
  /\ pc' = "draw"
  /\ UNCHANGED <<logs, half, present, state, base, origin, failed>>

(* poll_now compares the size on disk with the mapping and the watermark.  *)
(* The mutant takes half a message for no change.                          *)
PollStatCoarse ==
  /\ pc = "poll"
  /\ pc' = IF ~ present \/ file.len \in {state.mmap.len, state.mmap.len + 1} THEN "draw"
           ELSE IF file.len < consumed(state) THEN "rebuild" ELSE "remap"
  /\ UNCHANGED <<logs, half, present, state, base, origin, failed>>

PollStat ==
  /\ pc = "poll"
  /\ pc' = IF ~ present \/ file.len = state.mmap.len THEN "draw"
           ELSE IF file.len < consumed(state) THEN "rebuild" ELSE "remap"
  /\ UNCHANGED <<logs, half, present, state, base, origin, failed>>

(* The file may be gone before it is mapped.                               *)
RemapFails ==
  /\ pc = "remap" /\ ~ present
  /\ pc' = "draw"
  /\ UNCHANGED <<logs, half, present, state, base, origin, failed>>

(* ... or another one may be there, shorter than what is indexed: then     *)
(* append_from_offset refuses.  The mutant leaves it at the warning.        *)
RemapShrankWarns ==
  /\ pc = "remap" /\ present
  /\ file.len < consumed(state)
  /\ state' = [state EXCEPT !.mmap = file]
  /\ pc' = "draw"
  /\ UNCHANGED <<logs, half, present, base, origin, failed>>

RemapShrank ==
  /\ pc = "remap" /\ present
  /\ file.len < consumed(state)
  /\ state' = [state EXCEPT !.mmap = file]
  /\ pc' = "rebuild"
  /\ UNCHANGED <<logs, half, present, base, origin, failed>>

(* append_from_offset, for a mapping that is long enough: the complete     *)
(* messages from the watermark on, be they of the indexed file or not.      *)
append_from_offset(s) == [s EXCEPT !.mmap = file, !.indexed = file.len \div 2]

(* extend_visible, and a mutant that starts one ordinal late.              *)
extend_visible_next(s, start) ==
  [s EXCEPT !.visible = @ \o PassingFrom(s, start + 1, s.filter)]

extend_visible(s, start) ==
  [s EXCEPT !.visible = @ \o PassingFrom(s, start, s.filter)]

(* on_index_grew, and a mutant that takes the user along.                  *)
on_index_grew_always(s, delta) ==
  IF delta = 0 \/ s.visible = << >> THEN s
  ELSE [s EXCEPT !.new_since_browse = 0, !.cursor = last(s.visible)]

on_index_grew(s, delta) ==
  IF delta = 0 THEN s
  ELSE IF s.mode = "Follow"
       THEN [s EXCEPT !.new_since_browse = 0,
                      !.cursor = IF s.visible = << >> THEN @ ELSE last(s.visible)]
       ELSE [s EXCEPT !.new_since_browse = @ + delta]

Remap ==
  /\ pc = "remap" /\ present
  /\ file.len >= consumed(state)
  /\ LET s == append_from_offset(state)
     IN /\ state' = on_index_grew(extend_visible(s, state.indexed), s.indexed - state.indexed)
        /\ origin' = origin \o [k \in 1 .. s.indexed - state.indexed |-> file.gen]
  /\ failed' = FALSE
  /\ pc' = "draw"
  /\ UNCHANGED <<logs, half, present, base>>

(* rebuild: bootstrap needs a file whose first bytes can be sniffed, and   *)
(* takes the effective filter for the user's.                              *)
Rebuild ==
  /\ pc = "rebuild"
  /\ present /\ file.len > 0
  /\ state' = bootstrap(state.filter, "Natural")
  /\ base' = Len(logs)
  /\ origin' = FoundIn(file)
  /\ failed' = FALSE
  /\ pc' = "draw"
  /\ UNCHANGED <<logs, half, present>>

RebuildFails ==
  /\ pc = "rebuild"
  /\ ~ (present /\ file.len > 0)
  /\ failed' = TRUE
  /\ pc' = "draw"
  /\ UNCHANGED <<logs, half, present, state, base, origin>>

(* The frame resolves the message under the cursor.                        *)
Draw ==
  /\ pc = "draw"
  /\ state' = refresh_detail_cache(state)
  /\ pc' = "event"
  /\ UNCHANGED <<logs, half, present, base, origin, failed>>

Poll == PollStat \/ RemapFails \/ RemapShrank \/ Remap \/ Rebuild \/ RebuildFails

Next == Environment \/ User \/ PollTooEarly \/ Poll \/ Draw

Spec == Init /\ [][Next]_vars

(* event::next returns a Tick when no key comes, so the loop turns; and    *)
(* however fast the keys come, a poll is more than 250 ms after the last   *)
(* one again and again.                                                    *)
FairSpec ==
  Spec /\ WF_vars(User \/ PollTooEarly \/ Poll \/ Draw) /\ SF_vars(PollStat)
-----------------------------------------------------------------------------
Maybe(S) == {x \in Seq(S) : Len(x) <= 1}

Mapping == [gen : Nat, len : Nat]

TypeOK ==
  /\ logs \in Seq(Seq(Messages)) /\ logs # << >>
  /\ half \in BOOLEAN /\ present \in BOOLEAN
  /\ pc \in {"event", "poll", "remap", "rebuild", "draw", "panicked"}
  /\ base \in 1 .. Len(logs)
  /\ state.mmap \in Mapping /\ state.mmap.gen \in 1 .. Len(logs)
  /\ state.indexed \in Nat
  /\ state.user_filter \in SUBSET Messages /\ state.filter \in SUBSET Messages
  /\ state.hide_heartbeat \in BOOLEAN /\ state.sort_key \in SortKeys
  /\ state.visible \in Seq(Nat) /\ state.cursor \in Nat
  /\ state.mode \in {"Follow", "Browse"} /\ state.new_since_browse \in Nat
  /\ state.input_mode \in {"Normal", "Command"}
  /\ state.input_mode = "Command" <=> state.filter_snapshot # << >>
  /\ state.bookmarks \in [Marks -> Maybe(Nat)]
  /\ origin \in Seq(1 .. Len(logs)) /\ failed \in BOOLEAN

(* tui.md:293: hide_heartbeat is orthogonal to what the user typed.  Unless *)
(* a file took the place of the one that was indexed, the list has each     *)
(* message that passes the two once, also after a preview that was taken    *)
(* back, and lacks no more than the messages that were indexed while the    *)
(* command was typed.                                                      *)
VisibleIsExact ==
  state.mmap.gen = base =>
    /\ ToSet(state.visible) =
         {ord \in 0 .. state.indexed - 1 :
            Passes(state, ord, Compose(state.user_filter, state.hide_heartbeat))} \ state.missed
    /\ IsInjective(state.visible)

(* The messages that were there when the key was chosen, or the filter, are *)
(* in the order of the key and, where that does not tell, of the file; what *)
(* came later follows as it came, also when a command was taken back.       *)
SortedSinceKey ==
  state.mmap.gen = base /\ state.sort_key # "Natural" =>
    \A i, j \in DOMAIN state.visible : i < j =>
      LET a == state.visible[i]
          b == state.visible[j]
      IN IF b >= state.sorted THEN a < b
         ELSE \/ SortValue(state, a) < SortValue(state, b)
              \/ SortValue(state, a) = SortValue(state, b) /\ a < b

(* app.rs: "In Follow we keep the cursor glued to the end; in Browse we      *)
(* simply tally new arrivals ... without interrupting the user's reading    *)
(* position": whatever arrives and whatever of it the filter passes, the    *)
(* row under the cursor stays that of the same message.                     *)
GrowthKeepsPlace ==
  [][LET before == state
         after  == state'
     IN pc = "remap" /\ base' = base /\ after.indexed > before.indexed =>
          IF before.mode = "Follow"
          THEN after.cursor = last(after.visible) /\ after.new_since_browse = 0
          ELSE /\ before.visible # << >> => Row(after) = Row(before)
               /\ after.new_since_browse - before.new_since_browse
                    = after.indexed - before.indexed]_vars

(* tui.md: the detail cache is "cached per-ordinal" to survive the swap of  *)
(* the mapping.  When a frame is on screen it shows the message under the   *)
(* cursor, unless another file took the place of the one that was indexed.  *)
DetailIsOfCursor ==
  pc = "event" /\ state.mmap.gen = base =>
    state.detail_cache =
      IF state.visible = << >> THEN << >> ELSE <<Row(state), message(state, Row(state))>>

(* follow.rs, poll_now, with the file replaced between the look at its      *)
(* length, the mapping and the rebuild: the index has the complete messages *)
(* of the mapping and no others, as long as the mapping is of the file that *)
(* was last bootstrapped.  A file that took its place is not noticed if it  *)
(* is at least as long as what is indexed (ReplacedFileIsRebuilt): then the *)
(* index has the messages of the old file, and behind them what was found   *)
(* in the new one.  And the ranges of the index are within the mapping,     *)
(* whatever file they are of, unless a rebuild has failed.                  *)
IndexIsOfMapping ==
  pc \in {"event", "poll", "draw"} =>
    /\ Len(origin) = state.indexed
    /\ \A i \in DOMAIN origin : base <= origin[i] /\ origin[i] <= state.mmap.gen
    /\ \A i, j \in DOMAIN origin : i < j => origin[i] <= origin[j]
    /\ state.mmap.gen = base => state.indexed = Len(Mapped(state.mmap))
    /\ consumed(state) <= state.mmap.len \/ failed

(* While the file stays, what the producer has finished gets indexed.       *)
EveryMessageIsIndexed ==
  \A n \in 1 .. MaxLen : Len(logs[1]) >= n ~> state.indexed >= n

-----------------------------------------------------------------------------
(* state.rs:324: visible is "Re-evaluated whenever the filter changes or an *)
(* append lands that could add more matches".                               *)
NothingMissed ==
  state.mmap.gen = base =>
    \A ord \in 0 .. state.indexed - 1 :
      Passes(state, ord, state.filter) => ord \in ToSet(state.visible)

(* state.rs:70: "Natural keeps the order messages appear in the file".      *)
NaturalIsFileOrder ==
  state.sort_key = "Natural" =>
    \A i, j \in DOMAIN state.visible : i < j => state.visible[i] < state.visible[j]

(* state.rs:68, 426: "Criterion used to sort the visible list after         *)
(* filtering", the "Active sort criterion applied to visible".              *)
SortedByKey ==
  state.sort_key # "Natural" =>
    \A i, j \in DOMAIN state.visible :
      i < j => SortValue(state, state.visible[i]) <= SortValue(state, state.visible[j])

(* tui.md:478: "G snaps to Follow and resets new_since_browse".             *)
FollowHasNoNew == state.mode = "Follow" => state.new_since_browse = 0

(* tui.md:482: "Follow: cursor stays glued to the last row".                *)
FollowIsGlued == state.mode = "Follow" => state.cursor = last(state.visible)

(* follow.rs:6: "if it shrunk (or the inode changed behind our back), do a  *)
(* full rebuild".  Of a rebuild that failed, to be tried again, the mapping *)
(* is shorter than the index.                                               *)
ReplacedFileIsRebuilt ==
  /\ pc = "event"
  /\ 0 < consumed(state) /\ consumed(state) <= state.mmap.len
  => state.mmap.gen = base

(* state.rs:317: user_filter_text is "The expression the user actually      *)
(* typed into :f <expr> (or via the initial --filter flag)".                *)
UserFilterIsTyped == state.user_filter \in Filters \cup {Messages}

(* state.rs:825: messages that fail to parse are skipped, which "keeps the  *)
(* view stable over corrupt tails".                                         *)
FilterNeverPanics == pc # "panicked"
=============================================================================
