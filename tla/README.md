# fixlog in TLA+

fixlog reads logs of FIX messages: it finds the messages in a file, indexes
them, filters and searches them, follows a file that is still being written,
and sums up orders and sessions. This directory has a model of each part of it
that keeps state over time or computes what others rely on, the model-checking
runs of those models, and proofs of what matters most about them. The program
is under `src/`, the paths below are relative to `src/crates/`; a name in
`monospace` is the name of the definition in the code or in a module.

1. The system: components, interactions, what is hard, what makes each correct
2. The modules, and how their state and actions correspond to the code
3. The runs: what each one asks, its bounds, its fairness
4. The proofs: theorems, assumptions, inductive invariants
5. Where the code and its documentation differ
6. What is abstracted, and what is not modelled
7. The plan: what is done, and what comes next

## 1. The system

### Components, state and operations

| Part | Code (`src/crates/`) | State | Operations |
|---|---|---|---|
| tokenizer | `fixlog-parser/src/tokenizer.rs` | the position in a buffer | find the next `8=FIX`, parse one message, skip a malformed one |
| index, one pass | `fixlog-index/src/builder.rs`, `lib.rs`, `secondary.rs` | offsets, secondary index, bytes consumed | `build_from_bytes`, `append_from_offset`, `record`, `lookup` |
| index, parallel | `fixlog-index/src/parallel.rs` | ranges, one partial index per task | split, scan a range, `merge_rebased`, `stitch` |
| `grep --follow` | `fixlog-cli/src/commands/grep.rs` | mapping of the file, offset consumed, the channel of file events | first pass, wait for an event or a timeout, catch up, reopen |
| TUI, message list | `fixlog-tui/src/state.rs`, `search.rs`, `app.rs` | mapping, index, visible rows, cursor, sort key, filters and their snapshot, bookmarks, cached detail | filter, preview, undo, sort, move, search, mark |
| TUI, follow | `fixlog-tui/src/follow.rs` | time of the last poll | poll, append, rebuild |
| TUI, keys | `fixlog-tui/src/app.rs`, `input.rs`, `command.rs` | input mode, pending prefix, overlay and its parked parent, diff slots, command line and its history | one action per key or command |
| consolidated orders | `fixlog-analysis/src/orders_consolidated.rs` | rows by root, union-find forest, OrderIDs, a buffer of bytes | `push_source`, `drain_complete`, `handle_message` |
| order timeline | `fixlog-analysis/src/orders.rs` | a worklist, within one call | expand a ClOrdID, assemble the events |
| sessions | `fixlog-analysis/src/sessions.rs` | `SessionMap` | `build`, `append_from` |
| filter language | `fixlog-query/src/` | the parser's position | parse, evaluate, `hot_equalities` |
| filter in force | `fixlog-tui/src/state.rs`, `app.rs` | user's text, heartbeat switch, visible rows | compose, quote, parse, evaluate by scan or by index |
| screen | `fixlog-tui/src/view/`, `lib.rs`, `terminal.rs`, `event.rs` | the terminal's modes, the size of the last frame, viewport, focus, scroll and cursor of the detail pane | enter and leave the terminal, draw, resize, scroll |
| times, histogram | `fixlog-analysis/src/util.rs`, `histogram.rs` | none | parse and show a timestamp, count in buckets of time |
| dictionary | `fixlog-dict/src/` | none | names, labels and repeating groups of a message's fields |
| sniffer | `fixlog-format/src/sniffer.rs` | none | line ending, separator and prefix of a log |
| export | `fixlog-render/src/lib.rs`, `fixlog-tui/src/export.rs` | none, it writes a file | write the visible messages as CSV, JSON or FIX |
| checksum, clipboard, theme, the other commands | the other crates and files | none | pure functions and I/O |

### How they interact

- A file is **mapped**; everyone above the tokenizer reads the mapping, a slice
  that does not change, while a **producer** (another process) appends to the
  file, moves it away and creates it again. The only shared state between
  processes is the file and, for `grep --follow`, the events of its directory.
- The **index** calls the tokenizer and keeps `(start, len)` of each message
  and, for each hot `(tag, value)`, the ordinals that mention it. `consumed` is
  the offset to resume from. The parallel build does the same in rayon tasks,
  one per range of the buffer, and concatenates the results.
- **grep** calls the tokenizer directly: a pass, then a loop over the channel of
  the file watcher with a timeout as a fallback.
- The **TUI** is one thread: draw, wait up to 250 ms for a key, handle it, poll
  the file. `poll_now` replaces the mapping, extends the index and then the
  visible rows, or rebuilds all of `AppState`. Keys go through `map_event`,
  `App::apply` and `overlay_intercept`; commands call the analyses
  synchronously and keep the result in an overlay, that is, a **copy** of
  ordinals of the index at that moment.
- The **filter** reaches the rows in two ways: a scan with `matches`, or, if it
  is a conjunction of equalities on hot tags, an intersection of lookups. Rows
  that arrive later are always scanned.
- **Drawing** is not pure: a frame scrolls the list and the consolidated table to
  their cursors, caches the message of the detail pane, clamps its offset and
  cursor, and records the heights that the next half-page key uses.
- **Consolidated orders** do not use the index: a source is read in chunks into
  a buffer, complete messages are drained from it, and `handle_message` links
  the ClOrdIDs in a union-find forest.

### What is hard

The list with a line for each is `PROJECT.json` "hazards". In short:

- *a producer between any two steps*: half-written messages, growth between the
  size check and the mapping, rotation, a file that is missing for a moment;
- *missed, merged and irrelevant events*, and timeouts that irrelevant events
  put off;
- *threads in any order*, whose partial results must make one index;
- *ordinals, lists and snapshots that outlive what they were taken from*: the
  cursor, bookmarks, diff slots, overlays, the cached detail, the snapshot that
  Esc restores;
- *chunks that end anywhere*, a watchdog that discards bytes, and a loop that
  must not spin;
- *logs in any order*: links to orders not seen yet, resends, merges of
  families that already have totals, circles of replacements, repeated and
  reordered sequence numbers;
- *state that only a frame puts right*: viewport, heights and the cached detail
  are those of the last frame while the next key is handled;
- *texts composed of texts*: precedence, quotes and escapes, over and over; and
  texts read back: a log whose layout must be guessed, an exported file;
- *arithmetic at its edges*: the last instant of a bin, February, the column of
  the last event, sequence numbers that wrap.

### What makes each part correct

| Part | Correct if |
|---|---|
| index | recorded ranges are complete messages, in order and disjoint; no complete message is lost; any series of appends yields the index of one build; a lookup is exact |
| parallel index | the ranges tile the buffer; the result does not depend on the schedule, and is the sequential one |
| grep | the output is a tail's: complete matches, each once, in order, through rotations; nothing behind the start of following is lost; what is written is printed in the end |
| message list | rows are exactly what the two filters pass, in the order of the last sort; the cached detail is that of the cursor; growth moves nobody who browses; every message gets indexed |
| screen | the selected row is drawn; the field that a key takes exists; the detail pane follows its cursor |
| keys | an overlay's parent is the one it was opened from; what an overlay, a slot or a bookmark names exists; the filter previewed last is the one that was typed |
| consolidated orders | rows are the families of linked ClOrdIDs, each the exact total of its messages; a resend counts once; the table does not depend on the order of a hash map; a source is read to its end with bounded memory, and chunks do not matter |
| timeline, sessions | a timeline is the closure of the replacements and of the OrderIDs; gaps are exactly the missing numbers; an extended map is a rebuilt one |
| filters | whatever its history, the text in force selects what its parts mean |
| times | a day number is the calendar's; the order of the texts is that of the instants; each timed message is in one bin, and in its column |
| sniffer, export | the layout found is the one written; a reader of the file finds the fields of the messages |

## 2. The modules

Modules named `MC...` only give values to the constants. `A -> B` reads "A
extends B".

| Module | Models | Builds on |
|---|---|---|
| `FixBuffer` | the tokenizer over a buffer of cells; what the index keeps of a message | |
| `LogIndex` | one-pass build and append, with a producer | `FixBuffer` |
| `ParallelBuild` | split, scan, stitch | `FixBuffer` |
| `TailSpec` | abstract: what a tail promises | `FixBuffer` |
| `GrepFollow` | `grep --follow`, its watcher and a rotating file | `FixBuffer`; implements `TailSpec` |
| `Order` | sorting: ranks, ascending sets, the chosen elements of a sequence | |
| `MessageList` | the list of the TUI, its filter, the poll and a rotating file | `Order` |
| `Screen` | the loop with its frames, the terminal, the viewports and the detail pane | |
| `TuiInput` | what a key means: modes, prefix, overlays, slots, bookmarks, the command line and its history | `Order` |
| `Consolidated` | `handle_message`, `finish`, `sort_rows` | |
| `StreamDrain` | `push_source`, `drain_complete` | `FixBuffer` |
| `IndexedLog` | what the analyses read: messages as lists of fields, lookups | `Order` |
| `Sessions` | `SessionMap` | `IndexedLog` |
| `Calendar` | timestamps: day number, nanoseconds, sort key, shown text | `IndexedLog` |
| `OrderTimeline` | `OrderTimeline::build`, `render_gantt` | `Calendar` |
| `Histogram` | bins, their line of characters, their peaks, the width's text | `Calendar` |
| `LogFormat` | the sniffer, and the logs it is given | |
| `Dictionary`, `Export` | chains, groups, `resolve`; the writers and what a reader finds | `IndexedLog` |
| `QueryDsl`, `FilterText` | parser and evaluator; the text in force and its evaluation | `IndexedLog` |
| `Reports` | sessions, timelines and histograms over an index that grows | `Sessions`, `OrderTimeline`, `Histogram` |
| `Analysis` | adds the filter in force, sniffing and exporting | `Reports`, `FilterText`, `Export` |
| `Lemmas` | lemmas about the operators of `FixBuffer` and `Order` | `FixBuffer`, `Order`, `TLAPS` |
| `LogIndexProofs`, `ParallelBuildProofs`, `GrepFollowProofs`, `ScreenProofs`, `ConsolidatedProofs` | theorems about the module they are named after | `Lemmas`, where they need them, and `TLAPS` |
| `TuiProofs` | theorems about `MessageList` and `TuiInput` | both, `Lemmas` |
| `AnalysisProofs` | theorems about `StreamDrain` and `Reports` | both, `Lemmas` |

**FixBuffer.** A buffer is a sequence of *cells*: a begin cell (`8=FIX` and
`9=<len>`), another field, a CheckSum field, or noise. Bytes are abstracted,
what the tokenizer decides by them is not: a begin cell carries its declared
body length, so that a message can be complete (`ParseOk`), unfinished
(`UnexpectedEof`) or malformed, and can lie **inside** another message, which is
where the order of a scan matters. `AfterMarker` is where the scan goes on: past
a complete message, but only past the marker of any other.

**LogIndex.** One action per operation: `Write` (producer), `Build`,
`AppendFromOffset` and its two refusals in `Refuse`, then one turn of
`extend_index` per step (`PushMessage`, `SkipMarker`, `Return`), so that the
producer writes in the middle of a call. `mapped` is the slice that the call
was given.

**ParallelBuild.** `PushRange` is one turn of `chunk_ranges`; each range has a
task whose steps (`PushMessage`, `SkipMarker`, `FinishChunk`) interleave with all
others; `MergePart` is one turn of `stitch`. The single-threaded path is the
case of one range.

**GrepFollow.** The process: `InitialPass`, `OpenState`, `Receive`, `Timeout`,
and the catch-up in two steps, `Stat` and then `Reopen`, `Remap` or `KeepMap`,
between which the file may change. The producer: `Write`, `MoveAway`, `Create`;
a write may or may not be notified, and equal events are merged. The output is
a history of (file, offset). `TailSpec` is the abstract specification, and
`ImplementsTail` the refinement: the output only ever grows, by complete
matches, each once and in file order.

**MessageList.** The event loop as `pc`: a key (`User`), the poll (`PollStat`,
then `Remap` or `Rebuild` with their failures), `Draw`. The functions that take
`&mut AppState` are operators from a state to a state, composed as in the code
(`recompute_effective_filter`, `apply_filter`, `sort_visible`,
`refresh_detail_cache`, `on_index_grew`). A stable sort by key and ordinal is
stated by ranks (`Ranked`): the k-th is the one that k - 1 others come before. A message takes two writes, so every
message is seen half-written. The history `sorted` is how many of the rows were
there when they were last put in order, `missed` which messages Esc left out of
them, `origin` the file in which each indexed message was found, `base` the file
of the last bootstrap, and `failed` that a rebuild failed and nothing was mapped
since.

**Screen.** The same loop seen from the terminal: `EnableRawMode`,
`EnterAlternateScreen`, `NewTerminal` (each may fail), then `Draw`, an event
(`Key`, `Resize` or a tick) and a poll, until `Leave`. `Draw` composes what the
views write: `DrawList`, `DrawDetail`, `DrawTable`, each with its early return
for a small area, each on the size of that frame. A message is how many fields
it has, common ones and others; a filter is a set of ordinals. `aimed` is a
history: the last key moved the cursor of the detail pane, in a terminal that
has not changed since.

**TuiInput.** `overlay_intercept` before the prefix before the action, as in
`App::apply`: `OverlayKey`, `PrefixKey`, `NormalKey`, `ModeKey`. Between two keys
the watcher grows or rebuilds the index. An overlay has the list it was opened
with. How the list moves is left to `MessageList`: the cursor may go to any
visible row. The command line is a sequence of words: `CommandChar` and
`CommandBackspace` edit it and preview (`live_preview`), `nav_history` recalls a
line without a preview, `submit_command` parses (`parse`) and executes
(`execute`) it.

**Consolidated.** `handle_message` is split by its early returns: `HandleBound`,
`HandleUnion`, `HandleByOrderId`, `HandleNoOrder`. `resolve_root` is its meaning,
the end of the path, with the compression as in the code; `merge_from` field by
field. The history `seen` says which root each message went to, and whether its
fill was counted: the rows are compared with totals over this history. `finish`
takes the rows in the order the hash map happens to have, as an argument.

**StreamDrain.** Bytes are half cells, so that a chunk can end inside a marker,
inside a field or between two. `ReadSome`, `ReadEof`, one turn of
`drain_complete` per step (`HandleMessage`, `SkipMalformed`), `StopDrain`,
`CheckBuffer` (the watchdog), `StopLast`.

**Reports.** The index grows by `GrowIndex`, as in `poll_now`, and with it a
`SessionMap` (`append_from`). `:orders` is `StartTimeline`, one turn of the
worklist per step (`ExpandTimeline`), and `FinishTimeline`; `:histogram` is
`OpenHistogram`, which keeps what it showed while the index goes on growing. A
lookup of the index answers a set here: that its list is exact and in order is
the subject of `LogIndex` and `ParallelBuild`.

**Analysis.** The same index, with the visible rows (`extend_visible`) growing
too: each action is one of `Reports` together with what it does to the filter, or
leaves the variables of `Reports` alone, so that what is said of `ReportsSpec`
holds of its behaviours. A filter command sets the text in force
from one of its sources: `:filter` and the preview of each key (`TypeFilter`,
`TypeBadFilter`), `ClearFilter`, `ToggleHideHeartbeat`, `f` and `x` in the detail
pane (`FilterFromDetail`), Enter in the sessions overlay
(`apply_session_filter`). The text is a sequence of symbols that `QueryDsl!parse`
parses by recursive descent, as in the code. Beside the text the model keeps what
it **means** (`filter.meant`): the set of messages, computed without any text
from the expression typed, the field or the session. `FilterSelects` relates
the two. `Export` is the command of that name, and keeps what it wrote.

**The pure parts under Analysis.** `Calendar` has a timestamp as its numbers (and
the digits of its fraction), `days_from_civil` and `civil_from_days` in the
integer arithmetic of the code; the properties compare them with a calendar that
counts years and months. `LogFormat` has a log as characters: `Sniff` writes one
in a layout, cuts a sample anywhere, and the properties compare the layout found
with it. `Dictionary` has the chain of dictionaries by version and the groups;
the generated tables are constants. `Export` writes characters, with the escapes
of each format, and `Analysis` reads them back with readers of its own, one for
each format.

## 3. The runs

All passing runs are exhaustive over the bounds given. Deadlock is not looked
for, since each of these systems may stop: the log ends, the application quits,
the command returns; that the ones that must go on do is a matter of the
liveness properties.

| Run | Bounds | Asks |
|---|---|---|
| `log_index` | files of up to 5 cells, six kinds of cell, any series of builds and appends at any cut | `NothingLost`, `SameAsSingleBuild`, `SecondaryIsExact` |
| `parallel_build` | all buffers of 0, 1, 4 and 5 cells; one and two threads, that is one to three ranges | `ScheduleIndependent`, `SameAsSequential`, `SecondaryIsExact` |
| `grep_follow` | two files, each up to 4 cells, together up to 5, three kinds of cell, nested messages included, events of other files | `NothingLostSinceBase`, `ImplementsTail`, `CatchesUp` |
| `list_growth` | one file of up to 2 messages, a heartbeat and an order, all sort keys | `VisibleIsExact`, `DetailIsOfCursor`, `SortedSinceKey`, `GrowthKeepsPlace`, `EveryMessageIsIndexed` |
| `list_rotate` | two files of up to 2 messages, a bookmark | `IndexIsOfMapping` |
| `screen` | two messages, of two fields and of none, two sort orders, a filter that passes the first message and one that passes none, a table of two rows, three sizes | `CursorIsDrawn`, `FieldIsThere`, `DetailFollows` |
| `consolidated` | any 5 of 9 messages, with repetitions, in any order | `FamiliesAreLinked`, `RowsAreTotals`, `ResendCountedOnce`, `RowsChooseWithin`, `TableIsDeterministic` |
| `stream_drain` | all sources of up to 6 cells, chunks of half a cell to two, a buffer of three | `ChunksDoNotMatter`, `OnlyDroppedIsLost`, `SourceEnds` |
| `tui_input` | three messages, two ClOrdIDs (one not UTF-8), two sessions, a bookmark, eight command lines | `ParentIsDrilled`, `OrdinalsAreIndexed`, `PreviewIsKept` |
| `analysis` | 6561 logs of four messages for sessions, 13824 of three for timelines, one for filters, 343 of three and 1296 of two for times, 540 for exports, files of two lines in every layout at four cuts | `AppendEqualsBuild`, `GapsAreMissing`, `TimelineIsClosure`, `FilterSelects`, `TimelineIsDrawn`, `HistogramIsExact`, `TimesRoundTrip`, `KeyIsChronological`, `LayoutIsFound`, `ExportIsRead`, `TimelineEnds` |
| `list_missed` | as `list_growth`, one property | finds `NothingMissed` violated |
| `list_panics` | as `list_rotate`, one property | finds `FilterNeverPanics` violated |

What they show, and why the bounds are enough to show it:

- **log_index.** Five cells hold a message inside another one, two messages in a
  row, a malformed marker before a message, and an unfinished message at every
  cut. After any series of calls, whatever is complete is indexed or overlaps
  what is (`NothingLost`); without nesting the index is that of one build.
- **parallel_build.** Five cells on two threads are cut into three ranges, so a
  message starts in each range, crosses a cut, covers a whole range, or lies
  inside one that crosses. The theorems have no bounds.
- **grep_follow.** Two files are enough for one rotation at every step of the
  loop; five cells let the second file be shorter than, as long as and longer
  than what was consumed of the first. Another file of the directory changes all
  the time, and a match does not wait for ever even if its event was missed.
- **list_growth, list_rotate.** Two messages: one row and none, a row
  before and after the cursor, a list whose sorted order is not that of the
  file, a half-written message at the end. A rotation needs a second file, and
  is most interesting when it is shorter than, equal to or longer than the
  first. `VisibleIsExact` says exactly which messages may be missing from the
  rows: those indexed while a command was typed that was then cancelled.
  Like `SortedSinceKey` and `DetailIsOfCursor` it speaks of the states in which the
  mapped file is the one of the last bootstrap. The code does not notice a
  replacement that is as long as the index (`ReplacedFileIsRebuilt`, section 5), and
  what a list means whose ranges are those of another file is no question of the
  list. `IndexIsOfMapping` does cover those states: `list_rotate` replaces the file
  between the look at its length, the mapping and the rebuild, and the index then
  has the messages of the old file and behind them what was found in the new one,
  file after file, none from before the last bootstrap; and no range of
  it reaches beyond the mapping, of whatever file, unless a rebuild has failed
  (`FilterNeverPanics` is that case).
  `SortedSinceKey` and `GrowthKeepsPlace` say what does hold where the documents
  promise more (section 5): the rows of the last sort keep its order, and those
  that came later are behind them in file order; who browses stays on his row,
  who follows goes to the last.
- **screen.** Three sizes: two rows and one field; one row and no field, or no
  pane at all under a command; and a wide list beside a pane that is too narrow
  to be drawn. With two rows and a table of two, every viewport has a row above
  and below it. `FieldIsThere` speaks of the message that is cached, and
  `DetailFollows` of a terminal whose size is that of the last key: section 5 says
  why.
- **consolidated.** The nine messages are a replace chain of three ClOrdIDs with
  links in both directions, a placeholder, fills found by ClOrdID, by OrderID
  only and without an ExecID. Five of them are enough for two families with
  fills of their own to be merged and then hit by a resend. Up to three rows, in
  any order and with equal keys, are sorted by each of the four keys.
- **stream_drain.** The buffer is smaller than the longest message, so the
  watchdog bites. As long as it has not, chunks do not matter; when it has, what
  is missing is accounted for.
- **tui_input.** Three messages and every sequence of keys. A rebuild between
  any two keys must leave nothing behind that points into the old index. The
  lines are a filter typed in full, begun and broken, a word that begins like
  one, and one command of each kind; the history makes them come back unedited.
- **analysis.** Four messages in two directions give gaps that close, open and
  split as the log grows, repeated and reordered numbers, messages without a
  number or a CompID. Three messages over three ClOrdIDs give chains and circles
  of length up to three. The filters are 441 expressions of up to three
  predicates with every operator, written with the fewest parentheses, then
  extended by any field of any visible message, negated or not, up to the length
  `MaxDetail`; values include a keyword, a quote, a backslash, a blank and a
  parenthesis. The times are around the epoch, the ends of February of common
  years, leap years and centuries, the end of a year and a leap second, with
  fractions of no, one, two and three digits, also in the leap second;
  nanoseconds are hundredths of a second (`FracDigits`), with buckets from the
  least to one that holds all, and bars and lines of 1, 2, 7 and 20 columns. A leap
  second is taken for the first second of the next day, so there
  `KeyIsChronological` compares to the second only. The
  exported values have every character that an escape is about, at their ends
  too, and so has each of the five columns of a row: a comma, a quote and a line
  feed, each alone and together, in one row and in two, so that a cell is quoted
  for each of its reasons. `ExportIsRead` has a mutant in each format that
  escapes: a backslash left as it is, and a cell with a line feed left without
  quotes. A reader takes a CR alone for a character of the cell. The messages have nested and repeated groups, tags that several
  dictionaries know and one that none does. A sample is cut before the first
  field, in the first line, in the second and not at all; prefixes have no
  character, one, and two that look like the end of a field.

Each property of a passing run has a mutant in `PROJECT.json`, a change of one
definition such as a plausible error in the code, under which the run finds it
violated. The mutated definitions stand before those they change, marked
`Mutant of`.

Type invariants are stated in each module with state of its own and proved, and so
are `OffsetsAreMessages`, `ChunksPartition` and `HandledOnce`. They and the
properties of section 5 can be checked by naming them in a `.cfg`; the runs spend
their time on what says more.

### Fairness

- `GrepFollow!QuietSpec`: the process takes its steps (weak fairness), and the
  directory is quiet for the fallback interval again and again (strong fairness
  of `Timeout`). The second is an assumption about the environment, and it is
  needed: see `MissedWriteIsCaught` in section 5.
- `MessageList!FairSpec`: the loop turns, because `event::next` returns a `Tick`
  after 250 ms without a key; and since `poll` compares elapsed time, a poll that
  really looks (`PollStat`) happens again and again, however fast keys arrive,
  hence strong fairness of it. Nothing is assumed of the producer or the user.
- `StreamDrain!FairSpec`: `push_source` is a loop without waits.
- `Reports!BuildEnds`, in `ReportsSpec` and in `Analysis!Spec`: a command runs to
  its end before the next key is read (weak fairness of the steps of a timeline).
- `LogIndex`, `ParallelBuild`, `Consolidated` and `TuiInput` claim no liveness.

## 4. The proofs

The theorems hold for every value of the constants that satisfies the
named assumption of the module: any set of cells, any files or buffers, any
number of threads, any messages, filters and sort keys, any chunk size. They
assume nothing else, but for `FieldsFit` in one theorem on the detail pane.
The assumptions of the reports say what their texts are: a value is the text of a time
or of none, and there is at least one digit of a fraction (`CalendarAssumption`), a
number is a nonempty sequence of digits, `+` and blanks (`HistogramAssumption`), and the text of a bucket is a number followed by a unit, or
is not understood and so means one second (`BucketsAssumption`).

**Lemmas** has what several of the other modules need: of the tokenizer, what
`EndOf` and `AfterMarker` are bounded by, that a scan has passed no message
between two markers, that a longer buffer agrees with its prefix, and how a
recorded message extends the secondary index; of sorting, that the ranks of a
strict total order on a finite set are its places (`RanksArePlaces`), that a finite
set of numbers has an ascending sequence with each member once (`AscendingIs`),
and what `Chosen` picks (`ChosenIs`).

**LogIndexProofs.** None of the invariants is inductive: `NothingLost` and
`BuildIsScan` speak of the moment between two calls, and say nothing during one.
The strengthening says the same of the part already scanned. `Frontier` is the
cursor during a call and the length of the slice after it, and

    IInv == TypeOK, OffsetsAreMessages, ConsumedIsLastEnd, Watermark,
            NothingLostSoFar, BuildIsScanSoFar

where `Watermark` keeps what is recorded before the frontier, and the `SoFar`
parts restrict the properties to markers before it. The step that needs an
argument is `AppendStep`: the frontier falls back to `consumed`, so one must know
that no complete message between `consumed` and the end of the longer slice had
been given up for good, which holds because `consumed` is the end of the last
recorded message.

| Theorem | Establishes, always |
|---|---|
| `TypeCorrect` | `TypeOK` |
| `OffsetsCorrect` | `OffsetsAreMessages`: recorded ranges are complete messages, in order, disjoint |
| `ConsumedCorrect` | `consumed` is the end of the last message |
| `NothingIsLost` | `NothingLost`: a complete message that is not recorded overlaps one that is |
| `AppendEqualsBuild` | `SameAsSingleBuild`: without nesting, any series of calls yields the index of one build |
| `BuildCorrect` | `BuildIsScan`: with nesting, a build records what the scan reaches |
| `SecondaryCorrect` | `SecondaryIsExact`: a lookup answers exactly the messages that mention the pair, in order |

**ParallelBuildProofs.** The invariant has a part for each phase:

    IInv == TypeOK, RangesInv, PartsInv, StitchInv

`RangesInv`: the ranges pushed so far tile the buffer from 0. `PartsInv`: each
task has recorded exactly what a scan from the start of its range reaches before
its cursor. `StitchInv`: the parts merged so far are, in order, the recorded
messages, and their ordinals were moved by the number of messages before them.

| Theorem | Establishes, always |
|---|---|
| `TypeCorrect` | `TypeOK` |
| `ChunksCorrect` | `ChunksPartition`: the ranges are a partition of the buffer |
| `StartsCorrect` | recorded ranges are complete messages that start in the range of their task |
| `SecondaryCorrect` | `SecondaryIsExact` |
| `ScheduleCorrect` | `ScheduleIndependent`: the result is a function of the buffer and of the ranges |
| `ParallelEqualsSequential` | `SameAsSequential`: without nesting, it is the result of the sequential build |

**AnalysisProofs, the stream.** The properties speak of the end of `push_source`; the
invariant says at each step why every marker before the frontier (the cursor in
a drain, the beginning of the buffer between two reads) is settled:

    IInv == TypeOK, HandledOnce, TakenAreSettled, AllSettled, LastDrain

A marker is settled if its message was handled, if it lies inside one that was,
if it was seen to be malformed, or if the watchdog discarded it. Settled markers
stay settled, since a longer buffer tells no less of a marker (`ToldGrows`), so
each step only has to account for those its frontier passes (`FrontierMoves`).
At the end, a complete message that is not settled is behind a marker that never
was told, and so both properties follow (`UnsettledAtEnd`).

| Theorem | Establishes, always |
|---|---|
| `TypeCorrect` | `TypeOK`: no index into the buffer is out of range |
| `NothingHandledTwice` | `HandledOnce` |
| `AnyChunks` | `ChunksDoNotMatter` |
| `LossIsAccounted` | `OnlyDroppedIsLost` |
| `MemoryIsBounded` | `BufferIsBounded`: at most `MAX_BUFFER` and one chunk, for every size of both |

**ScreenProofs.** `CursorIsDrawn` speaks of the moment after a frame, so between
two frames the invariant says what a frame needs to find:

    IInv == TypeOK, Sound(state), CursorIsDrawn

`Sound` bounds the cursor of the list by its rows, that of the table by its
families and that of the detail pane by the fields of the cached message, and
asks the rows and the cursor that a command keeps aside to fit each other, since
Esc shows them again without looking. It is kept by every key (`UserKeeps`),
by growth and by a rebuild; a frame keeps it part after part (`ListIsDrawn`,
`DetailIsDrawn`, `TableIsDrawn`), and each part leaves alone what the others have
drawn. That the window shows the cursor is arithmetic over `Ensured` and
`clamp_viewport_top` (`EnsuredShows`, `ClampedShows`). The proofs assume of a size
only that its height is at least 4 and its table has a row.

| Theorem | Establishes, always |
|---|---|
| `TypeCorrect` | `TypeOK`: the offset of the detail pane stays a `u16` |
| `CursorStaysDrawn` | `CursorIsDrawn`: the selected rows exist and are on the screen when a key is taken |
| `FieldStaysThere` | `FieldIsThere`: the field that `f` and `x` take exists |
| `FieldsAreFollowed` | `DetailFollows`: a cursor that was moved over the fields is on the screen, and no row is blank while fields are above it; if `FieldsFit` |

`DetailFollows` needs two facts of the time between the key and the frame:

    AimInv == IInv, HeightIsDrawn, AimIsKept, DetailFollows

the height that the key reckons with is that of the frame on the screen
(`HeightIsDrawn`), and after the key, whatever the poll changes, the cursor is in
the window that the next frame starts from (`AimIsKept`). `FieldsFit` is a
hypothesis of this theorem: no message has more fields than the offset, a
`u16`, can count. It is needed: with more, the key that goes beyond stays at the
greatest offset while the cursor goes on, and TLC finds `AimIsKept` violated with
a message of four fields and `MaxOffset = 2`. The log formats that the tool reads
are far from it, the code does not enforce it.

**TuiProofs, the list.** Each property of the list speaks of the state in which
the last bootstrap's file is still the mapped one; whether it is can change in a
poll, and what the list shows depends on what was typed before. So the invariant
is about every state and also about what a command would bring back:

    IInv == World, Sound(state, base), DetailIsOfCursor
    Sound(s, b) == MappingFits, ViewFits of the state, ViewFits of the snapshot,
                   CacheFits

`MappingFits`: the mapping is of a file that has been at the path and no longer
than it, and of the bootstrapped file the index has all complete messages.
What `IndexIsOfMapping` says of other files has an invariant of its own, kept
beside this one:

    OriginInv == Len(origin) = state.indexed, FoundInOrder, failed \in BOOLEAN,
                 consumed(state) <= state.mmap.len or failed or pc = "rebuild"

`FoundInOrder`: the files of `origin` are between `base` and the mapped one, in
order. It is kept because only a poll changes mapping, index or history
(`UserReads`, `AppendedOrigin`, `FreshOrigin`), and a file at the path is never an
older one than the mapped (`FileIsFound`).
`ViewFits`: filter and list fit each other (the composed filter is that of the two
parts, each message that passes once, sorted as far as `sorted`, the cursor on a
row), said of the list on the screen with the messages indexed now, and of the
one kept for Esc with those indexed then. `CacheFits`: the cached detail is the
message of its ordinal. `Sound` is said of any state `s` and not of the variable,
so that the operators on `AppState` have a lemma each - what makes the list anew
needs only the filters and the mapping (`Refiltered`), Esc needs a snapshot that
fits (`Restored`), the sort loses no row (`Cycled`), a frame brings the cache to
the cursor (`Refreshed`) - and an action is an application of them. Two steps need
an argument. `RemappedIsSound`: the new rows are behind the others, none of
them twice, and what an old row says has not changed, since a file only grows
(`MessagesStay`, `ViewGrows`, `Extended`). `ShrankKeeps`: a file shorter than the
index cannot be the bootstrapped one. The sort needs that ranks are places: of a
strict total order on n elements, exactly one element has k - 1 below it
(`RanksArePlaces`), by injections between finite sets and without induction.

| Theorem | Establishes, always |
|---|---|
| `TypeCorrect` | `TypeOK` |
| `ListIsExact` | `VisibleIsExact`, while the mapped file is the bootstrapped one: no row twice or unasked for, and each message that passes the two filters, but those indexed while a cancelled command was typed |
| `ListIsSorted` | `SortedSinceKey`, under the same condition: the rows of the last sort in its order, later ones behind them |
| `DetailKeepsUp` | `DetailIsOfCursor`, under the same condition: a frame shows the message of the cursor |
| `IndexKeepsUp` | `IndexIsOfMapping`: of the bootstrapped file all complete messages of the mapping; otherwise messages of the files mapped since, in their order; ranges within the mapping unless a rebuild has failed |
| `ReaderIsLeftAlone` | `GrowthKeepsPlace`, of every step: growth leaves a reader's row, and takes a follower to the last |

**TuiProofs, the keys.** `TuiInput` is another view of the same state, with a
variable `app` of its own. It assumes of its constants that the filters are sets
of messages, the digits are digits, and `f` is the only word of the filter command.
The invariant, again said of any
state `s` and any length `n` of the index:

    InputInv == the types of indexed and running, Ready(app, indexed)
    Ready(s, n) == Seen(s, n), Moded(s), Previewed(s)

`Seen` is what the screen is drawn of: all rows and ordinals are below `n`, the
cursor is on a row, that of the command's snapshot was, the cursors of both
overlays are in their lists (`Overlaid`), a parked overlay is a table with its
cursor on the order that is open, and an open diff has both slots. It is more
than `ParentIsDrilled` and `OrdinalsAreIndexed` say: the parked overlay must have
a cursor that Esc can bring back, and the snapshot a list. `Moded`: what belongs to
one mode is not left behind in another, so that the command line opens with an
empty buffer; without it `Previewed`, the preview of whatever is in the buffer,
would not hold when the line is opened. Each function of `AppState` has its
lemma, and two steps an argument of their own: a bookmark set under the open list
of bookmarks can only make it longer (`BookmarkSeen`, by the cardinality of
subsets), and of the lists that the overlays are opened with each is a sequence
at all because what it is of is finite (`AscendingIs`, `AnyOrderIs`).

| Theorem | Establishes, always |
|---|---|
| `KeysAreTyped` | `AppTypeOK` |
| `ParentsAreDrilled` | `ParentIsDrilled` |
| `OrdinalsStayIndexed` | `OrdinalsAreIndexed`, across growth and rebuilds |
| `PreviewsAreKept` | `PreviewIsKept`: what was previewed is what Enter leaves |

**GrepFollowProofs.** That the output is a tail's (`ImplementsTail`) is proved as a
refinement: an initial state is one of `TailSpec`, and a step is a step or a
stutter of it. The invariant of the refinement is

    TailInv == TypeOK, PrintedAreMatches, NothingPrintedYet, PrintedIsConsumed,
               ShrunkIsReplaced

What is printed of the mapped file ends at or before `consumed`
(`PrintedIsConsumed`), so a catch-up that starts there repeats nothing; and when
it starts again from 0, the file is a new one, since a size below `consumed`
means that another file is at the path or that the mapping is the short one
(`ShrunkIsReplaced`). `OutputFacts` says what one call of `stream_matches` emits.
That nothing is lost rests on another one:

    LossInv == TypeOK, ConsumedIsAnchored, NothingLostSinceBase

`consumed` is where following started or the end of a complete message, so no
message straddles it, and the matches before it have been printed. The argument is
that an anchor in a shorter mapping is one in a longer one, and that a scan from
an anchor misses nothing unless messages nest.

| Theorem | Establishes, always |
|---|---|
| `TypeCorrect` | `TypeOK` |
| `GrepIsTail` | `ImplementsTail`: the output only grows, by complete matches, each once and in file order |
| `NothingLost` | `NothingLostSinceBase`: waiting, it has printed every match from where following started, while that file is mapped and unless messages nest |

**ConsolidatedProofs.** The invariants build on each other:

    ForestInv == TypeOK, IsForest(alias, Roots(alias))
    TableInv  == ForestInv, OwnedBy, ResendCountedOnce
    FamilyInv == TableInv, Families, Linked
    RowInv    == FamilyInv, CountedHaveAmounts, RowsOf

`IsForest` says that every walk along `alias` ends in one root; instead of a
measure that falls along the walk it says that whatever set is closed under
`alias` has the root of its members, which makes both compression (`Shortcut`)
and union (`HangsBelow`) a matter of sets. `OwnedBy`: each message's row is where
its ClOrdID or its OrderID leads now, through all merges since. `Linked`: two ids
have one root if and only if a chain of linking messages connects them, stated as
the least set closed under links. `RowsOf`: a row is the total over its messages.
The totals are folds over finite sets; that their order does not matter, and that
a merge adds them, is `TotalAdds`, `TotalOfUnion` and `TotalOfSame`, by the
smallest counterexample in place of an induction. `TableHasOneOrder` does not
look at the steps at all but for `FiniteInv`: sorting by ranks of a total order
has one outcome, whatever order the hash map yields.

| Theorem | Establishes, always |
|---|---|
| `TypeCorrect` | `TypeOK` |
| `FamiliesLinked` | `FamiliesAreLinked`: the rows are the families that messages link, no more and no fewer |
| `ResendsAreCountedOnce` | `ResendCountedOnce` |
| `RowsAreTheTotals` | `RowsAreTotals`: fills, notional, CumQty and times of a row are those of its messages |
| `RowsChoose` | `RowsChooseWithin`: status and quantity are the last, the symbol the first, of one of the families that were merged |
| `TableHasOneOrder` | `TableIsDeterministic` |

**AnalysisProofs, the reports.** The theorems are about `ReportsSpec`, the part of
`Analysis` without filters, files and layouts, for any set of logs whose messages
have numbers for tags and values. The invariant is

    ReportsInv == AppendEqualsBuild, TimelineIsClosure,
                  timeline is none or in TimelineType(index),
                  Chained(timeline, index) while it is built

The three properties are about a moment, and only `AppendEqualsBuild` is
inductive, since one call extends and another builds. That they agree is
`AppendAgrees`: `append_from(build(x), y) = build(y)` for a log `y` that begins
with `x`. A loop over messages is the last value of a recursive function
(`RunExists`, `RunValue`), two such loops from maps that differ in the gaps alone
go on differing in them alone (`RunsSame`, by the least index where they do not),
and the gaps are found anew whatever they were (`RecomputeSame`).

A timeline is a closure because, while it is expanded (`Chained`), what is seen
or pending lies in every set of ClOrdIDs with the one asked for that is closed
under replacement, and what is seen is replaced by nothing but what is seen or
pending: with nothing pending, what is seen is such a set, and the least one
(`FamilyIs`). This needs that the index does not grow meanwhile, and it does not:
`GrowIndex` waits for the end of the command.

The gaps follow from sorting: neighbours in the sorted pairs have no number
between them, so what lies strictly between two neighbours is missing, and each
missing number has a last pair below it (`DirectionGaps`); then the two
directions of a session are told apart by the senders of the messages that the
gaps name (`DirectionOf`, `HalfGaps`, `KeyGaps`). `AtMostOne` carries the proviso
of the property: with two messages of the greatest number the successor wraps.

| Theorem | Establishes, always |
|---|---|
| `TimelinesAreClosures` | `TimelineIsClosure`: the messages of the least closed family and of its OrderIDs, in file order |
| `ExtendedIsBuilt` | `AppendEqualsBuild`: however the index grew |
| `MissingAreInGaps` | `GapsAreMissing`: each missing number in one gap, between the messages it names, unless the greatest number is there twice |
| `TimesAreKept` | `TimesRoundTrip`: the day is that of the Gregorian calendar, and the time shown is the time written, leap seconds apart |
| `KeysAreInOrder` | `KeyIsChronological`: the byte order of sort keys is the order of times, to the second in a leap second |
| `BarsAreDrawn` | `TimelineIsDrawn`: later events never to the left of earlier ones, the last event seen |
| `HistogramsAreExact` | `HistogramIsExact`: each timed message once in the bin of its time, from any bucket text; in any width no count is lost, and the full height is reached unless all columns count the same |

**AnalysisProofs, the arithmetic.** The last four theorems hold for every date from
1970 on, fractions of any length that is read, any log and any bucket.

*Times.* `days_from_civil` and `civil_from_days` count in eras of 400 years that
begin in March. Each of their quotients undoes the sum of the other: the month of a
day (`MonthOfDay`), the year of a century and of an era (`YearOfDay`, where the
last day of a leap year is the one that a plain quotient gets wrong, and the
corrections by 1460, 36524 and 146096 set right), the era of a day (`EraDay`), and
so both directions (`CivilInverse`). That the days are those of the calendar,
counted year by year and month by month, is `DayNumber`: the leap years before a year
grow by one exactly after a leap year (`LeapsBeforeAre`). Numbers are reached from
0 in steps of one (`BySteps`), which is an application of the well-order of the
naturals and not of an induction theorem.

*Keys.* Of two dates in the order of their digits, the first has no later day
(`DatesInOrder`, from the ends of months and years), and so for the clocks; that the
nanoseconds follow the digits of the fraction, however many there are, is
`NanosOrder`: a digit before the first difference counts the same in both, and the
ones behind it are less than one of it together (`TensOrder`).

*Bars.* A place is the quotient of a distance by the span of the whole, scaled by
the width, so it grows with the time and lies inside (`PlaceIsAlong`); what
is seen in a column is the letter of the last event placed there (`LastChosen`).

*Histograms.* A histogram is drawn of an index that may have grown since, which
needs an invariant of its own, kept beside `ReportsInv`:

    HistogramIsOf == the histogram shown is histogram_of of the messages
                     that were indexed when it was made, and of the
                     duration of its text, one of the known texts

What `histogram_of` returns then has what the property asks for. The times taken
are those of the messages, one for each (`TimesAre`); bins are the multiples of the
bucket from the first time to the last with none left out (`BinsAre`, `InMultiples`),
so each time is in one, and the counts add up to the messages (`CountThrough`,
`CountsAre`). A
line narrower than the bins merges neighbours, and the sums telescope (`Edges`,
`MergedIs`): no count is lost (`LineIs`), and one of the sums is at the 95th
percentile and so has the full height (`SparklineIs`). The
first of the peaks is a greatest bin (`PeaksIs`). And the text of the bucket is
understood: of the suffixes, tried in the order of the code, the first that fits is
the unit it was written with, because a number does not end in a letter
(`SuffixFound`, `UnitLetters`, `NumberAndUnit`), so that `5ms` is not taken for
`5m` and an `s`.

### What is model-checked only

- Liveness under fairness: `CatchesUp`, `EveryMessageIsIndexed`, `SourceEnds`,
  `TimelineEnds`. The prover has no rules for fairness.
- `FilterSelects`: the parser is recursive over texts that the program itself
  composes, so what it computes is known by induction over data only, and the
  prover has no `RECURSIVE` operators. `LayoutIsFound` and `ExportIsRead` are about
  texts put together and taken apart again, with the same obstacle.

## 5. Where the code and its documentation differ

Each of these is stated in its module as a property, after a comment that quotes
the document. Naming it in the `.cfg` of the module's run shows a
counterexample. The two most serious ones have a run of their own.

**`FilterNeverPanics` (run `list_panics`).** The file is replaced by one that is
still empty: `poll_now` assigns the new mapping, `append_from_offset` refuses,
and `rebuild` fails because there is nothing to sniff. The old index is now used
with the new mapping, and the slice of the next filter scan (`state.rs:846`) is
out of range. The comment at `state.rs:825` says the scan is stable over corrupt
tails.

**`NothingMissed` (run `list_missed`).** Esc restores the rows of the snapshot
that was taken when the command line was opened (`state.rs:771`). Messages that
were indexed in between are not among them, and nothing adds them until the
next change of the filter. `state.rs:324-325` says the rows are re-evaluated when
an append lands that could add more.

| Property | The document says | The code does |
|---|---|---|
| `LogIndex!StraddlingMessageRescanned` | a straddling message "is rescanned from its original start" (`builder.rs:44-46`) | resumes at the end of the last recorded message; if that one lies inside the straddling one, the outer is never found |
| `ParallelBuild!IdenticalToSequential` | "identically to `build_from_bytes`" (`parallel.rs:24`) | of a message that crosses a cut, the next task also finds the messages inside it, which one scan jumps over |
| `ParallelBuild!AtMostThreadsRanges` | "at most `threads`" ranges (`parallel.rs:124`) | the last turn can leave a remainder, which is a range of its own |
| `GrepFollow!StreamsEveryMatch` | streams matches as the file grows (`query-grep-tailing.md:5`) | what was appended between the first pass and the opening of the follow state is never printed |
| `GrepFollow!ReplacedFileIsReopened` | a replaced file is bootstrapped anew (`:52`) | a replacement at least as long as the old mapping is taken for growth |
| `GrepFollow!MissedWriteIsCaught` | the interval catches a missed write (`grep.rs:29`) | each event, also of another file, starts the interval again |
| `MessageList!NaturalIsFileOrder` | the order in the file (`state.rs:70`) | sorting by `Natural` changes nothing, so that rows stay in the order of the key before it |
| `MessageList!SortedByKey` | the sort criterion of the rows (`state.rs:426`) | rows that arrive later are appended at the end |
| `MessageList!FollowHasNoNew` | `G` resets the counter (`tui.md:478`) | `G` enters Follow and leaves the counter; only the toggle and new messages reset it |
| `MessageList!FollowIsGlued` | the cursor stays on the last row (`tui.md:482`) | cycling the sort key in Follow keeps it on its message |
| `MessageList!ReplacedFileIsRebuilt` | rebuilds if it shrank or the inode changed (`follow.rs:6`) | compares lengths only |
| `MessageList!UserFilterIsTyped` | the text the user typed (`state.rs:317`) | a rebuild takes the text in force for the user's, with the heartbeat mask in it (`follow.rs:128-131`); found with `MaxFiles = 2` |
| `Consolidated!FullFamily` | the full family after replace chains (`orders_consolidated.rs:6`) | a replacement seen before the order it replaces is not linked to it when that one comes |
| `Consolidated!LastStatusWins` | the status last seen (`:14`, `analysis.md:205`) | when families merge, the child's status replaces the parent's, however old |
| `Consolidated!OrderQtyIsLatest` | the last one of a request (`:312`) | when families merge, the parent's stays |
| `Reports!EqualBinsAreMidLevel` | a line whose buckets all count the same is drawn at mid-level (`analysis/histogram.rs:146`) | the count is the 95th percentile and so the scale: each column is drawn in full |
| `TuiInput!PrefixClears` | a prefix is completed or cleared by the next action (`tui.md:45-47`, `:115`) | a key the overlay takes leaves it: `d j Esc d` completes `dd` (`app.rs:57-67`) |

Others are visible in the modules and are not stated as properties:

- *Index and streams.* A message whose bytes come in two calls of `push_source`
  is lost, as each call starts an empty buffer. `orders consolidate` sniffs the
  format of its first input only (`orders_consolidate.rs:23-33`).
- *Follow.* `grep --follow` ends with an error if the path is missing when it
  reopens (`grep.rs:188`). A rebuild of `AppState` also resets the input mode, so
  a command being typed is lost.
- *Filters.* Enter in the sessions overlay filters one direction only, and puts
  the CompIDs into the text without quotes (`app.rs:665`). The preview of any line
  that begins with `:f` and is no filter, `:foo` too, clears the user's filter;
  Enter then drops the snapshot, so that it is gone without a message
  (`command.rs:311-321`, `app.rs:780-782`). Enter on an expression that does not
  parse reports an error and leaves the filter that was last previewed.
- *Sessions and orders.* Two messages of one direction that both have the largest
  MsgSeqNum make the successor wrap (in a debug build, panic) in `SessionMap`.
  `parse_f64` accepts `NaN`, with which the comparison of `finish` is no order
  (`orders_consolidated.rs:199-204`).
- *Terminal.* `TerminalGuard::enter` leaves raw mode on when the alternate screen
  fails (`terminal.rs:33-37`); `lib.rs:93-94` says the terminal is restored even
  if `run` returns an error.
- *Detail pane.* `app.rs:913-914` lets "the renderer auto-scroll detail_v_offset to
  keep it visible", but after a resize, `0`, or a command line that takes a row,
  nothing scrolls until the cursor moves again: hence `aimed` in `DetailFollows`.
  In a terminal whose pane is too narrow to be drawn the cached message is not
  refreshed, and `f` takes a field of the message that was shown before, the one
  `FieldIsThere` speaks of. `detail.rs:144-145` names `k` among the keys
  that bring back a pane scrolled past its end; it moves the cursor.
- *Times.* `days_from_civil` returns `None` "on an invalid date" (`util.rs:121`), but
  30 February and hour 99 are taken as the days and hours after. The number of
  bins of a histogram has no bound (`histogram.rs:97-99`). An unknown bucket, as in
  `:histogram badtext`, means a second without a word.
- *Export.* `csv_escape` does not quote a value for a CR alone
  (`render/lib.rs:193`). `:export` to the path of the log itself truncates the file
  that is mapped (`export.rs:58`).

## 6. What is abstracted, and what is not modelled

Abstracted, in what is modelled:

- Bytes are cells (`FixBuffer`) or half cells (`StreamDrain`); a malformed
  message is one whose body length points at something that is no CheckSum, or
  whose body is not made of fields.
  `MessageList` has messages of two halves, since all it needs to know of the
  bytes is how many of them are complete. All are of one length there, so the
  watermark of a replaced file is a border of the new one, too; in the code it
  may lie inside a message. No property speaks of how many messages are found
  behind it, or which.
- Offsets and lengths are integers without a bound: the casts to `u32`
  (`parallel.rs:111`) are exact for the files the index accepts.
- One log format: but for `LogFormat`, the sniffer's verdict is taken as given,
  except that it fails on an empty file.
- A file grows, or is moved away and created again; it is not truncated in
  place.
- Filters are sets of messages in `MessageList` and `TuiInput`, and texts in
  `FilterText`. A text is a sequence of symbols; a regular expression is the set
  of the values it matches.
- Columns, widths and horizontal offsets are left out of `Screen`, and a frame is
  what drawing it does to the state. The viewport is in `Screen` only: what
  `MessageList` says of rows and cursor does not depend on it. In `TuiInput` the timeline of an overlay has the
  messages with its ClOrdID; the closure is in `OrderTimeline`.
- Prices and quantities are small integers and the notional is their exact
  product; the code adds `f64`, whose rounding is left out.
- `StreamDrain` reads one source; the next one starts with an empty buffer.
  `SessionMap`'s counts by MsgType are left out.
- The dictionaries' tables are constants: which names and labels are in them is
  data. A value is valid UTF-8 in `Export`, so that `lossy` changes nothing.
- A log that `LogFormat` writes has no separator inside a value. With many of
  another candidate inside values the count of boundaries may well prefer that
  one, which is what a heuristic does.

Not modelled:

| Part | Why |
|---|---|
| checksum validator | a pure function of one message, on whose verdict nothing else depends |
| widgets, columns, colours, summary, pretty print | layout of what the modelled parts hold; they write no state |
| clipboard, gzip, mapping of a file | I/O, with the failures that matter in the models of those who call it |
| other commands of the CLI | call the analyses once and print; Ctrl-C ends them |
| core facade | re-exports |

What is left of the system is of these kinds: no part that keeps state over
time, or on whose decision another part relies, is without a model.

## 7. The plan

The order of the work is the order in which parts rely on each other. Done: the
tokenizer and the two builds with their proofs; `grep --follow`, its abstract
specification and the proof that it implements it; the message list and the screen
with their proofs; consolidated orders with their table, the streaming around
them, and the proofs of both; the input of the TUI with its command line and its
proofs; sessions, timelines, times, histograms, filters, layouts and exports, and
their composition over a growing index, with the proofs of all but the last three.

What would come next: a shared bytes-level model of `MessageList` and `FixBuffer`.
