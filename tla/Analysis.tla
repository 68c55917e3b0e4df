------------------------------ MODULE Analysis ------------------------------
(***************************************************************************)
(* What is asked of an index that grows: the reports on it, and the rows of *)
(* the filter in force, extended with it, too.  Before it is indexed, the   *)
(* layout of the file is sniffed; what is visible can be written to a file. *)
(***************************************************************************)
EXTENDS Reports, FilterText, Export

CONSTANTS
  FilterLogs, (* bound: those on which filters are tried                   *)
  Exprs,      (* what the user filters by ...                              *)
  BadTexts,   (* ... and types when it does not parse                      *)
  Files,      (* the lines of files that are sniffed                       *)
  Windows,    (* ... and how much of a file is looked at                   *)
  ExportLogs, (* bound: those that are exported                            *)
  MaxDetail   (* bound: length of a filter that a field can still be added *)
              (* to                                                        *)

VARIABLES
  filter,     (* user_filter_text, hide_heartbeat, visible, and what the   *)
              (* user means by the text: the ordinals of the log           *)
  format,     (* what the file was written as, and LogFormat               *)
  exported    (* the last file that was written, as what, and of which     *)

vars == <<log, indexed, sessions, timeline, histogram, filter, format, exported>>

NotSniffed == [lines |-> << >>]

NotExported == [visible |-> << >>]

Init ==
  /\ ReportsInit
  /\ format = NotSniffed
  /\ exported = NotExported
  /\ filter = [user |-> None, hide |-> FALSE, visible |-> {}, meant |-> OrdinalsOf(log)]

-----------------------------------------------------------------------------
(* The file is opened, and its first bytes are looked at.  No value has the *)
(* separator in it.  Bound: one log, as the layout is not asked for again.  *)
Sniff ==
  /\ indexed = 0 /\ log \in FilterLogs /\ filter.user = None /\ ~ filter.hide
  /\ format = NotSniffed
  /\ \E lines \in Files, separator \in ToSet(CANDIDATES), ending \in {"Lf", "CrLf"} :
       /\ \A i \in DOMAIN lines : separator \notin ToSet(FlattenSeq(lines[i].values))
       /\ \E window \in Windows :
            LET file == WrittenLog(separator, ending, lines)
            IN format' = [lines |-> lines, separator |-> separator, line_ending |-> ending,
                          window |-> window,
                          shown |-> sniff(SubSeq(file, 1, Min({window, Len(file)})))]
  /\ UNCHANGED <<reports, filter, exported>>

(* The index grows, and the rows with the map; new rows are evaluated one   *)
(* by one.                                                                 *)
extended(visible, from, to) ==
  LET text == compose_effective(filter.user, filter.hide)
  IN visible \cup {o \in from .. to - 1 :
       \/ text = None \/ Failed(parse(text))
       \/ matches(parse(text).result, message(log, o))}

Grow ==
  /\ GrowIndex
  /\ filter' = [filter EXCEPT !.visible = extended(@, indexed, indexed')]
  /\ format' = NotSniffed /\ exported' = NotExported

Report == Ask /\ UNCHANGED <<filter, format, exported>>

(* :export; the list is in the order of the file.  Bound: without a filter  *)
(* of the user's.                                                          *)
Export(fmt) ==
  /\ CloseTimeline /\ log \in ExportLogs /\ filter.user = None /\ filter.visible # {}
  /\ LET visible == Ascending(filter.visible)
     IN exported' = [visible |-> visible, fmt |-> fmt, file |-> export(index, visible, fmt)]
  /\ UNCHANGED <<filter, format>>

-----------------------------------------------------------------------------
Filter(user, hide, meant) ==
  /\ filter' = [user |-> user, hide |-> hide, meant |-> meant,
                visible |-> recompute_effective_filter(index, user, hide)]
  /\ UNCHANGED <<reports, format, exported>>

(* :filter, or each key of it: a text that does not parse changes nothing, *)
(* and is a fault if it should.                                            *)
SetFilter(text, meant) ==
  \/ ~ Failed(parse(text)) /\ Filter(text, filter.hide, meant)
  \/ /\ Failed(parse(text))
     /\ filter' = [filter EXCEPT !.meant = meant]
     /\ UNCHANGED <<reports, format, exported>>

(* Bound: typed when there is none; the one before has no part in the new. *)
TypeFilter ==
  /\ filter.user = None
  /\ \E e \in Exprs : SetFilter(Written(e, 1), Meaning(log, e))

TypeBadFilter == \E text \in BadTexts : SetFilter(text, filter.meant)

ClearFilter == Filter(None, filter.hide, OrdinalsOf(log))

ToggleHideHeartbeat == Filter(filter.user, ~ filter.hide, filter.meant)

(* A field of a visible message, which must have it or must not.           *)
FilterFromDetail ==
  \E o \in filter.visible : \E i \in DOMAIN message(log, o) : \E negated \in BOOLEAN :
    LET field == message(log, o)[i]
        text  == filter_expr_from_field(field[1], TextOf[field[2]], negated)
        have  == {x \in OrdinalsOf(log) : Mentions(message(log, x), field[1], field[2])}
    IN /\ Writable(TextOf[field[2]])
       /\ filter.user # None => Len(filter.user) <= MaxDetail
       /\ Filter(IF filter.user = None THEN text ELSE Conjunction(filter.user, text),
                 filter.hide,
                 IF negated THEN filter.meant \ have ELSE filter.meant \cap have)

(* The messages of a session from its lesser CompID to its greater one, if *)
(* the two can stand in a text.                                            *)
apply_session_filter ==
  \E key \in DOMAIN sessions.by_key :
    LET plain == \A x \in {key.sender, key.target} : ToSet(TextOf[x]) \subseteq Barewords
    IN SetFilter(session_text(key),
         IF ~ plain THEN filter.meant
         ELSE {o \in OrdinalsOf(log) :
                 /\ Mentions(message(log, o), SenderCompID, key.sender)
                 /\ Mentions(message(log, o), TargetCompID, key.target)})

FilterCommand ==
  /\ Idle /\ log \in FilterLogs /\ format = NotSniffed /\ exported = NotExported
  /\ \/ TypeFilter \/ TypeBadFilter \/ ClearFilter \/ ToggleHideHeartbeat
     \/ FilterFromDetail \/ apply_session_filter

Next ==
  \/ Sniff
  \/ Grow
  \/ Report
  \/ \E fmt \in {"Csv", "Json", "Fix"} : Export(fmt)
  \/ FilterCommand

Spec == Init /\ [][Next]_vars /\ BuildEnds

-----------------------------------------------------------------------------
(* query.md: "Precedence: NOT > AND > OR"; state.rs: "(<user>) AND NOT      *)
(* 35=0"; tui.md: f and x add a field's predicate.  However the text in     *)
(* force came about, it is parsed, looked up and extended to the messages   *)
(* that the user's filters mean, without heartbeats when they are hidden.   *)
FilterSelects ==
  filter.visible =
    {o \in filter.meant \cap OrdinalsOf(index) :
       ~ (filter.hide /\ \E i \in DOMAIN message(index, o) :
            message(index, o)[i][1] = MsgType /\ TextOf[message(index, o)[i][2]] = <<"0">>)}

(* format/lib.rs: "Everything needed to read a FIX log".  Once the first     *)
(* line is in the sample, whatever the lines begin with, whatever their     *)
(* values are - but field boundaries of another separator - and wherever    *)
(* the sample ends, the layout is found; lines that begin differently have  *)
(* no prefix.                                                              *)
LayoutIsFound ==
  format # NotSniffed =>
    LET written(n) == Len(WrittenLog(format.separator, format.line_ending, SubSeq(format.lines, 1, n)))
        begins == {Len(format.lines[i].prefix) : i \in
                     {i \in DOMAIN format.lines :
                        written(i - 1) + Len(format.lines[i].prefix) + 3 <= format.window}}
    IN format.window >= written(1) =>
         format.shown = [separator |-> format.separator, line_ending |-> format.line_ending,
                         line_prefix |-> IF Cardinality(begins) = 1 THEN Max(begins) ELSE 0]

(* dict/lib.rs: the table of chain_for, and "lookups try each version in    *)
(* turn until one matches"; resolver.rs: "the contiguous run of member tags *)
(* that follow" a counter is one deeper.                                   *)
Dictionaries(msg) ==
  IF FirstText(msg, BeginString) # <<"FIX", "T.1.1">> THEN <<"Fix44", "Fix44">>
  ELSE <<"Fixt11", CASE FirstText(msg, ApplVerID) = <<"6">> -> "Fix44"
                     [] FirstText(msg, ApplVerID) = <<"7">> -> "Fix50"
                     [] FirstText(msg, ApplVerID) = <<"8">> -> "Fix50Sp1"
                     [] OTHER -> "Fix50Sp2">>

Looked(msg, table, key) ==
  LET d == Dictionaries(msg)
  IN CASE key \in DOMAIN table[d[1]] -> table[d[1]][key]
       [] key \notin DOMAIN table[d[1]] /\ key \in DOMAIN table[d[2]] -> table[d[2]][key]
       [] OTHER -> None

Label(msg, f) ==
  IF f[1] = MsgType THEN Looked(msg, TypeLabel, f[2]) ELSE Looked(msg, EnumLabel, f)

InGroup(msg, i) ==
  \E c \in 1 .. i - 1 : \A k \in c + 1 .. i :
    msg[k][1] \in group_members(msg[c][1]) /\ group_members(msg[k][1]) = {}

(* The strings of a record of the JSON export, the keys among them.        *)
Known(key, label) == IF label = None THEN << >> ELSE key \o <<<<label>>>>

Record(msg) ==
  LET types == SelectSeq([i \in DOMAIN msg |-> IF msg[i][1] = MsgType THEN Label(msg, msg[i]) ELSE None],
                         LAMBDA label : label # None)
  IN <<<<"offset">>, <<"raw_len">>>>
       \o (IF types = << >> THEN << >> ELSE <<<<"msg_type_name">>, <<Head(types)>>>>)
       \o <<<<"tags">>>>
       \o FlattenSeq([i \in DOMAIN msg |->
            <<<<"tag">>, <<"name">>>> \o Known(<< >>, Looked(msg, FieldName, msg[i][1]))
              \o <<<<"value">>, CharsOf[msg[i][2]]>>
              \o Known(<<<<"value_label">>>>, Label(msg, msg[i]))])

(* export.rs, render/lib.rs: the file has each visible message once, in the *)
(* order of the list, whatever characters its values have: a reader of CSV  *)
(* finds the row, a reader of JSON the fields with the names and labels of  *)
(* its dictionaries, and of the log "the user can re-feed through the       *)
(* parser" the layout is found, and the messages are those of the log.      *)
ExportIsRead ==
  exported # NotExported =>
    LET file    == exported.file
        visible == exported.visible
        lines   == Pieces(file, {i \in DOMAIN file : file[i] = LF})
        rows    == Rows(file)
        msg(i)  == message(index, visible[i])
    IN CASE exported.fmt = "Csv" ->
              /\ Len(rows) = Len(visible) + 1
              /\ \A i \in DOMAIN visible : rows[i + 1] =
                   <<numeral[visible[i]], numeral[Offset(index, visible[i])]>>
                     \o [c \in DOMAIN Columns |-> FirstText(msg(i), Columns[c])]
         [] exported.fmt = "Json" ->
              /\ Len(lines) = Len(visible)
              /\ \A i \in DOMAIN visible :
                   /\ Strings(lines[i]) = Record(msg(i))
                   /\ \A f \in DOMAIN msg(i) :
                        resolve(msg(i)).fields[f].depth = IF InGroup(msg(i), f) THEN 1 ELSE 0
         [] exported.fmt = "Fix" ->
              LET begins == Occurrences(file, <<"8", "=", "FIX">>)
                  ends   == {b - 1 : b \in begins \ {1}} \cup {Len(file)}
              IN /\ sniff(file) = [separator |-> SOH, line_prefix |-> 0, line_ending |-> "Lf"]
                 /\ Pieces(file, ends) = [i \in DOMAIN visible |-> Bytes(msg(i))]
=============================================================================
