------------------------------- MODULE Export -------------------------------
(***************************************************************************)
(* :export of the visible messages, and the writers of fixlog-render, with *)
(* what a reader of the formats makes of the file.  A character is itself;  *)
(* the texts that a writer is sure of are one.                             *)
(***************************************************************************)
EXTENDS Dictionary, LogFormat, TLC

TAB == "TAB"

(* A number in decimal.                                                    *)
numeral[n \in Nat] ==
  IF n < 10 THEN <<ToString(n)>> ELSE Append(numeral[n \div 10], ToString(n % 10))

-----------------------------------------------------------------------------
(* write_json_string; the mutant leaves the backslash as it is.             *)
json_escape(c) ==
  CASE c \in {"\"", "\\"} -> <<"\\", c>>
    [] c = LF -> <<"\\", "n">> [] c = CR -> <<"\\", "r">> [] c = TAB -> <<"\\", "t">>
    [] c = "ctl" -> <<"\\", "u0001">>
    [] OTHER -> <<c>>

json_string_quotes(text) ==
  FlattenSeq([i \in DOMAIN text |-> IF text[i] = "\\" THEN <<"\\">> ELSE json_escape(text[i])])

json_string(text) == FlattenSeq([i \in DOMAIN text |-> json_escape(text[i])])

Quoted(text) == <<"\"">> \o json_string(text) \o <<"\"">>

write_jsonl(msg, offset, raw_len) ==
  LET tags == [i \in DOMAIN msg.fields |->
        LET f == msg.fields[i] IN
          (IF i > 1 THEN <<",">> ELSE << >>)
            \o <<"{", "\"", "tag", "\"", ":">> \o numeral[f.tag]
            \o <<",", "\"", "name", "\"", ":">>
            \o (IF f.name = None THEN <<"null">> ELSE Quoted(<<f.name>>))
            \o <<",", "\"", "value", "\"", ":">> \o Quoted(CharsOf[f.value])
            \o (IF f.value_label = None THEN << >>
                ELSE <<",", "\"", "value_label", "\"", ":">> \o Quoted(<<f.value_label>>))
            \o <<"}">>]
  IN <<"{", "\"", "offset", "\"", ":">> \o numeral[offset]
       \o <<",", "\"", "raw_len", "\"", ":">> \o numeral[raw_len]
       \o (IF msg.msg_type_name = None THEN << >>
           ELSE <<",", "\"", "msg_type_name", "\"", ":">> \o Quoted(<<msg.msg_type_name>>))
       \o <<",", "\"", "tags", "\"", ":", "[">> \o FlattenSeq(tags) \o <<"]", "}", LF>>

(* write_csv_row: the first value of each of the tags.                     *)
Columns == <<MsgType, SenderCompID, TargetCompID, MsgSeqNum, 52>>

(* The mutant quotes a text with a comma or a quote, not one with a line    *)
(* feed.                                                                   *)
csv_escape_line(text) ==
  IF ToSet(text) \cap {",", "\""} = {} THEN text
  ELSE <<"\"">> \o FlattenSeq([i \in DOMAIN text |->
                     IF text[i] = "\"" THEN <<"\"", "\"">> ELSE <<text[i]>>]) \o <<"\"">>

csv_escape(text) ==
  IF ToSet(text) \cap {",", "\"", LF} = {} THEN text
  ELSE <<"\"">> \o FlattenSeq([i \in DOMAIN text |->
                     IF text[i] = "\"" THEN <<"\"", "\"">> ELSE <<text[i]>>]) \o <<"\"">>

write_csv_header == <<"ordinal", ",", "offset", ",", "msg_type", ",", "sender", ",",
                      "target", ",", "seq_num", ",", "sending_time", LF>>

write_csv_row(ordinal, offset, msg) ==
  numeral[ordinal] \o <<",">> \o numeral[offset]
    \o FlattenSeq([i \in DOMAIN Columns |-> <<",">> \o csv_escape(FirstText(msg, Columns[i]))])
    \o <<LF>>

write_fix(bytes) == Append(bytes, LF)

-----------------------------------------------------------------------------
(* message_bytes: a message as it is in the log, from its first field to    *)
(* its last separator, and where it begins.                                *)
Bytes(msg) ==
  FlattenSeq([i \in DOMAIN msg |->
    numeral[msg[i][1]] \o <<"=">> \o CharsOf[msg[i][2]] \o <<SOH>>])

Offset(index, ordinal) ==
  Len(FlattenSeq([i \in 1 .. ordinal |-> Append(Bytes(index[i]), LF)]))

(* export: none of the messages fails to parse.                            *)
export(index, visible, fmt) ==
  (IF fmt = "Csv" THEN write_csv_header ELSE << >>)
    \o FlattenSeq([i \in DOMAIN visible |->
         LET msg == message(index, visible[i])
             off == Offset(index, visible[i])
         IN CASE fmt = "Csv"  -> write_csv_row(visible[i], off, msg)
              [] fmt = "Fix"  -> write_fix(Bytes(msg))
              [] fmt = "Json" -> write_jsonl(resolve(msg), off, Len(Bytes(msg)))])

-----------------------------------------------------------------------------
(* What a reader sees.  The pieces of a text between the positions at.     *)
Pieces(text, at) ==
  LET ends == SetToSortSeq(at, <)
  IN [k \in DOMAIN ends |-> SubSeq(text, IF k = 1 THEN 1 ELSE ends[k - 1] + 1, ends[k] - 1)]

(* CSV, as of RFC 4180: in quotes, a quote ends the field unless there is   *)
(* another one behind it.  A CR alone ends no row, as csv_escape leaves it  *)
(* without quotes.                                                         *)
EndCell(r) == [r EXCEPT !.row = Append(@, r.cell), !.cell = << >>, !.mode = "plain"]

EndRow(r) == LET e == EndCell(r) IN [e EXCEPT !.rows = Append(@, e.row), !.row = << >>]

ReadCsv(r, c) ==
  CASE c = "\"" /\ r.mode = "quoted" -> [r EXCEPT !.mode = "closed"]
    [] c = "\"" /\ r.mode = "closed" -> [r EXCEPT !.mode = "quoted", !.cell = Append(@, c)]
    [] c = "\"" /\ r.mode = "plain" /\ r.cell = << >> -> [r EXCEPT !.mode = "quoted"]
    [] c = "," /\ r.mode # "quoted" -> EndCell(r)
    [] c = LF /\ r.mode # "quoted" -> EndRow(r)
    [] OTHER -> [r EXCEPT !.cell = Append(@, c)]

Rows(text) ==
  FoldLeft(ReadCsv, [rows |-> << >>, row |-> << >>, cell |-> << >>, mode |-> "plain"], text).rows

(* JSON: its strings, in which a control character is a fault.             *)
Unescape(c) ==
  CASE c = "n" -> LF [] c = "r" -> CR [] c = "t" -> TAB [] c = "u0001" -> "ctl"
    [] c \in {"\"", "\\"} -> c
    [] OTHER -> "fault"

Strings(text) ==
  LET end == Len(text) + 1
      string[i \in 1 .. end + 1] ==
        CASE i >= end \/ text[Min({i, end - 1})] \in {LF, CR, TAB, "ctl"} ->
               [text |-> <<"fault">>, next |-> end]
          [] i < end /\ text[i] = "\"" -> [text |-> << >>, next |-> i + 1]
          [] i < end - 1 /\ text[i] = "\\" ->
               [string[i + 2] EXCEPT !.text = <<Unescape(text[i + 1])>> \o @]
          [] OTHER -> [string[i + 1] EXCEPT !.text = <<text[i]>> \o @]
      from[i \in 1 .. end] ==
        IF i = end THEN << >>
        ELSE IF text[i] # "\"" THEN from[i + 1]
        ELSE <<string[i + 1].text>> \o from[string[i + 1].next]
  IN from[1]
=============================================================================
