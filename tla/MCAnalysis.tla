----------------------------- MODULE MCAnalysis -----------------------------
(* Small instances of Analysis: logs of four messages in two directions of  *)
(* a session, with and without sequence numbers, for the gaps; logs of      *)
(* three messages over three ClOrdIDs, in circles too, for the timelines    *)
(* (1 and 2 are alike, so one is asked for); and one log for the filters,   *)
(* with a repeated tag, values that must be quoted and one that cannot be   *)
(* written.                                                                 *)
EXTENDS Analysis, TLC

(* 4, 6 and 8 need quotes, 5 is a control character.                       *)
Texts ==
  << <<"0">>, <<"A">>, <<"B">>, <<"AND">>, <<"A", " ", "\"">>, <<"ctl">>, <<"A", " ", "B">>,
     <<"D">>, <<"\\", ")">> >>
MCTextOf == [v \in 0 .. 8 |-> Texts[v + 1]]

MCRegex == (<<"A">> :> {1, 4, 6})

MCTagOf == [n \in {"35", "49", "56", "34", "55", "0", "9999999999"} |->
  CASE n = "35" -> 35 [] n = "49" -> 49 [] n = "56" -> 56 [] n = "34" -> 34 [] n = "55" -> 55
    [] n = "0" -> 0 [] n = "9999999999" -> None]

MCNumberOf == (35 :> "35") @@ (49 :> "49") @@ (56 :> "56") @@ (34 :> "34") @@ (55 :> "55")

MCBarewords == {"0", "A", "B", "AND", "D"}

Way(s, t) == <<<<SenderCompID, s>>, <<TargetCompID, t>>>>
SessionMessages ==
  {way \o number : way \in {Way(1, 2), Way(2, 1)},
                   number \in {<< >>} \cup {<<<<MsgSeqNum, n>>>> : n \in {1, 2, 4}}}
    \cup {<<<<SenderCompID, 1>>, <<MsgSeqNum, 3>>>>}
SessionLogs == [1 .. 4 -> SessionMessages]

OrderMessages ==
  {own \o orig \o order : own   \in {<< >>} \cup {<<<<ClOrdID, x>>>> : x \in {1, 2, 3}},
                          orig  \in {<< >>} \cup {<<<<OrigClOrdID, x>>>> : x \in {1, 2}},
                          order \in {<< >>, <<<<OrderID, 1>>>>}}
OrderLogs == [1 .. 3 -> OrderMessages]

FilterLog ==
  << <<<<MsgType, 7>>, <<SenderCompID, 1>>, <<TargetCompID, 2>>, <<55, 1>>, <<55, 4>>>>,
     <<<<MsgType, 0>>, <<SenderCompID, 2>>, <<TargetCompID, 1>>, <<55, 5>>>>,
     <<<<MsgType, 7>>, <<SenderCompID, 1>>, <<TargetCompID, 6>>, <<55, 8>>, <<55, 3>>>> >>

MCFilterLogs == {FilterLog}
(* Values from 10 on are times.  Those of 10 .. 14 are close to the epoch,   *)
(* 15 has no day of that name, and 16 is no time at all; the others are     *)
(* around the ends of February, of a year and of a century, and around a    *)
(* leap second.                                                            *)
Day(date, h, mi, s, f) ==
  [year |-> date[1], month |-> date[2], day |-> date[3], hour |-> h, minute |-> mi,
   second |-> s, frac |-> f]
Epoch == <<1970, 1, 1>>
EarlyTimes ==
  << Day(Epoch, 0, 0, 0, << >>), Day(Epoch, 0, 0, 0, <<5>>), Day(Epoch, 0, 0, 1, <<2, 5>>),
     Day(Epoch, 0, 0, 1, << >>), Day(Epoch, 0, 0, 2, <<0, 0, 1>>),
     Day(<<1970, 13, 1>>, 0, 0, 0, << >>), None >>
Dates ==
  << <<1969, 12, 31>>, Epoch, <<1972, 2, 29>>, <<1999, 12, 31>>, <<2000, 2, 29>>,
     <<2000, 3, 1>>, <<2026, 4, 17>>, <<2100, 2, 28>>, <<2100, 3, 1>> >>
TimesOn(date) ==
  << Day(date, 0, 0, 0, << >>), Day(date, 12, 34, 56, <<2, 5>>), Day(date, 12, 34, 56, <<3>>),
     Day(date, 23, 59, 60, <<9>>) >>
AllTimes == EarlyTimes \o FlattenSeq([d \in DOMAIN Dates |-> TimesOn(Dates[d])])
MCTimeOf == [v \in 10 .. 52 |-> AllTimes[v - 9]]

MCTimedLogs ==
  [1 .. 3 -> {<<<<MsgType, 7>>>>}
             \cup {<<<<MsgType, 7>>, <<ClOrdID, 1>>, <<SendingTime, v>>>> : v \in {10, 11, 14, 15, 16}}
             \cup {<<<<MsgType, 0>>, <<ClOrdID, 1>>, <<SendingTime, 13>>>>}]

DatedLogs == [1 .. 2 -> {<<<<SendingTime, v>>>> : v \in 17 .. 52}]

(* A hundred parts of a second stand for 10^9.                              *)
MCUnits == <<10, 5, 1, 100, 6000>>
MCDigits == (<<"5", "0">> :> 50) @@ (<<"2">> :> 2) @@ (<<"0">> :> 0)
MCBuckets == (<<"2", "s">> :> 200) @@ (<<"2", "m", "s">> :> 20) @@ (<<"5", "0", "u", "s">> :> 250)
  @@ (<<"2", "m">> :> 12000) @@ (<<"2", "h">> :> 100) @@ (<<"0", "n", "s">> :> 0)
MCWidths == {1, 2, 7, 20}

Predicates == {Pred(35, "=", <<"D">>), Pred(49, "=", <<"A">>),
               Pred(55, "!=", <<"A", " ", "\"">>), Pred(55, "~", <<"A">>)}
Simple  == Predicates \cup {Not(p) : p \in Predicates} \cup {Pred(55, "=", <<"\\", ")">>)}
Couples == {And(a, b) : a \in Simple, b \in Predicates} \cup {Or(a, b) : a \in Simple, b \in Predicates}
Third   == {Pred(35, "=", <<"D">>)}
MCExprs ==
  Simple \cup Couples \cup {Not(e) : e \in Couples}
    \cup {And(e, p) : e \in Couples, p \in Third} \cup {And(p, e) : e \in Couples, p \in Third}
    \cup {Or(e, p) : e \in Couples, p \in Third} \cup {Or(p, e) : e \in Couples, p \in Third}

MCBadTexts ==
  {<<"35", "=">>, <<"35", "=", "D", " ", "AND">>, <<"(", "35", "=", "D">>,
   <<"55", "=", "\"", "A">>, <<"9999999999", "=", "A">>, <<"55", "~", "(">>,
   <<"35", "=", "D", " ", "AND", "49", "=", "A">>, <<"35", "=", "D", ")">>}
Values == {<<<<"A">>, <<"5">>, <<"=">>>>, <<<<"A", "|", "5">>, <<";", "=">>, <<"^">>>>}
MCFiles ==
  [1 .. 2 -> {[prefix |-> prefix, values |-> values] :
                prefix \in {<< >>, <<"T">>, <<"5", ";">>}, values \in Values}]
MCWindows == {0, 10, 28, 100}
MCAsked == {1}

(* Values from 200 on are those of the exports.  The dictionaries of a      *)
(* session and of an application do not agree on tag 35 and 58, and no      *)
(* dictionary has 9999.                                                    *)
ExportTexts ==
  << <<"FIX", ".4.4">>, <<"FIX", "T.1.1">>, <<"6">>, <<"8">>, <<"a", ",", LF, "\\">>,
     <<"\\", "n", "\\", "\\">>, <<"\"">>, << >>, <<"|", "5", "=", CR, TAB, "\"", ",">>,
     <<"a", LF>>, <<",", "b">> >>
MCCharsOf ==
  [v \in (0 .. 8) \cup (200 .. 210) |-> IF v <= 8 THEN Texts[v + 1] ELSE ExportTexts[v - 199]]

MCFieldName ==
  [d \in FixVersion |->
     CASE d = "Fixt11" -> (35 :> "MsgType") @@ (8 :> "BeginString")
       [] d = "Fix44" -> (35 :> "Type44") @@ (58 :> "Text44")
       [] d = "Fix50Sp1" -> (58 :> "TextSp1") @@ (268 :> "NoMDEntries")
       [] OTHER -> (58 :> "Text")]
MCEnumLabel ==
  [d \in FixVersion |->
     IF d = "Fix44" THEN <<55, 1>> :> "First" @@ <<270, 206>> :> "Quote" ELSE <<55, 1>> :> "Other"]
MCTypeLabel ==
  [d \in FixVersion |-> IF d = "Fixt11" THEN 1 :> "Logon" ELSE 7 :> "NewOrderSingle" @@ 1 :> "Xml"]

(* Every text that an escape is about, in a value and in the columns of a   *)
(* row: each of the five has each of them, beside itself and beside others. *)
Specials == {5} \cup 204 .. 210
ColumnMessage(v, w) ==
  <<<<8, 200>>, <<35, v>>, <<49, w>>, <<56, v>>, <<34, w>>, <<52, v>>, <<49, 1>>>>
ColumnMessages == {ColumnMessage(v, w) : v, w \in Specials}
RowMessages    == {ColumnMessage(v, v) : v \in Specials}

VersionMessages(A) ==
  {<<<<8, b>>, <<1128, a>>, <<35, 1>>, <<58, v>>>> : b \in {200, 201}, a \in A, v \in Specials}
GroupMessages ==
  {<<<<8, 200>>, <<55, 1>>, <<268, 1>>, <<270, 206>>, <<55, 1>>>> \o rest :
     rest \in {<< >>, <<<<58, 1>>, <<270, 1>>>>, <<<<268, 1>>, <<35, 7>>>>}}
MCExportLogs ==
  [1 .. 2 -> VersionMessages({203}) \cup GroupMessages] \cup [1 .. 2 -> RowMessages]
     \cup [1 .. 1 -> VersionMessages({202, 203, 205}) \cup GroupMessages \cup ColumnMessages]

MCLogs == SessionLogs \cup OrderLogs \cup MCFilterLogs \cup MCTimedLogs \cup DatedLogs \cup MCExportLogs
=============================================================================
