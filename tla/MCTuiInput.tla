----------------------------- MODULE MCTuiInput -----------------------------
(* A small instance of TuiInput: two orders, one of them with a ClOrdID     *)
(* that is not UTF-8, and a heartbeat, in both directions of a session and  *)
(* in another one, whose CompIDs cannot stand in a filter.                  *)
EXTENDS TuiInput

CONSTANTS a, b

Message(clordid, sender, target) ==
  [clordid |-> clordid, sender |-> sender, target |-> target]

MCLog == <<Message(a, 1, 2), Message(b, 1, 3), Message(None, 2, 1)>>
MCMeaning == ("p" :> {1, 2})
MCWords == ("f" :> "Filter") @@ ("marks" :> "Marks") @@ ("sessions" :> "Sessions")
  @@ ("orders" :> "Orders") @@ ("consolidated" :> "Consolidated") @@ ("diff" :> "Diff")
  @@ ("q" :> "Quit")
MCLines ==
  {<<"f", " ", "p", "AND">>, <<"f", "oo">>, <<"orders", " ", a>>, <<"diff", " ", "clear">>,
   <<"consolidated">>, <<"sessions">>, <<"marks">>, <<"q">>}
MCDigits == {0}
MCNotUtf8 == {b}
MCUnquoted == {<<1, 3>>}
=============================================================================
