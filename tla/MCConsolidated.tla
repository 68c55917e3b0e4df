--------------------------- MODULE MCConsolidated ---------------------------
(***************************************************************************)
(* Three ClOrdIDs in a replace chain that the log may give in any order,   *)
(* with the links of a request and of a report that link them the other    *)
(* way round, one OrderID, and fills that are found by ClOrdID, by OrderID *)
(* only, and without an ExecID; the placeholder p is no message's ClOrdID.  *)
(***************************************************************************)
EXTENDS Consolidated

CONSTANTS o1, e1, e2, v1, v2, none

c1 == 1
c2 == 2
c3 == 3
p == 4

MCIds == {c1, c2, c3, p}
MCOrderIds == {o1}
MCExecIds == {e1, e2}
MCValues == {v1, v2}

Blank ==
  [kind |-> "other", clordid |-> none, orig |-> none, order_id |-> none,
   symbol |-> none, order_qty |-> none, sending_time |-> none, status |-> none,
   cum_qty |-> none, fill |-> FALSE, exec_id |-> none, amount |-> none]

Request(cid, orig, qty, time) ==
  [Blank EXCEPT !.kind = "request", !.clordid = cid, !.orig = orig,
                !.symbol = v1, !.order_qty = qty, !.sending_time = time]

FillOf(cid, order_id, exec_id, cum, status, time) ==
  [Blank EXCEPT !.kind = "report", !.clordid = cid, !.order_id = order_id,
                !.fill = TRUE, !.exec_id = exec_id, !.amount = cum,
                !.cum_qty = cum, !.status = status, !.sending_time = time]

MCMessages ==
  { Request(c1, none, 5, 1),
    Request(c2, c1, 7, 2),
    Request(c3, c2, none, 3),
    FillOf(c1, none, e1, 2, v1, 2),
    FillOf(c2, o1, e1, 3, v1, 4),
    FillOf(none, o1, e2, 4, v2, 5),
    [FillOf(c3, none, none, 1, v2, none) EXCEPT !.orig = p],
    [FillOf(c2, none, e2, 1, v2, 3) EXCEPT !.orig = p, !.amount = none],
    [Blank EXCEPT !.kind = "report", !.clordid = c1, !.orig = c3, !.order_id = o1,
                  !.status = v1, !.exec_id = e2] }
=============================================================================
