--------------------------- MODULE OrderTimeline ----------------------------
(***************************************************************************)
(* fixlog-analysis, orders.rs: OrderTimeline::build, from a ClOrdID along   *)
(* the OrigClOrdIDs that replace it to a fixed point, then once over the    *)
(* OrderIDs seen.  An event is the ordinal of its message; the bar above    *)
(* the events shows when each of them was.                                  *)
(***************************************************************************)
EXTENDS Calendar

NoTimeline == [pc |-> "none"]

(* The lists of work: ClOrdIDs seen and to be looked at, the last first.   *)
started(id) ==
  [pc |-> "expand", clordid |-> id, ordinals |-> {}, seen |-> {}, pending |-> <<id>>,
   order_ids |-> {}, events |-> << >>]

(* The ClOrdIDs, not yet seen, of the messages that replace or cancel one.  *)
Successors(index, referers, seen) ==
  LET new(o) == find_tag(message(index, o), ClOrdID)
      at     == Ascending({o \in referers : new(o) \notin seen \cup {None}})
  IN [k \in DOMAIN at |-> new(at[k])]

(* Mutants of expanded: the replacements are not followed; what was seen    *)
(* stays in the list.                                                      *)
expanded_once(t, index) ==
  LET cid == Last(t.pending)
  IN [t EXCEPT !.seen = @ \cup {cid}, !.pending = Front(@),
               !.ordinals = @ \cup lookup(index, ClOrdID, cid)
                              \cup lookup(index, OrigClOrdID, cid)]

expanded_peek(t, index) ==
  LET cid      == Last(t.pending)
      referers == lookup(index, OrigClOrdID, cid)
      seen     == t.seen \cup {cid}
  IN IF cid \in t.seen THEN t
     ELSE [t EXCEPT !.seen = seen,
                    !.ordinals = @ \cup lookup(index, ClOrdID, cid) \cup referers,
                    !.pending = Front(@) \o Successors(index, referers, seen)]

expanded(t, index) ==
  LET cid      == Last(t.pending)
      referers == lookup(index, OrigClOrdID, cid)
      seen     == t.seen \cup {cid}
  IN IF cid \in t.seen THEN [t EXCEPT !.pending = Front(@)]
     ELSE [t EXCEPT !.seen = seen,
                    !.ordinals = @ \cup lookup(index, ClOrdID, cid) \cup referers,
                    !.pending = Front(@) \o Successors(index, referers, seen)]

OrderIdsOf(index, ordinals) ==
  {find_tag(message(index, o), OrderID) : o \in ordinals} \ {None}

(* Nothing found, or the OrderIDs of what was found and all that mentions  *)
(* them; the events in file order.                                         *)
finished(t, index) ==
  LET ids == OrderIdsOf(index, t.ordinals)
      all == t.ordinals \cup UNION {lookup(index, OrderID, x) : x \in ids}
  IN IF t.ordinals = {} THEN [t EXCEPT !.pc = "not_found"]
     ELSE [t EXCEPT !.pc = "found", !.order_ids = ids, !.ordinals = all,
                    !.events = Ascending(all)]

-----------------------------------------------------------------------------
instant(index, o) == system_time_to_nanos(sending_time(message(index, o)))

Timed(index, events) ==
  Chosen(events, {i \in DOMAIN events : sending_time(message(index, events[i])) # None})

(* The column, from 0, of an event in a bar from the first time to the      *)
(* last one; a clock that ran backwards makes it a bar of one nanosecond.   *)
column(index, timed, width, o) ==
  LET first  == instant(index, Head(timed))
      last   == instant(index, Last(timed))
      total  == IF last > first THEN last - first ELSE 1
      offset == Max({instant(index, o) - first, 0})
  IN Min({(offset * (width - 1)) \div total, width - 1})

(* Mutant of winner: the first event keeps its column.                      *)
winner_first(events) == Head(events)

winner(events) == Last(events)

gantt_width(asked) == Max({10, Min({asked, 500})})

(* The message type stands for its letter, None for a dot.                  *)
render_gantt(index, events, asked) ==
  LET width == gantt_width(asked)
      timed == Timed(index, events)
      letter(here) == IF here = << >> THEN None ELSE find_tag(message(index, winner(here)), MsgType)
  IN IF timed = << >> \/ instant(index, Head(timed)) = instant(index, Last(timed))
     THEN [c \in 0 .. width - 1 |-> letter(IF c = 0 THEN events ELSE << >>)]
     ELSE [c \in 0 .. width - 1 |->
             letter(Chosen(timed, {i \in DOMAIN timed : column(index, timed, width, timed[i]) = c}))]

-----------------------------------------------------------------------------
(* What a timeline is: the ClOrdIDs that replace the one asked for, however *)
(* many times over, the messages that mention one of them, and those that   *)
(* share an OrderID with one of these.                                      *)
Closed(index, ids) ==
  \A o \in OrdinalsOf(index) :
    (\E x \in ids : Mentions(message(index, o), OrigClOrdID, x)) =>
      find_tag(message(index, o), ClOrdID) \in ids \cup {None}

Family(index, id) ==
  LET named == {find_tag(message(index, o), ClOrdID) : o \in OrdinalsOf(index)} \ {None}
  IN UNION {ids \in {{id} \cup x : x \in SUBSET named} :
              /\ Closed(index, ids)
              /\ \A less \in {{id} \cup x : x \in SUBSET named} :
                   Closed(index, less) => ids \subseteq less}

Reported(index, id) ==
  LET direct == {o \in OrdinalsOf(index) : \E x \in Family(index, id) :
                   \/ Mentions(message(index, o), ClOrdID, x)
                   \/ Mentions(message(index, o), OrigClOrdID, x)}
  IN direct \cup {o \in OrdinalsOf(index) : \E x \in OrderIdsOf(index, direct) :
                    Mentions(message(index, o), OrderID, x)}
=============================================================================
