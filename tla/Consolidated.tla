---------------------------- MODULE Consolidated ----------------------------
(***************************************************************************)
(* fixlog-analysis: ConsolidatedBuilder of orders_consolidated.rs.  The    *)
(* messages of any number of logs, one after the other, are summed up per  *)
(* order; an order is the family of ClOrdIDs that cancel and replace       *)
(* requests link through OrigClOrdID, kept in a union-find forest.         *)
(*                                                                         *)
(* A message is the record of the tags that handle_message reads, after    *)
(* the conversion of numbers; notional counts in integers.  Side is        *)
(* captured as symbol is, and the family is a set.                         *)
(***************************************************************************)
EXTENDS Integers, Sequences, SequencesExt, FiniteSetsExt

CONSTANTS
  Ids,        (* the values of ClOrdID (11) and OrigClOrdID (41), numbered *)
              (* in the order of their bytes                               *)
  OrderIds,   (* the values of OrderID (37)                                *)
  ExecIds,    (* the values of ExecID (17)                                 *)
  Values,     (* the values of Symbol (55) and OrdStatus (39)              *)
  None,       (* a tag that is absent, or not a number where one is due    *)
  Messages,   (* the messages of the logs                                  *)
  MaxMessages (* bound on the messages handled                             *)

Or(S) == S \cup {None}

(* kind: D, F and G are requests, 8 are reports; fill: ExecType (150) is F  *)
(* or 1; amount: LastQty * LastPx (32, 31).                                 *)
Message ==
  [kind : {"request", "report", "other"}, clordid : Or(Ids), orig : Or(Ids),
   order_id : Or(OrderIds), symbol : Or(Values), order_qty : Or(Nat),
   sending_time : Or(Nat), status : Or(Values), cum_qty : Or(Nat),
   fill : BOOLEAN, exec_id : Or(ExecIds), amount : Or(Nat)]

ASSUME ConstantsAssumption ==
  /\ Ids \subseteq Nat
  /\ None \notin Ids \cup OrderIds \cup ExecIds \cup Values \cup Nat
  /\ Messages \subseteq Message
  /\ MaxMessages \in Nat

VARIABLES
  accs,             (* the root ClOrdIDs and their OrderAcc                *)
  alias,            (* child ClOrdID -> parent ClOrdID                     *)
  order_id_to_root, (* OrderID -> root ClOrdID                             *)
  stats,            (* SourceStats, of all sources together                *)
  seen              (* history: the messages, the root each was attributed *)
                    (* to, and whether its fill was counted                *)

vars == <<accs, alias, order_id_to_root, stats, seen>>

Put(f, key, value) == [k \in DOMAIN f \cup {key} |-> IF k = key THEN value ELSE f[k]]

-----------------------------------------------------------------------------
(* resolve_root walks alias to its fixed point.  Path has the ids it meets: *)
(* the least set with cid that is closed under alias.                       *)
Closed(a, S) == \A c \in S \cap DOMAIN a : a[c] \in S

Path(a, cid) == {c \in Ids : \A S \in SUBSET Ids : cid \in S /\ Closed(a, S) => c \in S}

Root(a, cid) == CHOOSE r \in Path(a, cid) : r \notin DOMAIN a

(* ... and then points every id it has met at the root.                     *)
compress(a, cid) ==
  [c \in DOMAIN a |-> IF c \in Path(a, cid) THEN Root(a, cid) ELSE a[c]]

OrderAcc ==
  [family : SUBSET Ids, symbol : Or(Values), order_qty : Or(Nat), cum_qty : Nat,
   notional : Nat, fills : Nat, seen_execids : SUBSET ExecIds,
   final_ord_status : Or(Values), first_seen : Or(Nat), last_seen : Or(Nat)]

default ==
  [family |-> {}, symbol |-> None, order_qty |-> None, cum_qty |-> 0,
   notional |-> 0, fills |-> 0, seen_execids |-> {},
   final_ord_status |-> None, first_seen |-> None, last_seen |-> None]

(* Option::or, and the lesser and the greater of two values, if any.        *)
or(a, b) == IF a # None THEN a ELSE b
lesser(a, b) == IF a = None \/ (b # None /\ b < a) THEN b ELSE a
greater(a, b) == IF a = None \/ (b # None /\ b > a) THEN b ELSE a

(* merge_from, and mutants that lose the ExecIDs or the fills of the other. *)
merge_without_execids(acc, other) ==
  [acc EXCEPT !.family = @ \cup other.family,
     !.symbol = or(@, other.symbol), !.order_qty = or(@, other.order_qty),
     !.cum_qty = greater(@, other.cum_qty),
     !.notional = @ + other.notional, !.fills = @ + other.fills,
     !.final_ord_status = or(other.final_ord_status, @),
     !.first_seen = lesser(@, other.first_seen),
     !.last_seen = greater(@, other.last_seen)]

merge_max_fills(acc, other) ==
  [acc EXCEPT !.family = @ \cup other.family,
     !.symbol = or(@, other.symbol), !.order_qty = or(@, other.order_qty),
     !.cum_qty = greater(@, other.cum_qty),
     !.notional = greater(@, other.notional), !.fills = greater(@, other.fills),
     !.seen_execids = @ \cup other.seen_execids,
     !.final_ord_status = or(other.final_ord_status, @),
     !.first_seen = lesser(@, other.first_seen),
     !.last_seen = greater(@, other.last_seen)]

(* A third one takes the status of the other family, or of none.           *)
merge_status(acc, other) ==
  [acc EXCEPT !.family = @ \cup other.family,
     !.symbol = or(@, other.symbol), !.order_qty = or(@, other.order_qty),
     !.cum_qty = greater(@, other.cum_qty),
     !.notional = @ + other.notional, !.fills = @ + other.fills,
     !.seen_execids = @ \cup other.seen_execids,
     !.final_ord_status = other.final_ord_status,
     !.first_seen = lesser(@, other.first_seen),
     !.last_seen = greater(@, other.last_seen)]

merge_from(acc, other) ==
  [acc EXCEPT !.family = @ \cup other.family,
     !.symbol = or(@, other.symbol), !.order_qty = or(@, other.order_qty),
     !.cum_qty = greater(@, other.cum_qty),
     !.notional = @ + other.notional, !.fills = @ + other.fills,
     !.seen_execids = @ \cup other.seen_execids,
     !.final_ord_status = or(other.final_ord_status, @),
     !.first_seen = lesser(@, other.first_seen),
     !.last_seen = greater(@, other.last_seen)]

-----------------------------------------------------------------------------
Report(m) == m.kind = "report"
Fill(m) == Report(m) /\ m.fill

Duplicate(acc, m) == Fill(m) /\ m.exec_id # None /\ m.exec_id \in acc.seen_execids

Counts(acc, m) == Fill(m) /\ ~ Duplicate(acc, m) /\ m.amount # None

(* handle_message from its step 3 on: what message m does to the OrderAcc   *)
(* of its root.                                                             *)
updated(acc, root, m) ==
  [acc EXCEPT
     !.family = @ \cup {root} \cup ({m.clordid} \ {None}),
     !.symbol = or(@, m.symbol),
     !.order_qty = IF m.kind = "request" THEN or(m.order_qty, @) ELSE @,
     !.first_seen = lesser(@, m.sending_time),
     !.last_seen = greater(@, m.sending_time),
     !.final_ord_status = IF Report(m) THEN or(m.status, @) ELSE @,
     !.cum_qty = IF Report(m) THEN greater(@, m.cum_qty) ELSE @,
     !.seen_execids = IF Fill(m) THEN @ \cup ({m.exec_id} \ {None}) ELSE @,
     !.notional = IF Counts(acc, m) THEN @ + m.amount ELSE @,
     !.fills = IF Counts(acc, m) THEN @ + 1 ELSE @]

(* The OrderAcc of a root, made on demand.                                  *)
entry(a, root) == IF root \in DOMAIN a THEN a[root] ELSE default

(* Message m goes to the OrderAcc of root, in the table a.                  *)
Attribute(m, root, a) ==
  LET acc == entry(a, root)
  IN /\ accs' = Put(a, root, updated(acc, root, m))
     /\ stats' = [messages |-> stats.messages + 1,
                  fills_seen |-> stats.fills_seen + IF Fill(m) THEN 1 ELSE 0,
                  fills_deduped |-> stats.fills_deduped + IF Duplicate(acc, m) THEN 1 ELSE 0]
     /\ seen' = Append(seen, [msg |-> m, root |-> root, counted |-> Counts(acc, m)])

(* An OrderID is bound to the root of the first message that has both.      *)
BindOrderId(m, root, bindings) ==
  order_id_to_root' =
    IF m.order_id = None \/ m.order_id \in DOMAIN bindings THEN bindings
    ELSE Put(bindings, m.order_id, root)

-----------------------------------------------------------------------------
Init ==
  /\ accs = << >> /\ alias = << >> /\ order_id_to_root = << >>
  /\ stats = [messages |-> 0, fills_seen |-> 0, fills_deduped |-> 0]
  /\ seen = << >>

(* The walks from OrigClOrdID and from ClOrdID.                             *)
Walked(m) ==
  IF m.orig = None THEN compress(alias, m.clordid)
  ELSE compress(compress(alias, m.orig), m.clordid)

(* parent_known.  The mutant takes every OrigClOrdID for a known one.       *)
AnyParent(m) == m.orig # None

ParentKnown(m) == m.orig # None /\ Root(alias, m.orig) \in DOMAIN accs

Child(m) == Root(alias, m.clordid)
Parent(m) == Root(alias, m.orig)

(* The ClOrdID is linked to another family than its own.                    *)
Links(m) == ParentKnown(m) /\ Child(m) # Parent(m)

(* A message with a ClOrdID that stays where it is, or opens a family.  (In *)
(* union, the walk has already pointed the child at the common root.)       *)
HandleBound(m) ==
  /\ m.clordid # None /\ ~ Links(m)
  /\ alias' = Walked(m)
  /\ BindOrderId(m, Child(m), order_id_to_root)
  /\ Attribute(m, Child(m), accs)

(* union: the family of the ClOrdID goes over to that of the OrigClOrdID.   *)
Merged(child, parent) ==
  [r \in DOMAIN accs \ {child} |->
     IF r = parent THEN merge_from(accs[parent], entry(accs, child)) ELSE accs[r]]

Rewired(child, parent) ==
  [o \in DOMAIN order_id_to_root |->
     IF order_id_to_root[o] = child THEN parent ELSE order_id_to_root[o]]

HandleUnion(m) ==
  /\ m.clordid # None /\ Links(m)
  /\ alias' =
       LET a == Put(Walked(m), Child(m), Parent(m))
       IN IF m.clordid = Parent(m) THEN a ELSE Put(a, m.clordid, Parent(m))
  /\ BindOrderId(m, Parent(m), Rewired(Child(m), Parent(m)))
  /\ Attribute(m, Parent(m), Merged(Child(m), Parent(m)))

(* A message with an OrderID only, known or not; without either, a message  *)
(* is not of an order.                                                      *)
HandleByOrderId(m) ==
  /\ m.clordid = None /\ m.order_id \in DOMAIN order_id_to_root
  /\ Attribute(m, order_id_to_root[m.order_id], accs)
  /\ UNCHANGED <<alias, order_id_to_root>>

HandleNoOrder(m) ==
  /\ m.clordid = None /\ m.order_id \notin DOMAIN order_id_to_root
  /\ stats' = [stats EXCEPT !.messages = @ + 1]
  /\ seen' = Append(seen, [msg |-> m, root |-> None, counted |-> FALSE])
  /\ UNCHANGED <<accs, alias, order_id_to_root>>

handle_message(m) ==
  /\ Len(seen) < MaxMessages
  /\ HandleBound(m) \/ HandleUnion(m) \/ HandleByOrderId(m) \/ HandleNoOrder(m)

Next == \E m \in Messages : handle_message(m)

Spec == Init /\ [][Next]_vars

-----------------------------------------------------------------------------
(* The table.  The rows come out of a hash map in any order, and both sorts *)
(* are stable: the k-th row is the one that k - 1 rows come before.        *)
Stable(rows, less) ==
  LET before(i, j) ==
        \/ <<rows[i], rows[j]>> \in less
        \/ <<rows[j], rows[i]>> \notin less /\ i < j
      earlier(i) == {j \in DOMAIN rows : before(j, i)}
  IN [k \in DOMAIN rows |->
        rows[CHOOSE i \in DOMAIN rows : Cardinality(earlier(i)) = k - 1]]

(* finish: the greatest notional first.  The mutant has no tie-break.      *)
finish_by_notional(rows) ==
  Stable(rows, {p \in ToSet(rows) \X ToSet(rows) : accs[p[1]].notional > accs[p[2]].notional})

finish(rows) ==
  Stable(rows, {p \in ToSet(rows) \X ToSet(rows) :
    \/ accs[p[1]].notional > accs[p[2]].notional
    \/ accs[p[1]].notional = accs[p[2]].notional /\ p[1] < p[2]})

(* sort_rows, of the command line: a row without a time is not recent.     *)
SortValue(root, by) ==
  CASE by = "notional" -> accs[root].notional
    [] by = "cum_qty"  -> accs[root].cum_qty
    [] by = "fills"    -> accs[root].fills
    [] by = "recent"   -> or(accs[root].last_seen, -1)

sort_rows(rows, by) ==
  Stable(rows, {p \in ToSet(rows) \X ToSet(rows) :
    \/ SortValue(p[1], by) > SortValue(p[2], by)
    \/ SortValue(p[1], by) = SortValue(p[2], by) /\ p[1] < p[2]})

-----------------------------------------------------------------------------
(* Properties.                                                              *)

SeenIds == {seen[i].msg.clordid : i \in DOMAIN seen} \ {None}

(* The tables have their types, and the counters of SourceStats are nested: *)
(* a fill that was dropped as a resend is a fill, a fill is a message       *)
(* (handle_message, push_source).                                           *)
TypeOK ==
  /\ DOMAIN accs \subseteq Ids /\ \A r \in DOMAIN accs : accs[r] \in OrderAcc
  /\ DOMAIN alias \subseteq Ids /\ \A c \in DOMAIN alias : alias[c] \in Ids
  /\ DOMAIN order_id_to_root \subseteq OrderIds
  /\ \A o \in DOMAIN order_id_to_root : order_id_to_root[o] \in Ids
  /\ stats \in [messages : Nat, fills_seen : Nat, fills_deduped : Nat]
  /\ stats.fills_deduped <= stats.fills_seen /\ stats.fills_seen <= stats.messages

(* The rows that finish writes are the families: two ClOrdIDs are in one    *)
(* row, and in one only, exactly when they are connected by messages that   *)
(* link a ClOrdID to one seen before, however often their families were     *)
(* absorbed.  A placeholder in OrigClOrdID that several orders share does   *)
(* not connect them, and a report found by its OrderID opens no row.        *)
LinkedBy(i) ==
  /\ seen[i].msg.clordid # None
  /\ \E j \in 1 .. i - 1 : seen[j].msg.clordid = seen[i].msg.orig

Connected(c, d) ==
  \A S \in SUBSET Ids :
    /\ c \in S
    /\ \A i \in {j \in DOMAIN seen : seen[j].msg.orig # None /\ LinkedBy(j)} :
         seen[i].msg.clordid \in S <=> seen[i].msg.orig \in S
    => d \in S

FamiliesAreLinked ==
  /\ \A c, d \in SeenIds :
       Cardinality({r \in DOMAIN accs : {c, d} \subseteq accs[r].family}) = IF Connected(c, d) THEN 1 ELSE 0
  /\ \A r \in DOMAIN accs : accs[r].family \cap SeenIds # {}

(* A row is the total of the messages of its family, whatever merges it has *)
(* gone through: its fills and notional, its greatest CumQty, and its first *)
(* and last time.                                                           *)
Of(r) == {i \in DOMAIN seen : seen[i].root # None /\ Root(alias, seen[i].root) = r}

RowIsTotal(r) ==
  LET counted == {i \in Of(r) : seen[i].counted}
      cums == {seen[i].msg.cum_qty : i \in {j \in Of(r) : Report(seen[j].msg)}} \ {None}
      times == {seen[i].msg.sending_time : i \in Of(r)} \ {None}
  IN /\ accs[r].fills = Cardinality(counted)
     /\ accs[r].notional = MapThenSumSet(LAMBDA i : seen[i].msg.amount, counted)
     /\ accs[r].cum_qty = Max(cums \cup {0})
     /\ accs[r].first_seen = IF times = {} THEN None ELSE Min(times)
     /\ accs[r].last_seen = IF times = {} THEN None ELSE Max(times)

RowsAreTotals == \A r \in DOMAIN accs : RowIsTotal(r)

(* A resend of a fill with an ExecID is counted once, also when the family  *)
(* it was first counted in has been absorbed in between, and when it is     *)
(* found by its OrderID (orders_consolidated.rs:9-12).                      *)
ResendCountedOnce ==
  \A i, j \in DOMAIN seen :
    /\ seen[i].counted /\ seen[j].counted
    /\ seen[i].msg = seen[j].msg /\ seen[i].msg.exec_id # None
    => i = j

(* What a merge chooses (orders_consolidated.rs:423): the OrdStatus and the *)
(* OrderQty of a row are the last ones, its Symbol the first one, of one of *)
(* the families that it was made of - so of a family that never merged the  *)
(* last and the first - and a row lacks one only if all of them do.         *)
Latest(at) == {i \in at : \A j \in at : seen[j].root = seen[i].root => j <= i}
Earliest(at) == {i \in at : \A j \in at : seen[j].root = seen[i].root => i <= j}

Chosen(value, at, tag) ==
  IF at = {} THEN value = None ELSE \E i \in at : value = seen[i].msg[tag]

RowsChooseWithin ==
  \A r \in DOMAIN accs :
    LET having(tag) == {i \in Of(r) : seen[i].msg[tag] # None}
        reports  == {i \in having("status") : Report(seen[i].msg)}
        requests == {i \in having("order_qty") : seen[i].msg.kind = "request"}
    IN /\ Chosen(accs[r].final_ord_status, Latest(reports), "status")
       /\ Chosen(accs[r].order_qty, Latest(requests), "order_qty")
       /\ Chosen(accs[r].symbol, Earliest(having("symbol")), "symbol")

(* orders_consolidated.rs:172: the output is sorted "by descending notional *)
(* then by root_clordid for tie-break determinism", whatever order the hash *)
(* map has; and so is what the command line makes of it.                    *)
TableIsDeterministic ==
  LET any == SetToSeq(DOMAIN accs)
  IN \A x \in SetToSeqs(DOMAIN accs) :
       /\ finish(x) = finish(any)
       /\ \A by \in {"notional", "cum_qty", "fills", "recent"} :
            sort_rows(finish(x), by) = sort_rows(any, by)

-----------------------------------------------------------------------------
(* What the documentation says, and the code does not do.                   *)

(* orders_consolidated.rs:6: a row has the full family after cancel and     *)
(* replace chains, tags 11 linked through 41.                               *)
FullFamily ==
  \A i \in DOMAIN seen :
    seen[i].msg.clordid # None /\ seen[i].msg.orig \in SeenIds
    => Root(alias, seen[i].msg.clordid) = Root(alias, seen[i].msg.orig)

(* orders_consolidated.rs:14: the OrdStatus is the one last seen.           *)
LastStatusWins ==
  \A r \in DOMAIN accs :
    LET reports == {i \in Of(r) : Report(seen[i].msg) /\ seen[i].msg.status # None}
    IN reports # {} => accs[r].final_ord_status = seen[Max(reports)].msg.status

(* orders_consolidated.rs:312: the OrderQty is the one seen last on a       *)
(* request.                                                                 *)
OrderQtyIsLatest ==
  \A r \in DOMAIN accs :
    LET requests == {i \in Of(r) : seen[i].msg.kind = "request" /\ seen[i].msg.order_qty # None}
    IN requests # {} => accs[r].order_qty = seen[Max(requests)].msg.order_qty
=============================================================================
