------------------------- MODULE ConsolidatedProofs -------------------------
(***************************************************************************)
(* The table of consolidated orders is right for any messages and any      *)
(* number of them: the union-find forest of alias holds the linked         *)
(* families, each OrderAcc is of one family, a resent fill is counted      *)
(* once, a row is the total of the messages of its family and chooses      *)
(* among them, and the rows come out in one order.                         *)
(***************************************************************************)
EXTENDS Consolidated, FiniteSetTheorems, TLAPS

-----------------------------------------------------------------------------
(* The forest.                                                             *)

(* rho maps every id to the root of its tree in a.                         *)
IsForest(a, rho) ==
  /\ DOMAIN a \subseteq Ids /\ \A c \in DOMAIN a : a[c] \in Ids
  /\ \A c \in Ids : rho[c] \in Ids \ DOMAIN a
  /\ \A c \in DOMAIN a : rho[a[c]] = rho[c]
  /\ \A c \in Ids \ DOMAIN a : rho[c] = c
  /\ \A c \in Ids : \A S \in SUBSET Ids : c \in S /\ Closed(a, S) => rho[c] \in S

Roots(a) == [c \in Ids |-> Root(a, c)]

(* The walk of resolve_root stays in the tree, and ends at its root.       *)
LEMMA RootIs ==
  ASSUME NEW a, NEW rho, IsForest(a, rho), NEW cid \in Ids
  PROVE  /\ Root(a, cid) = rho[cid]
         /\ Path(a, cid) \subseteq {c \in Ids : rho[c] = rho[cid]}
<1> DEFINE Tree == {c \in Ids : rho[c] = rho[cid]}
<1>1. Tree \in SUBSET Ids /\ cid \in Tree /\ Closed(a, Tree)
  BY DEF IsForest, Closed
<1>2. Path(a, cid) \subseteq Tree
  <2> HIDE DEF Tree
  <2> QED  BY <1>1 DEF Path
<1>3. rho[cid] \in Path(a, cid) /\ rho[cid] \notin DOMAIN a
  BY DEF IsForest, Path
<1>4. ASSUME NEW r \in Path(a, cid), r \notin DOMAIN a PROVE r = rho[cid]
  <2>1. r \in Ids /\ rho[r] = rho[cid]
    BY <1>2
  <2> QED  BY <1>4, <2>1 DEF IsForest
<1>5. Root(a, cid) = rho[cid]
  BY <1>3, <1>4 DEF Root
<1> QED  BY <1>2, <1>5

LEMMA RootsAre ==
  ASSUME NEW a, NEW rho \in [Ids -> Ids], IsForest(a, rho)
  PROVE  Roots(a) = rho
BY RootIs DEF Roots

(* To point ids of a tree at its root changes no root: the walk's path     *)
(* compression, and the shortcut of union.                                 *)
LEMMA Shortcut ==
  ASSUME NEW a, NEW rho, IsForest(a, rho), NEW r \in Ids, rho[r] = r,
         NEW P, P \subseteq {c \in Ids : rho[c] = r}
  PROVE  IsForest([c \in DOMAIN a |-> IF c \in P THEN r ELSE a[c]], rho)
<1> DEFINE b == [c \in DOMAIN a |-> IF c \in P THEN r ELSE a[c]]
<1>1. DOMAIN b = DOMAIN a /\ \A c \in DOMAIN a : b[c] = IF c \in P THEN r ELSE a[c]
  OBVIOUS
<1> HIDE DEF b
<1>2. ASSUME NEW c \in Ids, NEW S \in SUBSET Ids, c \in S, Closed(b, S)
      PROVE  rho[c] \in S
  <2>1. CASE S \cap P \cap DOMAIN a = {}
    <3>1. Closed(a, S)
      BY <1>1, <1>2, <2>1 DEF Closed
    <3> QED  BY <1>2, <3>1 DEF IsForest
  <2>2. CASE S \cap P \cap DOMAIN a # {}
    <3>1. r \in S
      BY <1>1, <1>2, <2>2 DEF Closed
    <3> DEFINE T == S \cup {d \in Ids : rho[d] = r}
    <3>2. Closed(a, T)
      BY <1>1, <1>2 DEF Closed, IsForest
    <3>3. T \in SUBSET Ids /\ c \in T
      BY <1>2
    <3>4. rho[c] \in T
      <4> HIDE DEF T
      <4> QED  BY <3>2, <3>3 DEF IsForest
    <3>5. rho[rho[c]] = rho[c]
      BY DEF IsForest
    <3> QED  BY <3>1, <3>4, <3>5
  <2> QED  BY <2>1, <2>2
<1>3. \A c \in DOMAIN b : b[c] \in Ids /\ rho[b[c]] = rho[c]
  BY <1>1 DEF IsForest
<1>4. IsForest(b, rho)
  BY <1>1, <1>2, <1>3 DEF IsForest
<1> QED  BY <1>4 DEF b

LEMMA CompressKeeps ==
  ASSUME NEW a, NEW rho, IsForest(a, rho), NEW cid \in Ids
  PROVE  IsForest(compress(a, cid), rho)
<1>1. /\ Root(a, cid) = rho[cid] /\ Path(a, cid) \subseteq {c \in Ids : rho[c] = rho[cid]}
      /\ rho[cid] \in Ids /\ rho[rho[cid]] = rho[cid]
  BY RootIs DEF IsForest
<1>2. IsForest([c \in DOMAIN a |-> IF c \in Path(a, cid) THEN rho[cid] ELSE a[c]], rho)
  BY <1>1, Shortcut
<1> QED  BY <1>1, <1>2 DEF compress

(* The roots after the tree of child has been hung below parent.           *)
Hung(rho, child, parent) == [c \in Ids |-> IF rho[c] = child THEN parent ELSE rho[c]]

LEMMA HangsBelow ==
  ASSUME NEW a, NEW rho, IsForest(a, rho), NEW child \in Ids, NEW parent \in Ids,
         rho[child] = child, rho[parent] = parent, child # parent
  PROVE  IsForest(Put(a, child, parent), Hung(rho, child, parent))
<1> DEFINE b == Put(a, child, parent)
           sigma == Hung(rho, child, parent)
<1>1. child \notin DOMAIN a /\ parent \notin DOMAIN a
  BY DEF IsForest
<1>2. /\ DOMAIN b = DOMAIN a \cup {child} /\ b[child] = parent
      /\ \A c \in DOMAIN a : b[c] = a[c]
  BY <1>1 DEF Put
<1>3. \A c \in Ids : sigma[c] = IF rho[c] = child THEN parent ELSE rho[c]
  BY DEF Hung
<1> HIDE DEF b, sigma
<1>4. ASSUME NEW c \in Ids, NEW S \in SUBSET Ids, c \in S, Closed(b, S)
      PROVE  sigma[c] \in S
  <2>1. Closed(a, S)
    BY <1>2, <1>4 DEF Closed
  <2>2. rho[c] \in S
    BY <1>4, <2>1 DEF IsForest
  <2>3. child \in S => parent \in S
    BY <1>2, <1>4 DEF Closed
  <2> QED  BY <1>3, <2>2, <2>3
<1>5. \A c \in DOMAIN b : b[c] \in Ids /\ c \in Ids /\ sigma[b[c]] = sigma[c]
  BY <1>2, <1>3 DEF IsForest
<1>6. \A c \in Ids : sigma[c] \in Ids \ DOMAIN b /\ (c \notin DOMAIN b => sigma[c] = c)
  BY <1>1, <1>2, <1>3 DEF IsForest
<1>7. IsForest(b, sigma)
  BY <1>4, <1>5, <1>6 DEF IsForest
<1> QED  BY <1>7 DEF b, sigma
-----------------------------------------------------------------------------
(* Types of the tables, and the forest as an invariant.                    *)

LEMMA NoneIsNoValue ==
  None \notin Nat /\ None \notin Ids /\ None \notin OrderIds /\ None \notin ExecIds
BY ConstantsAssumption

LEMMA ChoiceTypes ==
  /\ \A T : \A a, b \in Or(T) : or(a, b) \in Or(T)
  /\ \A a, b \in Or(Nat) : lesser(a, b) \in Or(Nat) /\ greater(a, b) \in Or(Nat)
  /\ \A a \in Nat, b \in Or(Nat) : greater(a, b) \in Nat
BY NoneIsNoValue DEF or, lesser, greater, Or

LEMMA MessageFields ==
  ASSUME NEW m \in Message
  PROVE  /\ m.clordid \in Or(Ids) /\ m.orig \in Or(Ids) /\ m.order_id \in Or(OrderIds)
         /\ m.symbol \in Or(Values) /\ m.order_qty \in Or(Nat) /\ m.sending_time \in Or(Nat)
         /\ m.status \in Or(Values) /\ m.cum_qty \in Or(Nat) /\ m.fill \in BOOLEAN
         /\ m.exec_id \in Or(ExecIds) /\ m.amount \in Or(Nat)
BY DEF Message

LEMMA AccFields ==
  ASSUME NEW acc \in OrderAcc
  PROVE  /\ acc.family \in SUBSET Ids /\ acc.symbol \in Or(Values) /\ acc.order_qty \in Or(Nat)
         /\ acc.cum_qty \in Nat /\ acc.notional \in Nat /\ acc.fills \in Nat
         /\ acc.seen_execids \in SUBSET ExecIds /\ acc.final_ord_status \in Or(Values)
         /\ acc.first_seen \in Or(Nat) /\ acc.last_seen \in Or(Nat)
BY DEF OrderAcc

LEMMA DefaultType == default \in OrderAcc
BY DEF default, OrderAcc, Or

LEMMA UpdatedFields ==
  ASSUME NEW acc \in OrderAcc, NEW root \in Ids, NEW m \in Message
  PROVE  LET u == updated(acc, root, m)
         IN /\ u \in OrderAcc
            /\ u.family = acc.family \cup {root} \cup ({m.clordid} \ {None})
            /\ u.symbol = or(acc.symbol, m.symbol)
            /\ u.order_qty =
                 IF m.kind = "request" THEN or(m.order_qty, acc.order_qty) ELSE acc.order_qty
            /\ u.first_seen = lesser(acc.first_seen, m.sending_time)
            /\ u.last_seen = greater(acc.last_seen, m.sending_time)
            /\ u.final_ord_status =
                 IF Report(m) THEN or(m.status, acc.final_ord_status) ELSE acc.final_ord_status
            /\ u.cum_qty = IF Report(m) THEN greater(acc.cum_qty, m.cum_qty) ELSE acc.cum_qty
            /\ u.seen_execids =
                 IF Fill(m) THEN acc.seen_execids \cup ({m.exec_id} \ {None}) ELSE acc.seen_execids
            /\ u.fills = IF Counts(acc, m) THEN acc.fills + 1 ELSE acc.fills
<1> DEFINE fa == acc.family \cup {root} \cup ({m.clordid} \ {None})
           sy == or(acc.symbol, m.symbol)
           oq == IF m.kind = "request" THEN or(m.order_qty, acc.order_qty) ELSE acc.order_qty
           fs == lesser(acc.first_seen, m.sending_time)
           ls == greater(acc.last_seen, m.sending_time)
           st == IF Report(m) THEN or(m.status, acc.final_ord_status) ELSE acc.final_ord_status
           cq == IF Report(m) THEN greater(acc.cum_qty, m.cum_qty) ELSE acc.cum_qty
           se == IF Fill(m) THEN acc.seen_execids \cup ({m.exec_id} \ {None})
                            ELSE acc.seen_execids
           no == IF Counts(acc, m) THEN acc.notional + m.amount ELSE acc.notional
           fi == IF Counts(acc, m) THEN acc.fills + 1 ELSE acc.fills
           u == updated(acc, root, m)
<1>1. fa \in SUBSET Ids /\ se \in SUBSET ExecIds
  BY AccFields, MessageFields DEF Or
<1>2. sy \in Or(Values) /\ oq \in Or(Nat) /\ st \in Or(Values)
  BY AccFields, MessageFields, ChoiceTypes
<1>3. fs \in Or(Nat) /\ ls \in Or(Nat) /\ cq \in Nat
  BY AccFields, MessageFields, ChoiceTypes
<1>4. no \in Nat /\ fi \in Nat
  BY AccFields, MessageFields DEF Or, Counts
<1>5. u = [acc EXCEPT !.family = fa, !.symbol = sy, !.order_qty = oq, !.first_seen = fs,
                      !.last_seen = ls, !.final_ord_status = st, !.cum_qty = cq,
                      !.seen_execids = se, !.notional = no, !.fills = fi]
  BY DEF updated
<1> HIDE DEF fa, sy, oq, fs, ls, st, cq, se, no, fi, u
<1>6. /\ u \in OrderAcc
      /\ u.family = fa /\ u.symbol = sy /\ u.order_qty = oq /\ u.cum_qty = cq
      /\ u.fills = fi /\ u.seen_execids = se
      /\ u.final_ord_status = st /\ u.first_seen = fs /\ u.last_seen = ls
  BY <1>1, <1>2, <1>3, <1>4, <1>5 DEF OrderAcc
<1> QED  BY <1>6 DEF fa, sy, oq, fs, ls, st, cq, se, fi, u

LEMMA MergedFields ==
  ASSUME NEW acc \in OrderAcc, NEW other \in OrderAcc
  PROVE  LET u == merge_from(acc, other)
         IN /\ u \in OrderAcc
            /\ u.family = acc.family \cup other.family
            /\ u.symbol = or(acc.symbol, other.symbol)
            /\ u.order_qty = or(acc.order_qty, other.order_qty)
            /\ u.cum_qty = greater(acc.cum_qty, other.cum_qty)
            /\ u.fills = acc.fills + other.fills
            /\ u.seen_execids = acc.seen_execids \cup other.seen_execids
            /\ u.final_ord_status = or(other.final_ord_status, acc.final_ord_status)
            /\ u.first_seen = lesser(acc.first_seen, other.first_seen)
            /\ u.last_seen = greater(acc.last_seen, other.last_seen)
<1> DEFINE fa == acc.family \cup other.family
           sy == or(acc.symbol, other.symbol)
           oq == or(acc.order_qty, other.order_qty)
           cq == greater(acc.cum_qty, other.cum_qty)
           no == acc.notional + other.notional
           fi == acc.fills + other.fills
           se == acc.seen_execids \cup other.seen_execids
           st == or(other.final_ord_status, acc.final_ord_status)
           fs == lesser(acc.first_seen, other.first_seen)
           ls == greater(acc.last_seen, other.last_seen)
           u == merge_from(acc, other)
<1>1. fa \in SUBSET Ids /\ se \in SUBSET ExecIds /\ no \in Nat /\ fi \in Nat
  BY AccFields
<1>2. sy \in Or(Values) /\ oq \in Or(Nat) /\ st \in Or(Values)
  BY AccFields, ChoiceTypes
<1>3. other.cum_qty \in Or(Nat)
  BY AccFields DEF Or
<1>4. fs \in Or(Nat) /\ ls \in Or(Nat) /\ cq \in Nat
  BY <1>3, AccFields, ChoiceTypes
<1>5. u = [acc EXCEPT !.family = fa, !.symbol = sy, !.order_qty = oq, !.cum_qty = cq,
                      !.notional = no, !.fills = fi, !.seen_execids = se,
                      !.final_ord_status = st, !.first_seen = fs, !.last_seen = ls]
  BY DEF merge_from, OrderAcc
<1> HIDE DEF fa, sy, oq, fs, ls, st, cq, se, no, fi, u
<1>6. /\ u \in OrderAcc
      /\ u.family = fa /\ u.symbol = sy /\ u.order_qty = oq /\ u.cum_qty = cq
      /\ u.fills = fi /\ u.seen_execids = se
      /\ u.final_ord_status = st /\ u.first_seen = fs /\ u.last_seen = ls
  BY <1>1, <1>2, <1>4, <1>5 DEF OrderAcc
<1> QED  BY <1>6 DEF fa, sy, oq, fs, ls, st, cq, se, fi, u

Entry == [msg : Message, root : Or(Ids), counted : BOOLEAN]

IsTable(a) == DOMAIN a \subseteq Ids /\ \A r \in DOMAIN a : a[r] \in OrderAcc

IsBinding(b) == DOMAIN b \subseteq OrderIds /\ \A o \in DOMAIN b : b[o] \in Ids

ForestInv == TypeOK /\ seen \in Seq(Entry) /\ IsForest(alias, Roots(alias))

LEMMA EntryType ==
  ASSUME NEW a, IsTable(a), NEW root
  PROVE  entry(a, root) \in OrderAcc
BY DefaultType DEF IsTable, entry

LEMMA AttributeType ==
  ASSUME ForestInv, NEW a, IsTable(a), NEW root \in Ids, NEW m \in Message, Attribute(m, root, a)
  PROVE  /\ IsTable(accs') /\ seen' \in Seq(Entry)
         /\ stats' \in [messages : Nat, fills_seen : Nat, fills_deduped : Nat]
         /\ stats'.fills_deduped <= stats'.fills_seen /\ stats'.fills_seen <= stats'.messages
<1> DEFINE acc == entry(a, root)
<1>1. acc \in OrderAcc
  BY EntryType
<1>2. updated(acc, root, m) \in OrderAcc
  BY <1>1, UpdatedFields
<1>3. IsTable(accs')
  BY <1>2 DEF Attribute, Put, IsTable
<1>4. seen' \in Seq(Entry)
  <2>1. Counts(acc, m) \in BOOLEAN
    BY DEF Counts, Fill, Report, Duplicate
  <2>2. [msg |-> m, root |-> root, counted |-> Counts(acc, m)] \in Entry
    BY <2>1 DEF Entry, Or
  <2>3. seen' = Append(seen, [msg |-> m, root |-> root, counted |-> Counts(acc, m)])
    BY DEF Attribute
  <2> QED  BY <2>2, <2>3 DEF ForestInv
<1>5. /\ stats' \in [messages : Nat, fills_seen : Nat, fills_deduped : Nat]
      /\ stats'.fills_deduped <= stats'.fills_seen /\ stats'.fills_seen <= stats'.messages
  <2> DEFINE f == IF Fill(m) THEN 1 ELSE 0
             d == IF Duplicate(acc, m) THEN 1 ELSE 0
  <2>1. f \in {0, 1} /\ d \in {0, 1} /\ d <= f
    BY DEF Duplicate
  <2>2. stats' = [messages |-> stats.messages + 1, fills_seen |-> stats.fills_seen + f,
                  fills_deduped |-> stats.fills_deduped + d]
    BY DEF Attribute
  <2>3. /\ stats \in [messages : Nat, fills_seen : Nat, fills_deduped : Nat]
        /\ stats.fills_deduped <= stats.fills_seen /\ stats.fills_seen <= stats.messages
    BY DEF ForestInv, TypeOK
  <2> HIDE DEF f, d
  <2> QED  BY <2>1, <2>2, <2>3
<1> QED  BY <1>3, <1>4, <1>5

LEMMA BindType ==
  ASSUME NEW b, IsBinding(b), NEW root \in Ids, NEW m \in Message, BindOrderId(m, root, b)
  PROVE  IsBinding(order_id_to_root')
BY MessageFields DEF BindOrderId, IsBinding, Put, Or

(* The trees of a message's ids, before it is handled.                     *)
LEMMA TreesOf ==
  ASSUME ForestInv, NEW m \in Message
  PROVE  LET rho == Roots(alias)
         IN /\ rho \in [Ids -> Ids] /\ \A c \in Ids : rho[c] = Root(alias, c) /\ rho[rho[c]] = rho[c]
            /\ m.clordid # None => /\ m.clordid \in Ids /\ Child(m) = rho[m.clordid]
                                   /\ Child(m) \in Ids /\ rho[Child(m)] = Child(m)
                                   /\ Child(m) \notin DOMAIN alias
                                   /\ IsForest(Walked(m), rho)
            /\ m.orig # None => /\ m.orig \in Ids /\ Parent(m) = rho[m.orig]
                                /\ Parent(m) \in Ids /\ rho[Parent(m)] = Parent(m)
                                /\ Parent(m) \notin DOMAIN alias
<1> DEFINE rho == Roots(alias)
<1>1. IsForest(alias, rho)
  BY DEF ForestInv
<1>2. \A c \in Ids : rho[c] = Root(alias, c)
  BY DEF Roots
<1> HIDE DEF rho
<1>3. \A c \in Ids : rho[c] \in Ids /\ rho[rho[c]] = rho[c] /\ rho[c] \notin DOMAIN alias
  BY <1>1 DEF IsForest
<1>4. rho \in [Ids -> Ids]
  BY <1>3 DEF rho, Roots
<1>5. (m.clordid # None => m.clordid \in Ids) /\ (m.orig # None => m.orig \in Ids)
  BY MessageFields DEF Or
<1>6. m.clordid # None => IsForest(Walked(m), rho)
  BY <1>1, <1>5, CompressKeeps DEF Walked
<1> QED  BY <1>2, <1>3, <1>4, <1>5, <1>6 DEF Child, Parent, rho

LEMMA BoundForest ==
  ASSUME ForestInv, NEW m \in Message, HandleBound(m)
  PROVE  Roots(alias') = Roots(alias) /\ IsForest(alias', Roots(alias'))
<1>1. m.clordid # None /\ alias' = Walked(m)
  BY DEF HandleBound
<1>2. IsForest(Walked(m), Roots(alias)) /\ Roots(alias) \in [Ids -> Ids]
  BY <1>1, TreesOf
<1>3. Roots(Walked(m)) = Roots(alias)
  BY <1>2, RootsAre
<1> QED  BY <1>1, <1>2, <1>3

LEMMA UnionForest ==
  ASSUME ForestInv, NEW m \in Message, HandleUnion(m)
  PROVE  /\ Roots(alias') = Hung(Roots(alias), Child(m), Parent(m))
         /\ IsForest(alias', Roots(alias'))
<1> DEFINE rho == Roots(alias)
           sigma == Hung(rho, Child(m), Parent(m))
           a == Put(Walked(m), Child(m), Parent(m))
<1>1. /\ m.clordid # None /\ m.orig # None /\ Child(m) # Parent(m)
      /\ alias' = IF m.clordid = Parent(m) THEN a ELSE Put(a, m.clordid, Parent(m))
  BY DEF HandleUnion, Links, ParentKnown
<1>2. /\ rho \in [Ids -> Ids] /\ IsForest(Walked(m), rho)
      /\ m.clordid \in Ids /\ Child(m) = rho[m.clordid]
      /\ Child(m) \in Ids /\ rho[Child(m)] = Child(m)
      /\ Parent(m) \in Ids /\ rho[Parent(m)] = Parent(m)
  BY <1>1, TreesOf
<1> HIDE DEF rho
<1>3. IsForest(a, sigma)
  BY <1>1, <1>2, HangsBelow
<1>4. sigma \in [Ids -> Ids]
  BY <1>2 DEF Hung
<1>5. sigma[m.clordid] = Parent(m) /\ sigma[Parent(m)] = Parent(m)
  BY <1>1, <1>2 DEF Hung
<1> HIDE DEF a, sigma
<1>6. ASSUME m.clordid # Parent(m) PROVE IsForest(Put(a, m.clordid, Parent(m)), sigma)
  <2>1. m.clordid \in DOMAIN a
    BY <1>2, <1>3, <1>5, <1>6 DEF IsForest
  <2> DEFINE P == {m.clordid}
  <2>2. Put(a, m.clordid, Parent(m)) = [c \in DOMAIN a |-> IF c \in P THEN Parent(m) ELSE a[c]]
    BY <2>1 DEF Put
  <2>3. P \subseteq {c \in Ids : sigma[c] = Parent(m)}
    BY <1>2, <1>5
  <2> HIDE DEF P
  <2> QED  BY <1>2, <1>3, <1>5, <2>2, <2>3, Shortcut
<1>7. IsForest(alias', sigma)
  BY <1>1, <1>3, <1>6
<1>8. Roots(alias') = sigma
  BY <1>4, <1>7, RootsAre
<1> QED  BY <1>7, <1>8 DEF rho, sigma

LEMMA MergedType ==
  ASSUME ForestInv, NEW m \in Message, Links(m)
  PROVE  /\ IsTable(Merged(Child(m), Parent(m)))
         /\ IsBinding(Rewired(Child(m), Parent(m)))
<1>1. IsTable(accs) /\ IsBinding(order_id_to_root)
  BY DEF ForestInv, TypeOK, IsTable, IsBinding
<1>2. m.orig # None /\ Parent(m) \in DOMAIN accs
  BY DEF Links, ParentKnown, Parent
<1>3. Parent(m) \in Ids
  BY <1>2, TreesOf
<1>4. entry(accs, Child(m)) \in OrderAcc /\ accs[Parent(m)] \in OrderAcc
  BY <1>1, <1>2, EntryType DEF IsTable
<1>5. merge_from(accs[Parent(m)], entry(accs, Child(m))) \in OrderAcc
  BY <1>4, MergedFields
<1>6. IsTable(Merged(Child(m), Parent(m)))
  BY <1>1, <1>5 DEF IsTable, Merged
<1>7. IsBinding(Rewired(Child(m), Parent(m)))
  BY <1>1, <1>3 DEF IsBinding, Rewired
<1> QED  BY <1>6, <1>7

LEMMA ForestInvInit ==
  ASSUME Init
  PROVE  ForestInv
<1>1. DOMAIN << >> = {}
  OBVIOUS
<1>2. TypeOK
  BY <1>1 DEF Init, TypeOK
<1>3. seen \in Seq(Entry)
  BY DEF Init
<1> DEFINE id == [c \in Ids |-> c]
<1>4. IsForest(alias, id) /\ id \in [Ids -> Ids]
  BY <1>1 DEF Init, IsForest
<1>5. Roots(alias) = id
  BY <1>4, RootsAre
<1> QED  BY <1>2, <1>3, <1>4, <1>5 DEF ForestInv

LEMMA ForestInvStep ==
  ASSUME ForestInv, [Next]_vars
  PROVE  ForestInv'
<1>1. /\ IsTable(accs) /\ IsBinding(order_id_to_root) /\ seen \in Seq(Entry)
      /\ IsForest(alias, Roots(alias))
  BY DEF ForestInv, TypeOK, IsTable, IsBinding
<1>2. ASSUME NEW m \in Message, HandleBound(m) PROVE ForestInv'
  <2>1. m.clordid # None /\ Child(m) \in Ids
    BY <1>2, TreesOf DEF HandleBound
  <2>2. BindOrderId(m, Child(m), order_id_to_root) /\ Attribute(m, Child(m), accs)
    BY <1>2 DEF HandleBound
  <2>3. IsBinding(order_id_to_root')
    BY <1>1, <2>1, <2>2, BindType
  <2>4. IsForest(alias', Roots(alias'))
    BY <1>2, BoundForest
  <2> QED
    BY <1>1, <2>1, <2>2, <2>3, <2>4, AttributeType
    DEF ForestInv, TypeOK, IsTable, IsBinding, IsForest, Roots
<1>3. ASSUME NEW m \in Message, HandleUnion(m) PROVE ForestInv'
  <2>1. m.orig # None /\ Parent(m) \in Ids /\ Links(m)
    BY <1>3, TreesOf DEF HandleUnion, Links, ParentKnown
  <2>2. /\ BindOrderId(m, Parent(m), Rewired(Child(m), Parent(m)))
        /\ Attribute(m, Parent(m), Merged(Child(m), Parent(m)))
    BY <1>3 DEF HandleUnion
  <2>3. IsBinding(order_id_to_root')
    BY <2>1, <2>2, BindType, MergedType
  <2>4. IsForest(alias', Roots(alias'))
    BY <1>3, UnionForest
  <2>5. IsTable(Merged(Child(m), Parent(m)))
    BY <2>1, MergedType
  <2> QED
    BY <2>1, <2>2, <2>3, <2>4, <2>5, AttributeType
    DEF ForestInv, TypeOK, IsTable, IsBinding, IsForest, Roots
<1>4. ASSUME NEW m \in Message, HandleByOrderId(m) PROVE ForestInv'
  <2>1. /\ order_id_to_root[m.order_id] \in Ids
        /\ Attribute(m, order_id_to_root[m.order_id], accs)
        /\ UNCHANGED <<alias, order_id_to_root>>
    BY <1>1, <1>4 DEF HandleByOrderId, IsBinding
  <2> QED
    BY <1>1, <2>1, AttributeType DEF ForestInv, TypeOK, IsTable, IsBinding, IsForest, Roots
<1>5. ASSUME NEW m \in Message, HandleNoOrder(m) PROVE ForestInv'
  <2>1. /\ stats' = [stats EXCEPT !.messages = @ + 1] /\ UNCHANGED <<accs, alias, order_id_to_root>>
        /\ seen' = Append(seen, [msg |-> m, root |-> None, counted |-> FALSE])
    BY <1>5 DEF HandleNoOrder
  <2>2. [msg |-> m, root |-> None, counted |-> FALSE] \in Entry
    BY DEF Entry, Or
  <2>3. /\ stats' \in [messages : Nat, fills_seen : Nat, fills_deduped : Nat]
        /\ stats'.fills_deduped <= stats'.fills_seen /\ stats'.fills_seen <= stats'.messages
    BY <2>1 DEF ForestInv, TypeOK
  <2>4. seen' \in Seq(Entry)
    BY <1>1, <2>1, <2>2
  <2> QED
    BY <1>1, <2>1, <2>3, <2>4 DEF ForestInv, TypeOK, IsTable, IsBinding, IsForest, Roots
<1>6. CASE UNCHANGED vars
  BY <1>6 DEF ForestInv, TypeOK, IsForest, Roots, vars
<1>7. Messages \subseteq Message
  BY ConstantsAssumption
<1> QED  BY <1>2, <1>3, <1>4, <1>5, <1>6, <1>7 DEF Next, handle_message

(* The tables keep their types, and a dropped resend is a fill, and a fill *)
(* a message, in the counters of SourceStats.                              *)
THEOREM TypeCorrect == Spec => []TypeOK
<1>1. Init => ForestInv
  BY ForestInvInit
<1>2. ForestInv /\ [Next]_vars => ForestInv'
  BY ForestInvStep
<1>3. ForestInv => TypeOK
  BY DEF ForestInv
<1> QED  BY <1>1, <1>2, <1>3, PTL DEF Spec
-----------------------------------------------------------------------------
(* Each message is of one order.  Through every merge, the ClOrdID and the *)
(* OrderID of a message lead to the OrderAcc it was attributed to, and the *)
(* ExecID of a counted fill is remembered there.                           *)

Owns(a, rho, b, e) ==
  /\ e.root # None => rho[e.root] \in DOMAIN a
  /\ e.msg.clordid # None => e.root # None /\ rho[e.msg.clordid] = rho[e.root]
  /\ e.msg.clordid = None /\ e.root # None =>
       e.msg.order_id \in DOMAIN b /\ b[e.msg.order_id] = rho[e.root]
  /\ e.counted =>
       /\ e.root # None
       /\ e.msg.exec_id # None => e.msg.exec_id \in a[rho[e.root]].seen_execids

(* The keys of the table are roots, and the OrderIDs lead to them.         *)
KeysAreRoots(a, rho, b) ==
  /\ \A r \in DOMAIN a : rho[r] = r
  /\ \A o \in DOMAIN b : b[o] \in DOMAIN a

OwnedBy(a, rho, b) ==
  /\ IsTable(a) /\ IsBinding(b) /\ rho \in [Ids -> Ids]
  /\ KeysAreRoots(a, rho, b)
  /\ \A i \in 1 .. Len(seen) : Owns(a, rho, b, seen[i])

TableInv == ForestInv /\ OwnedBy(accs, Roots(alias), order_id_to_root) /\ ResendCountedOnce

LEMMA EntryFields ==
  ASSUME NEW e \in Entry
  PROVE  /\ e.msg \in Message /\ e.root \in Or(Ids) /\ e.counted \in BOOLEAN
         /\ e.root # None => e.root \in Ids
         /\ e.msg.clordid # None => e.msg.clordid \in Ids
<1>1. e.msg \in Message /\ e.root \in Or(Ids) /\ e.counted \in BOOLEAN
  BY DEF Entry
<1> QED  BY <1>1, MessageFields DEF Or

(* The merge of two families takes their messages along.                   *)
LEMMA MergeOwns ==
  ASSUME ForestInv, NEW rho, OwnedBy(accs, rho, order_id_to_root),
         NEW child \in Ids, NEW parent \in DOMAIN accs, child # parent,
         rho[child] = child, IsTable(Merged(child, parent)),
         IsBinding(Rewired(child, parent))
  PROVE  OwnedBy(Merged(child, parent), Hung(rho, child, parent), Rewired(child, parent))
<1> DEFINE a == Merged(child, parent)
           sigma == Hung(rho, child, parent)
           b == Rewired(child, parent)
<1>1. /\ DOMAIN a = DOMAIN accs \ {child}
      /\ a[parent] = merge_from(accs[parent], entry(accs, child))
      /\ \A r \in DOMAIN accs \ {child, parent} : a[r] = accs[r]
  BY DEF Merged
<1>2. \A c \in Ids : sigma[c] = IF rho[c] = child THEN parent ELSE rho[c]
  BY DEF Hung
<1>3. /\ DOMAIN b = DOMAIN order_id_to_root
      /\ \A o \in DOMAIN b :
           b[o] = IF order_id_to_root[o] = child THEN parent ELSE order_id_to_root[o]
  BY DEF Rewired
<1>4. /\ rho \in [Ids -> Ids] /\ DOMAIN accs \subseteq Ids /\ parent \in Ids
      /\ \A r \in DOMAIN accs : rho[r] = r /\ accs[r] \in OrderAcc
      /\ \A o \in DOMAIN order_id_to_root : order_id_to_root[o] \in DOMAIN accs
  BY DEF OwnedBy, KeysAreRoots, IsTable
<1>5. sigma \in [Ids -> Ids]
  BY <1>4 DEF Hung
<1>6. /\ accs[parent].seen_execids \subseteq a[parent].seen_execids
      /\ child \in DOMAIN accs => accs[child].seen_execids \subseteq a[parent].seen_execids
  <2>1. accs[parent] \in OrderAcc /\ entry(accs, child) \in OrderAcc
    BY <1>4, EntryType DEF OwnedBy
  <2>2. a[parent].seen_execids
          = accs[parent].seen_execids \cup entry(accs, child).seen_execids
    BY <1>1, <2>1, MergedFields
  <2> QED  BY <2>2 DEF entry
<1> HIDE DEF a, b, sigma
<1>7. KeysAreRoots(a, sigma, b)
  BY <1>1, <1>2, <1>3, <1>4 DEF KeysAreRoots
<1>8. ASSUME NEW i \in 1 .. Len(seen) PROVE Owns(a, sigma, b, seen[i])
  <2> DEFINE e == seen[i]
  <2>1. e \in Entry /\ Owns(accs, rho, order_id_to_root, e)
    BY DEF ForestInv, OwnedBy
  <2> HIDE DEF e
  <2>2. /\ e.root # None => e.root \in Ids
        /\ e.msg.clordid # None => e.msg.clordid \in Ids
    BY <2>1, EntryFields
  <2>3. e.root # None => sigma[e.root] \in DOMAIN a
    BY <1>1, <1>2, <2>1, <2>2 DEF Owns
  <2>4. e.msg.clordid # None => e.root # None /\ sigma[e.msg.clordid] = sigma[e.root]
    BY <1>2, <2>1, <2>2 DEF Owns
  <2>5. e.msg.clordid = None /\ e.root # None =>
          e.msg.order_id \in DOMAIN b /\ b[e.msg.order_id] = sigma[e.root]
    BY <1>2, <1>3, <2>1, <2>2 DEF Owns
  <2>6. ASSUME e.counted, e.msg.exec_id # None
        PROVE  e.msg.exec_id \in a[sigma[e.root]].seen_execids
    <3>1. /\ e.root \in Ids /\ rho[e.root] \in DOMAIN accs
          /\ e.msg.exec_id \in accs[rho[e.root]].seen_execids
      BY <2>1, <2>2, <2>6 DEF Owns
    <3> QED  BY <1>1, <1>2, <1>6, <3>1
  <2>7. Owns(a, sigma, b, e)
    BY <2>1, <2>3, <2>4, <2>5, <2>6 DEF Owns
  <2> QED  BY <2>7 DEF e
<1>9. OwnedBy(a, sigma, b)
  BY <1>5, <1>7, <1>8 DEF OwnedBy, a, b
<1> QED  BY <1>9 DEF a, b, sigma

(* So does the attribution of a message, whose own fill is not counted if  *)
(* the table has its ExecID.                                               *)
LEMMA AttributeOwns ==
  ASSUME ForestInv, ResendCountedOnce, NEW a, NEW rho, NEW b, OwnedBy(a, rho, b),
         NEW m \in Message, NEW root \in Ids, rho[root] = root,
         m.clordid # None => rho[m.clordid] = root,
         m.clordid = None => m.order_id \in DOMAIN b /\ b[m.order_id] = root,
         Attribute(m, root, a), BindOrderId(m, root, b)
  PROVE  OwnedBy(accs, rho, order_id_to_root)' /\ ResendCountedOnce'
<1> DEFINE acc == entry(a, root)
           n == Len(seen)
           new == [msg |-> m, root |-> root, counted |-> Counts(acc, m)]
<1>1. /\ IsTable(a) /\ IsBinding(b) /\ rho \in [Ids -> Ids]
      /\ \A r \in DOMAIN a : rho[r] = r /\ r \in Ids
      /\ \A o \in DOMAIN b : b[o] \in DOMAIN a
  BY DEF OwnedBy, KeysAreRoots, IsTable
<1>2. acc \in OrderAcc
  BY <1>1, EntryType
<1>3. /\ DOMAIN accs' = DOMAIN a \cup {root} /\ accs'[root] = updated(acc, root, m)
      /\ \A r \in DOMAIN a \ {root} : accs'[r] = a[r]
  BY DEF Attribute, Put
<1>4. /\ acc.seen_execids \subseteq accs'[root].seen_execids
      /\ Counts(acc, m) /\ m.exec_id # None =>
           m.exec_id \in accs'[root].seen_execids /\ m.exec_id \notin acc.seen_execids
  <2> HIDE DEF acc
  <2>1. accs'[root].seen_execids =
          IF Fill(m) THEN acc.seen_execids \cup ({m.exec_id} \ {None}) ELSE acc.seen_execids
    BY <1>2, <1>3, UpdatedFields
  <2> QED  BY <2>1 DEF Counts, Duplicate
<1>5. /\ n \in Nat /\ seen \in Seq(Entry) /\ seen' = Append(seen, new) /\ Len(seen') = n + 1
      /\ \A i \in 1 .. n : seen'[i] = seen[i] /\ seen[i] \in Entry
      /\ seen'[n + 1] = new
  BY DEF ForestInv, Attribute
<1>6. /\ IsTable(accs') /\ IsBinding(order_id_to_root')
  BY <1>1, AttributeType, BindType
<1>7. /\ DOMAIN b \subseteq DOMAIN order_id_to_root'
      /\ \A o \in DOMAIN b : order_id_to_root'[o] = b[o]
      /\ \A o \in DOMAIN order_id_to_root' : order_id_to_root'[o] \in DOMAIN accs'
  BY <1>1, <1>3 DEF BindOrderId, Put
<1>8. \A r \in DOMAIN accs' : rho[r] = r
  BY <1>1, <1>3
<1>9. \A r \in DOMAIN a : a[r].seen_execids \subseteq accs'[r].seen_execids
  BY <1>3, <1>4 DEF entry
<1>10. new.msg = m /\ new.root = root /\ new.counted = Counts(acc, m) /\ root # None
  BY NoneIsNoValue
<1> HIDE DEF acc, new
<1>11. ASSUME NEW i \in 1 .. n PROVE Owns(accs', rho, order_id_to_root', seen[i])
  <2>1. Owns(a, rho, b, seen[i])
    BY DEF OwnedBy
  <2> QED  BY <1>3, <1>7, <1>9, <2>1 DEF Owns
<1>12. Owns(accs', rho, order_id_to_root', new)
  BY <1>3, <1>4, <1>7, <1>10 DEF Owns
<1>13. \A i \in 1 .. Len(seen') : Owns(accs', rho, order_id_to_root', seen'[i])
  <2> SUFFICES ASSUME NEW i \in 1 .. Len(seen')
               PROVE  Owns(accs', rho, order_id_to_root', seen'[i])
    OBVIOUS
  <2>1. i \in 1 .. n \/ i = n + 1
    BY <1>5
  <2> QED  BY <1>5, <1>11, <1>12, <2>1
<1>14. OwnedBy(accs, rho, order_id_to_root)'
  BY <1>1, <1>6, <1>7, <1>8, <1>13 DEF OwnedBy, KeysAreRoots
<1>15. ASSUME NEW j \in 1 .. n, seen[j].counted, seen[j].msg = m, m.exec_id # None,
              Counts(acc, m)
       PROVE  FALSE
  <2>1. Owns(a, rho, b, seen[j])
    BY DEF OwnedBy
  <2>2. rho[seen[j].root] = root /\ root \in DOMAIN a
    BY <1>15, <2>1 DEF Owns
  <2>3. m.exec_id \in a[root].seen_execids
    BY <1>15, <2>1, <2>2 DEF Owns
  <2>4. m.exec_id \in acc.seen_execids
    BY <2>2, <2>3 DEF acc, entry
  <2> QED  BY <1>4, <1>15, <2>4
<1>16. ResendCountedOnce'
  <2> SUFFICES ASSUME NEW i \in DOMAIN seen', NEW j \in DOMAIN seen',
                      seen'[i].counted, seen'[j].counted,
                      seen'[i].msg = seen'[j].msg, seen'[i].msg.exec_id # None
               PROVE  i = j
    BY DEF ResendCountedOnce
  <2>1. (i \in 1 .. n \/ i = n + 1) /\ (j \in 1 .. n \/ j = n + 1)
    BY <1>5
  <2>2. CASE i \in 1 .. n /\ j \in 1 .. n
    <3>1. i \in DOMAIN seen /\ j \in DOMAIN seen
      BY <1>5, <2>2
    <3> QED  BY <1>5, <2>2, <3>1 DEF ResendCountedOnce
  <2>3. CASE i \in 1 .. n /\ j = n + 1
    BY <1>5, <1>10, <1>15, <2>3
  <2>4. CASE i = n + 1 /\ j \in 1 .. n
    BY <1>5, <1>10, <1>15, <2>4
  <2> QED  BY <2>1, <2>2, <2>3, <2>4
<1> QED  BY <1>14, <1>16

LEMMA TableInvInit ==
  ASSUME Init
  PROVE  TableInv
<1>1. ForestInv
  BY ForestInvInit
<1>2. accs = << >> /\ order_id_to_root = << >> /\ seen = << >> /\ DOMAIN << >> = {} /\ Len(<< >>) = 0
  BY DEF Init
<1>3. IsTable(accs) /\ IsBinding(order_id_to_root) /\ KeysAreRoots(accs, Roots(alias), order_id_to_root)
  BY <1>2 DEF IsTable, IsBinding, KeysAreRoots
<1>4. Roots(alias) \in [Ids -> Ids]
  BY <1>1 DEF ForestInv, IsForest, Roots
<1>5. \A i \in 1 .. Len(seen) : Owns(accs, Roots(alias), order_id_to_root, seen[i])
  BY <1>2
<1>6. ResendCountedOnce
  BY <1>2 DEF ResendCountedOnce
<1> QED  BY <1>1, <1>3, <1>4, <1>5, <1>6 DEF TableInv, OwnedBy

LEMMA BoundOwns ==
  ASSUME TableInv, NEW m \in Message, HandleBound(m)
  PROVE  OwnedBy(accs, Roots(alias), order_id_to_root)' /\ ResendCountedOnce'
<1> DEFINE rho == Roots(alias)
<1>1. /\ m.clordid # None /\ BindOrderId(m, Child(m), order_id_to_root)
      /\ Attribute(m, Child(m), accs)
  BY DEF HandleBound
<1>2. Child(m) \in Ids /\ rho[m.clordid] = Child(m) /\ rho[Child(m)] = Child(m)
  BY <1>1, TreesOf DEF TableInv
<1>3. Roots(alias') = rho
  BY BoundForest DEF TableInv
<1>4. OwnedBy(accs, rho, order_id_to_root)
  BY DEF TableInv
<1> HIDE DEF rho
<1> QED  BY <1>1, <1>2, <1>3, <1>4, AttributeOwns DEF TableInv

LEMMA UnionOwns ==
  ASSUME TableInv, NEW m \in Message, HandleUnion(m)
  PROVE  OwnedBy(accs, Roots(alias), order_id_to_root)' /\ ResendCountedOnce'
<1> DEFINE rho == Roots(alias)
           sigma == Hung(rho, Child(m), Parent(m))
           a == Merged(Child(m), Parent(m))
           b == Rewired(Child(m), Parent(m))
<1>1. /\ m.clordid # None /\ m.orig # None /\ Child(m) # Parent(m) /\ Links(m)
      /\ Parent(m) \in DOMAIN accs
      /\ BindOrderId(m, Parent(m), b) /\ Attribute(m, Parent(m), a)
  BY DEF HandleUnion, Links, ParentKnown, Parent
<1>2. /\ m.clordid \in Ids /\ Child(m) \in Ids /\ rho[m.clordid] = Child(m)
      /\ rho[Child(m)] = Child(m) /\ Parent(m) \in Ids /\ rho[Parent(m)] = Parent(m)
  BY <1>1, TreesOf DEF TableInv
<1>3. Roots(alias') = sigma
  BY UnionForest DEF TableInv
<1>4. OwnedBy(accs, rho, order_id_to_root) /\ IsTable(a) /\ IsBinding(b)
  BY <1>1, MergedType DEF TableInv
<1> HIDE DEF rho
<1>5. OwnedBy(a, sigma, b)
  BY <1>1, <1>2, <1>4, MergeOwns DEF TableInv
<1>6. sigma[Parent(m)] = Parent(m) /\ sigma[m.clordid] = Parent(m)
  BY <1>1, <1>2 DEF Hung
<1> HIDE DEF sigma, a, b
<1> QED  BY <1>1, <1>2, <1>3, <1>5, <1>6, AttributeOwns DEF TableInv

LEMMA OrderIdOwns ==
  ASSUME TableInv, NEW m \in Message, HandleByOrderId(m)
  PROVE  OwnedBy(accs, Roots(alias), order_id_to_root)' /\ ResendCountedOnce'
<1> DEFINE rho == Roots(alias)
           root == order_id_to_root[m.order_id]
<1>1. /\ m.clordid = None /\ m.order_id \in DOMAIN order_id_to_root
      /\ Attribute(m, root, accs) /\ UNCHANGED <<alias, order_id_to_root>>
  BY DEF HandleByOrderId
<1>2. OwnedBy(accs, rho, order_id_to_root)
  BY DEF TableInv
<1>3. root \in DOMAIN accs /\ rho[root] = root /\ root \in Ids
  BY <1>1, <1>2 DEF OwnedBy, KeysAreRoots, IsTable
<1>4. BindOrderId(m, root, order_id_to_root)
  BY <1>1 DEF BindOrderId
<1>5. Roots(alias') = rho
  BY <1>1
<1> HIDE DEF rho, root
<1>6. m.order_id \in DOMAIN order_id_to_root /\ order_id_to_root[m.order_id] = root
  BY <1>1 DEF root
<1> QED  BY <1>1, <1>2, <1>3, <1>4, <1>5, <1>6, AttributeOwns DEF TableInv

LEMMA NoOrderOwns ==
  ASSUME TableInv, NEW m \in Message, HandleNoOrder(m)
  PROVE  OwnedBy(accs, Roots(alias), order_id_to_root)' /\ ResendCountedOnce'
<1> DEFINE rho == Roots(alias)
           n == Len(seen)
           new == [msg |-> m, root |-> None, counted |-> FALSE]
<1>1. /\ m.clordid = None /\ seen' = Append(seen, new) /\ UNCHANGED <<accs, alias, order_id_to_root>>
  BY DEF HandleNoOrder
<1>2. /\ n \in Nat /\ Len(seen') = n + 1 /\ seen \in Seq(Entry)
      /\ \A i \in 1 .. n : seen'[i] = seen[i]
      /\ seen'[n + 1] = new /\ DOMAIN seen = 1 .. n /\ DOMAIN seen' = 1 .. n + 1
  BY <1>1 DEF TableInv, ForestInv
<1>3. OwnedBy(accs, rho, order_id_to_root) /\ ResendCountedOnce
  BY DEF TableInv
<1>4. new.msg = m /\ new.root = None /\ new.counted = FALSE
  OBVIOUS
<1> HIDE DEF new
<1>5. \A i \in 1 .. n + 1 : Owns(accs, rho, order_id_to_root, seen'[i])
  <2>1. Owns(accs, rho, order_id_to_root, new)
    BY <1>1, <1>4 DEF Owns
  <2>2. \A i \in 1 .. n + 1 : i \in 1 .. n \/ i = n + 1
    BY <1>2
  <2> QED  BY <1>2, <1>3, <2>1, <2>2 DEF OwnedBy
<1>6. OwnedBy(accs, rho, order_id_to_root)'
  BY <1>1, <1>2, <1>3, <1>5 DEF OwnedBy
<1>7. ResendCountedOnce'
  <2>1. \A i \in 1 .. n + 1 : i \in 1 .. n \/ i = n + 1
    BY <1>2
  <2> QED  BY <1>2, <1>3, <1>4, <2>1 DEF ResendCountedOnce
<1> QED  BY <1>6, <1>7

LEMMA TableInvStep ==
  ASSUME TableInv, [Next]_vars
  PROVE  TableInv'
<1>1. ForestInv'
  BY ForestInvStep DEF TableInv
<1>2. CASE UNCHANGED vars
  BY <1>1, <1>2 DEF TableInv, OwnedBy, ResendCountedOnce, vars
<1>3. Messages \subseteq Message
  BY ConstantsAssumption
<1>4. CASE Next
  <2>1. PICK m \in Message :
          HandleBound(m) \/ HandleUnion(m) \/ HandleByOrderId(m) \/ HandleNoOrder(m)
    BY <1>3, <1>4 DEF Next, handle_message
  <2> QED  BY <1>1, <2>1, BoundOwns, UnionOwns, OrderIdOwns, NoOrderOwns DEF TableInv
<1> QED  BY <1>2, <1>4

(* A resend of a fill with an ExecID is counted once, for any messages and *)
(* any merges between the two, and found by ClOrdID or by OrderID.         *)
THEOREM ResendsAreCountedOnce == Spec => []ResendCountedOnce
<1>1. Init => TableInv
  BY TableInvInit
<1>2. TableInv /\ [Next]_vars => TableInv'
  BY TableInvStep
<1>3. TableInv => ResendCountedOnce
  BY DEF TableInv
<1> QED  BY <1>1, <1>2, <1>3, PTL DEF Spec
-----------------------------------------------------------------------------
(* The families are the trees, and the trees are what the messages link.   *)

(* P is the set of ids that messages were seen of: a tree with one of them *)
(* has an OrderAcc with the whole tree as its family, and an id that was   *)
(* not seen is alone in its tree.                                          *)
Families(a, rho, P) ==
  /\ \A c \in Ids : c \in P <=> rho[c] \in DOMAIN a
  /\ \A c, d \in Ids : rho[c] = rho[d] /\ c \notin P => c = d
  /\ \A r \in DOMAIN a : r \in Ids /\ a[r].family = {c \in Ids : rho[c] = r}

(* A message of id x goes to the family of x.                              *)
LEMMA JoinFamily ==
  ASSUME NEW rho \in [Ids -> Ids], \A c \in Ids : rho[rho[c]] = rho[c],
         NEW P, P \subseteq Ids, NEW a, Families(a, rho, P), NEW x \in Ids,
         NEW b, DOMAIN b = DOMAIN a \cup {rho[x]},
         \A r \in DOMAIN a \ {rho[x]} : b[r].family = a[r].family,
         b[rho[x]].family =
           (IF rho[x] \in DOMAIN a THEN a[rho[x]].family ELSE {}) \cup {rho[x], x}
  PROVE  Families(b, rho, P \cup {x})
<1>1. \A c \in Ids : c \in P \cup {x} <=> rho[c] \in DOMAIN b
  BY DEF Families
<1>2. \A c, d \in Ids : rho[c] = rho[d] /\ c \notin P \cup {x} => c = d
  BY DEF Families
<1>3. b[rho[x]].family = {c \in Ids : rho[c] = rho[x]}
  <2>1. CASE rho[x] \in DOMAIN a
    BY <2>1 DEF Families
  <2>2. CASE rho[x] \notin DOMAIN a
    <3>1. \A c \in Ids : rho[c] = rho[x] => c = x
      BY <2>2 DEF Families
    <3>2. rho[x] = x
      BY <3>1
    <3> QED  BY <2>2, <3>1, <3>2
  <2> QED  BY <2>1, <2>2
<1>4. \A r \in DOMAIN b : r \in Ids /\ b[r].family = {c \in Ids : rho[c] = r}
  BY <1>3 DEF Families
<1> QED  BY <1>1, <1>2, <1>4 DEF Families

(* A message of id x that links it to another family takes its own along.  *)
LEMMA MergeFamily ==
  ASSUME NEW rho \in [Ids -> Ids], \A c \in Ids : rho[rho[c]] = rho[c],
         NEW P, P \subseteq Ids, NEW a, Families(a, rho, P), NEW x \in Ids,
         NEW parent \in DOMAIN a, rho[x] # parent, rho[parent] = parent,
         NEW b, DOMAIN b = DOMAIN a \ {rho[x]},
         \A r \in DOMAIN a \ {rho[x], parent} : b[r].family = a[r].family,
         b[parent].family =
           a[parent].family \cup (IF rho[x] \in DOMAIN a THEN a[rho[x]].family ELSE {})
             \cup {parent, x}
  PROVE  Families(b, Hung(rho, rho[x], parent), P \cup {x})
<1> DEFINE sigma == Hung(rho, rho[x], parent)
<1>1. /\ \A c \in Ids : sigma[c] = IF rho[c] = rho[x] THEN parent ELSE rho[c]
      /\ parent \in Ids
  BY DEF Hung, Families
<1> HIDE DEF sigma
<1>2. rho[x] \notin DOMAIN a => \A c \in Ids : rho[c] = rho[x] => c = x
  BY DEF Families
<1>3. \A c \in Ids : c \in P \cup {x} <=> sigma[c] \in DOMAIN b
  BY <1>1, <1>2 DEF Families
<1>4. ASSUME NEW c \in Ids, NEW d \in Ids, sigma[c] = sigma[d], c \notin P \cup {x}
      PROVE  c = d
  <2>1. rho[c] \notin DOMAIN a /\ rho[c] # rho[x]
    BY <1>4 DEF Families
  <2>2. sigma[c] = rho[c] /\ rho[c] # parent
    BY <1>1, <2>1
  <2>3. rho[d] = rho[c]
    BY <1>1, <1>4, <2>2
  <2> QED  BY <1>4, <2>3 DEF Families
<1>5. b[parent].family = {c \in Ids : sigma[c] = parent}
  <2>1. a[parent].family = {c \in Ids : rho[c] = parent}
    BY DEF Families
  <2>2. CASE rho[x] \in DOMAIN a
    <3>1. a[rho[x]].family = {c \in Ids : rho[c] = rho[x]}
      BY <2>2 DEF Families
    <3> QED  BY <1>1, <2>1, <2>2, <3>1
  <2>3. CASE rho[x] \notin DOMAIN a
    BY <1>1, <1>2, <2>1, <2>3
  <2> QED  BY <2>2, <2>3
<1>6. \A r \in DOMAIN b : r \in Ids /\ b[r].family = {c \in Ids : sigma[c] = r}
  <2> SUFFICES ASSUME NEW r \in DOMAIN b, r # parent
               PROVE  r \in Ids /\ b[r].family = {c \in Ids : sigma[c] = r}
    BY <1>1, <1>5
  <2>1. r \in Ids /\ b[r].family = {c \in Ids : rho[c] = r} /\ r # rho[x]
    BY DEF Families
  <2>2. \A c \in Ids : rho[c] = r <=> sigma[c] = r
    BY <1>1, <2>1
  <2> QED  BY <2>1, <2>2
<1> QED  BY <1>3, <1>4, <1>6 DEF Families, sigma

(* The messages that link, and the sets of ids that no link leaves.        *)
LinkSet == {j \in DOMAIN seen : seen[j].msg.orig # None /\ LinkedBy(j)}

LinkClosed(S) == \A i \in LinkSet : seen[i].msg.clordid \in S <=> seen[i].msg.orig \in S

Linked(rho) ==
  /\ \A i \in LinkSet : rho[seen[i].msg.clordid] = rho[seen[i].msg.orig]
  /\ \A S \in SUBSET Ids : LinkClosed(S) =>
       \A c, d \in Ids : rho[c] = rho[d] /\ c \in S => d \in S

FamilyInv ==
  /\ TableInv
  /\ Families(accs, Roots(alias), SeenIds)
  /\ Linked(Roots(alias))

LEMMA LinkIds ==
  ASSUME seen \in Seq(Entry), NEW i \in LinkSet
  PROVE  seen[i].msg.clordid \in Ids /\ seen[i].msg.orig \in Ids
<1>1. seen[i].msg \in Message /\ seen[i].msg.orig # None /\ seen[i].msg.clordid # None
  BY EntryFields DEF LinkSet, LinkedBy
<1> QED  BY <1>1, MessageFields DEF Or

LEMMA NewLinks ==
  ASSUME seen \in Seq(Entry), NEW e, seen' = Append(seen, e), NEW n, n = Len(seen) + 1
  PROVE  LET links == e.msg.clordid # None /\ e.msg.orig # None /\ e.msg.orig \in SeenIds
         IN /\ SeenIds' = SeenIds \cup ({e.msg.clordid} \ {None})
            /\ \A i \in LinkSet : i \in LinkSet' /\ seen'[i] = seen[i]
            /\ \A i \in LinkSet' : i \in LinkSet \/ (i = n /\ links)
            /\ links => n \in LinkSet'
            /\ seen'[n] = e
<1> DEFINE links == e.msg.clordid # None /\ e.msg.orig # None /\ e.msg.orig \in SeenIds
<1>1. /\ Len(seen) \in Nat /\ DOMAIN seen = 1 .. n - 1 /\ DOMAIN seen' = 1 .. n
      /\ \A i \in 1 .. n - 1 : seen'[i] = seen[i]
      /\ seen'[n] = e
  OBVIOUS
<1>2. \A i \in 1 .. n : i \in 1 .. n - 1 \/ i = n
  BY <1>1
<1>3. SeenIds' = SeenIds \cup ({e.msg.clordid} \ {None})
  BY <1>1, <1>2 DEF SeenIds
<1>4. ASSUME NEW i \in 1 .. n - 1 PROVE LinkedBy(i)' <=> LinkedBy(i)
  <2>1. \A j \in 1 .. i - 1 : j \in 1 .. n - 1
    BY <1>1
  <2> QED  BY <1>1, <2>1 DEF LinkedBy
<1>5. LinkedBy(n)' <=> e.msg.clordid # None /\ \E j \in 1 .. n - 1 : seen[j].msg.clordid = e.msg.orig
  BY <1>1 DEF LinkedBy
<1>6. e.msg.orig # None =>
        (e.msg.orig \in SeenIds <=> \E j \in 1 .. n - 1 : seen[j].msg.clordid = e.msg.orig)
  BY <1>1 DEF SeenIds
<1>7. \A i \in LinkSet : i \in LinkSet' /\ seen'[i] = seen[i]
  BY <1>1, <1>4 DEF LinkSet
<1>8. \A i \in LinkSet' : i \in LinkSet \/ (i = n /\ links)
  BY <1>1, <1>2, <1>4, <1>5, <1>6 DEF LinkSet
<1>9. links => n \in LinkSet'
  BY <1>1, <1>5, <1>6 DEF LinkSet
<1> QED  BY <1>1, <1>3, <1>7, <1>8, <1>9

LEMMA UpdatedFamily ==
  ASSUME NEW acc \in OrderAcc, NEW root \in Ids, NEW m \in Message
  PROVE  updated(acc, root, m).family = acc.family \cup {root} \cup ({m.clordid} \ {None})
<1>1. "family" \in DOMAIN acc
  BY DEF OrderAcc
<1> QED  BY <1>1 DEF updated

LEMMA AttributeSees ==
  ASSUME NEW a, NEW root, NEW m, Attribute(m, root, a)
  PROVE  \E e : seen' = Append(seen, e) /\ e.msg = m
<1> DEFINE e == [msg |-> m, root |-> root, counted |-> Counts(entry(a, root), m)]
<1>1. seen' = Append(seen, e) /\ e.msg = m
  BY DEF Attribute
<1> QED  BY <1>1

LEMMA AttributeFamily ==
  ASSUME NEW a, IsTable(a), NEW root \in Ids, NEW m \in Message, Attribute(m, root, a)
  PROVE  /\ DOMAIN accs' = DOMAIN a \cup {root}
         /\ \A r \in DOMAIN a \ {root} : accs'[r] = a[r]
         /\ accs'[root].family =
              (IF root \in DOMAIN a THEN a[root].family ELSE {}) \cup {root}
                \cup ({m.clordid} \ {None})
<1>1. PICK acc : acc = entry(a, root)
  OBVIOUS
<1>2. /\ DOMAIN accs' = DOMAIN a \cup {root} /\ accs'[root] = updated(acc, root, m)
      /\ \A r \in DOMAIN a \ {root} : accs'[r] = a[r]
  BY <1>1 DEF Attribute, Put
<1>3. acc \in OrderAcc
  BY <1>1, EntryType
<1>4. acc.family = IF root \in DOMAIN a THEN a[root].family ELSE {}
  BY <1>1 DEF entry, default
<1>5. updated(acc, root, m).family = acc.family \cup {root} \cup ({m.clordid} \ {None})
  BY <1>3, UpdatedFamily
<1> QED  BY <1>2, <1>4, <1>5

(* A new message keeps the trees what the messages link, if it joins two   *)
(* trees just when it links their ids.                                     *)
LEMMA LinkedStep ==
  ASSUME seen \in Seq(Entry), NEW e, e.msg \in Message, seen' = Append(seen, e),
         NEW rho, NEW sigma, Linked(rho),
         \A c, d \in Ids : rho[c] = rho[d] => sigma[c] = sigma[d],
         e.msg.clordid # None /\ e.msg.orig # None /\ e.msg.orig \in SeenIds =>
           sigma[e.msg.clordid] = sigma[e.msg.orig],
         \A c, d \in Ids : sigma[c] = sigma[d] =>
           \/ rho[c] = rho[d]
           \/ /\ e.msg.clordid # None /\ e.msg.orig # None /\ e.msg.orig \in SeenIds
              /\ {rho[c], rho[d]} = {rho[e.msg.clordid], rho[e.msg.orig]}
  PROVE  Linked(sigma)'
<1> DEFINE x == e.msg.clordid
           y == e.msg.orig
           links == x # None /\ y # None /\ y \in SeenIds
<1>1. PICK n : n = Len(seen) + 1
  OBVIOUS
<1>2. /\ \A i \in LinkSet : i \in LinkSet' /\ seen'[i] = seen[i]
      /\ \A i \in LinkSet' : i \in LinkSet \/ (i = n /\ links)
      /\ links => n \in LinkSet'
      /\ seen'[n] = e
  BY <1>1, NewLinks
<1>3. links => x \in Ids /\ y \in Ids
  BY MessageFields DEF Or
<1>4. \A i \in LinkSet : seen[i].msg.clordid \in Ids /\ seen[i].msg.orig \in Ids
  BY LinkIds
<1>5. ASSUME NEW i \in LinkSet' PROVE sigma[seen'[i].msg.clordid] = sigma[seen'[i].msg.orig]
  <2>1. CASE i \in LinkSet
    <3>1. rho[seen[i].msg.clordid] = rho[seen[i].msg.orig]
      BY <2>1 DEF Linked
    <3>2. sigma[seen[i].msg.clordid] = sigma[seen[i].msg.orig]
      BY <1>4, <2>1, <3>1
    <3> QED  BY <1>2, <2>1, <3>2
  <2>2. CASE i = n /\ links
    BY <1>2, <2>2
  <2> QED  BY <1>2, <1>5, <2>1, <2>2
<1>6. ASSUME NEW S \in SUBSET Ids, LinkClosed(S)', NEW c \in Ids, NEW d \in Ids,
             sigma[c] = sigma[d], c \in S
      PROVE  d \in S
  <2>1. LinkClosed(S)
    BY <1>2, <1>6 DEF LinkClosed
  <2>2. links => (x \in S <=> y \in S)
    BY <1>2, <1>6 DEF LinkClosed
  <2>3. \A u, v \in Ids : rho[u] = rho[v] /\ u \in S => v \in S
    BY <2>1 DEF Linked
  <2>4. CASE rho[c] = rho[d]
    BY <1>6, <2>3, <2>4
  <2>5. CASE links /\ {rho[c], rho[d]} = {rho[x], rho[y]} /\ rho[c] # rho[d]
    <3>1. (rho[c] = rho[x] /\ rho[d] = rho[y]) \/ (rho[c] = rho[y] /\ rho[d] = rho[x])
      BY <2>5
    <3> QED  BY <1>3, <1>6, <2>2, <2>3, <2>5, <3>1
  <2> QED  BY <1>6, <2>4, <2>5
<1>7. Linked(sigma)'
  <2>1. \A i \in LinkSet' : sigma[seen'[i].msg.clordid] = sigma[seen'[i].msg.orig]
    BY <1>5
  <2>2. \A S \in SUBSET Ids : LinkClosed(S)' =>
          \A c, d \in Ids : sigma[c] = sigma[d] /\ c \in S => d \in S
    BY <1>6
  <2> QED  BY <2>1, <2>2 DEF Linked
<1> QED  BY <1>7

LEMMA SeenIdsType ==
  ASSUME ForestInv
  PROVE  SeenIds \subseteq Ids
BY EntryFields DEF ForestInv, SeenIds

LEMMA BoundFamily ==
  ASSUME FamilyInv, NEW m \in Message, HandleBound(m)
  PROVE  Families(accs, Roots(alias), SeenIds)' /\ Linked(Roots(alias))'
<1>0. PICK rho : rho = Roots(alias)
  OBVIOUS
<1> DEFINE x == m.clordid
<1>1. ForestInv /\ TableInv /\ Families(accs, rho, SeenIds) /\ Linked(rho) /\ seen \in Seq(Entry)
      /\ IsTable(accs)
  BY <1>0 DEF FamilyInv, TableInv, ForestInv, TypeOK, IsTable
<1>2. x # None /\ ~ Links(m) /\ Attribute(m, Child(m), accs)
  BY DEF HandleBound
<1>3. /\ rho \in [Ids -> Ids] /\ (\A c \in Ids : rho[c] = Root(alias, c) /\ rho[rho[c]] = rho[c])
      /\ x \in Ids /\ Child(m) = rho[x] /\ rho[x] \in Ids
      /\ m.orig # None => m.orig \in Ids /\ Parent(m) = rho[m.orig]
  BY <1>0, <1>1, <1>2, TreesOf
<1>4. Roots(alias)' = rho
  BY <1>0, <1>1, BoundForest
<1>5. SeenIds \subseteq Ids
  BY <1>1, SeenIdsType
<1>6. Attribute(m, rho[x], accs)
  BY <1>2, <1>3
<1>7. PICK e : seen' = Append(seen, e) /\ e.msg = m
  BY <1>6, AttributeSees
<1>8. SeenIds' = SeenIds \cup {x}
  BY <1>1, <1>2, <1>7, NewLinks
<1> DEFINE b == accs'
<1>9. /\ DOMAIN b = DOMAIN accs \cup {rho[x]}
      /\ \A r \in DOMAIN accs \ {rho[x]} : b[r].family = accs[r].family
      /\ b[rho[x]].family =
           (IF rho[x] \in DOMAIN accs THEN accs[rho[x]].family ELSE {}) \cup {rho[x], x}
  <2>1. /\ DOMAIN b = DOMAIN accs \cup {rho[x]}
        /\ \A r \in DOMAIN accs \ {rho[x]} : b[r] = accs[r]
        /\ b[rho[x]].family =
             (IF rho[x] \in DOMAIN accs THEN accs[rho[x]].family ELSE {}) \cup {rho[x]}
               \cup ({m.clordid} \ {None})
    BY <1>1, <1>3, <1>6, AttributeFamily
  <2> HIDE DEF b
  <2>2. {m.clordid} \ {None} = {x}
    BY <1>2
  <2> QED  BY <2>1, <2>2
<1> HIDE DEF b
<1>10. Families(b, rho, SeenIds \cup {x})
  BY <1>1, <1>3, <1>5, <1>9, JoinFamily
<1>11. m.orig # None /\ m.orig \in SeenIds => rho[x] = rho[m.orig]
  <2> SUFFICES ASSUME m.orig # None, m.orig \in SeenIds PROVE rho[x] = rho[m.orig]
    OBVIOUS
  <2>1. rho[m.orig] \in DOMAIN accs
    BY <1>1, <1>3 DEF Families
  <2>2. ParentKnown(m)
    BY <1>3, <2>1 DEF ParentKnown
  <2> QED  BY <1>2, <1>3, <2>2 DEF Links
<1>12. Linked(rho)'
  <2>1. e.msg \in Message /\ e.msg.clordid = x /\ e.msg.orig = m.orig
    BY <1>7
  <2>2. \A c, d \in Ids : rho[c] = rho[d] => rho[c] = rho[d]
    OBVIOUS
  <2> QED  BY <1>1, <1>7, <1>11, <2>1, <2>2, LinkedStep
<1> QED
  <2>1. Families(accs, Roots(alias), SeenIds)'
    BY <1>4, <1>8, <1>10 DEF b
  <2>2. Linked(Roots(alias))'
    BY <1>4, <1>12
  <2> QED  BY <2>1, <2>2

LEMMA UnionFamily ==
  ASSUME FamilyInv, NEW m \in Message, HandleUnion(m)
  PROVE  Families(accs, Roots(alias), SeenIds)' /\ Linked(Roots(alias))'
<1>0. PICK rho, parent : rho = Roots(alias) /\ parent = Parent(m)
  OBVIOUS
<1> DEFINE x == m.clordid
           a == Merged(rho[x], parent)
           sigma == Hung(rho, rho[x], parent)
<1>1. ForestInv /\ TableInv /\ Families(accs, rho, SeenIds) /\ Linked(rho) /\ seen \in Seq(Entry)
      /\ IsTable(accs)
  BY <1>0 DEF FamilyInv, TableInv, ForestInv, TypeOK, IsTable
<1>2. /\ x # None /\ m.orig # None /\ Links(m) /\ Child(m) # parent /\ parent \in DOMAIN accs
      /\ Attribute(m, parent, Merged(Child(m), parent))
  BY <1>0 DEF HandleUnion, Links, ParentKnown, Parent
<1>3. /\ rho \in [Ids -> Ids] /\ (\A c \in Ids : rho[rho[c]] = rho[c])
      /\ x \in Ids /\ Child(m) = rho[x] /\ rho[x] \in Ids
      /\ m.orig \in Ids /\ parent = rho[m.orig] /\ parent \in Ids /\ rho[parent] = parent
  BY <1>0, <1>1, <1>2, TreesOf
<1>4. Roots(alias)' = sigma
  BY <1>0, <1>1, <1>3, UnionForest
<1>5. SeenIds \subseteq Ids
  BY <1>1, SeenIdsType
<1>6. /\ DOMAIN a = DOMAIN accs \ {rho[x]} /\ parent \in DOMAIN a /\ IsTable(a)
      /\ \A r \in DOMAIN accs \ {rho[x], parent} : a[r] = accs[r]
      /\ a[parent] = merge_from(accs[parent], entry(accs, rho[x]))
  <2>1. IsTable(a)
    BY <1>0, <1>1, <1>2, <1>3, MergedType
  <2> QED  BY <1>1, <1>2, <1>3, <2>1 DEF Merged
<1>7. a[parent].family
        = accs[parent].family \cup (IF rho[x] \in DOMAIN accs THEN accs[rho[x]].family ELSE {})
  <2> DEFINE gone == entry(accs, rho[x])
  <2>1. accs[parent] \in OrderAcc /\ gone \in OrderAcc
    BY <1>1, <1>2, EntryType DEF IsTable
  <2>2. gone.family = IF rho[x] \in DOMAIN accs THEN accs[rho[x]].family ELSE {}
    BY DEF entry, default
  <2>3. a[parent] = merge_from(accs[parent], gone)
    BY <1>6
  <2> HIDE DEF gone, a
  <2>4. merge_from(accs[parent], gone).family = accs[parent].family \cup gone.family
    BY <2>1, MergedFields
  <2> QED  BY <2>2, <2>3, <2>4
<1>8. Attribute(m, parent, a)
  BY <1>2, <1>3
<1> HIDE DEF a
<1>9. PICK e : seen' = Append(seen, e) /\ e.msg = m
  BY <1>8, AttributeSees
<1>10. SeenIds' = SeenIds \cup {x}
  BY <1>1, <1>2, <1>9, NewLinks
<1> DEFINE b == accs'
<1>11. /\ DOMAIN b = DOMAIN a \cup {parent}
       /\ \A r \in DOMAIN a \ {parent} : b[r] = a[r]
       /\ b[parent].family = a[parent].family \cup {parent, x}
  <2>1. /\ DOMAIN b = DOMAIN a \cup {parent}
        /\ \A r \in DOMAIN a \ {parent} : b[r] = a[r]
        /\ b[parent].family =
             (IF parent \in DOMAIN a THEN a[parent].family ELSE {}) \cup {parent}
               \cup ({m.clordid} \ {None})
    BY <1>3, <1>6, <1>8, AttributeFamily
  <2> HIDE DEF b
  <2>2. {m.clordid} \ {None} = {x}
    BY <1>2
  <2> QED  BY <1>6, <2>1, <2>2
<1> HIDE DEF b
<1>12. /\ DOMAIN b = DOMAIN accs \ {rho[x]}
       /\ \A r \in DOMAIN accs \ {rho[x], parent} : b[r].family = accs[r].family
       /\ b[parent].family =
            accs[parent].family \cup (IF rho[x] \in DOMAIN accs THEN accs[rho[x]].family ELSE {})
              \cup {parent, x}
  BY <1>6, <1>7, <1>11
<1>13. rho[x] # parent
  BY <1>2, <1>3
<1> HIDE DEF sigma
<1>14. Families(b, sigma, SeenIds \cup {x})
  BY <1>1, <1>2, <1>3, <1>5, <1>12, <1>13, MergeFamily DEF sigma
<1>15. m.orig \in SeenIds
  BY <1>1, <1>2, <1>3 DEF Families
<1>16. /\ \A c \in Ids : sigma[c] = IF rho[c] = rho[x] THEN parent ELSE rho[c]
       /\ \A c, d \in Ids : rho[c] = rho[d] => sigma[c] = sigma[d]
       /\ sigma[x] = sigma[m.orig]
  BY <1>3 DEF sigma, Hung
<1>17. \A c, d \in Ids : sigma[c] = sigma[d] =>
         \/ rho[c] = rho[d]
         \/ {rho[c], rho[d]} = {rho[x], rho[m.orig]}
  BY <1>3, <1>16
<1>18. PICK tau : tau = sigma
  OBVIOUS
<1>19. Linked(tau)'
  <2>1. /\ e.msg \in Message /\ e.msg.clordid # None /\ e.msg.orig # None
        /\ e.msg.orig \in SeenIds
    BY <1>2, <1>9, <1>15
  <2>2. \A c, d \in Ids : rho[c] = rho[d] => tau[c] = tau[d]
    BY <1>16, <1>18
  <2>3. tau[e.msg.clordid] = tau[e.msg.orig]
    BY <1>9, <1>16, <1>18
  <2>4. \A c, d \in Ids : tau[c] = tau[d] =>
          \/ rho[c] = rho[d]
          \/ {rho[c], rho[d]} = {rho[e.msg.clordid], rho[e.msg.orig]}
    BY <1>9, <1>17, <1>18
  <2>5. Linked(rho) /\ seen \in Seq(Entry) /\ seen' = Append(seen, e)
    BY <1>1, <1>9
  <2> HIDE DEF sigma
  <2> QED  BY <2>1, <2>2, <2>3, <2>4, <2>5, LinkedStep
<1> QED
  <2>1. Families(accs, Roots(alias), SeenIds)'
    BY <1>4, <1>10, <1>14 DEF b
  <2>2. Linked(Roots(alias))'
    BY <1>4, <1>18, <1>19
  <2> QED  BY <2>1, <2>2

(* A message without a ClOrdID opens no family and links none.             *)
LEMMA UnseenLinks ==
  ASSUME NEW rho, Linked(rho), seen \in Seq(Entry), NEW e, e.msg \in Message,
         e.msg.clordid = None, seen' = Append(seen, e)
  PROVE  SeenIds' = SeenIds /\ Linked(rho)'
<1>1. SeenIds' = SeenIds
  <2>1. PICK n : n = Len(seen) + 1
    OBVIOUS
  <2>2. SeenIds' = SeenIds \cup ({e.msg.clordid} \ {None})
    BY <2>1, NewLinks
  <2> QED  BY <2>2
<1>2. /\ \A c, d \in Ids : rho[c] = rho[d] => rho[c] = rho[d]
      /\ ~ (e.msg.clordid # None /\ e.msg.orig # None /\ e.msg.orig \in SeenIds)
  OBVIOUS
<1>3. Linked(rho)'
  BY <1>2, LinkedStep
<1> QED  BY <1>1, <1>3

LEMMA OrderIdFamily ==
  ASSUME FamilyInv, NEW m \in Message, HandleByOrderId(m)
  PROVE  Families(accs, Roots(alias), SeenIds)' /\ Linked(Roots(alias))'
<1>0. PICK rho, root : rho = Roots(alias) /\ root = order_id_to_root[m.order_id]
  OBVIOUS
<1>1. /\ ForestInv /\ TableInv /\ Families(accs, rho, SeenIds) /\ Linked(rho)
      /\ seen \in Seq(Entry) /\ IsTable(accs)
  BY <1>0 DEF FamilyInv, TableInv, ForestInv, TypeOK, IsTable
<1>2. /\ m.clordid = None /\ Attribute(m, root, accs) /\ alias' = alias
      /\ m.order_id \in DOMAIN order_id_to_root
  BY <1>0 DEF HandleByOrderId
<1>3. root \in DOMAIN accs /\ rho[root] = root /\ root \in Ids
  BY <1>0, <1>1, <1>2 DEF TableInv, OwnedBy, KeysAreRoots, IsTable
<1>4. PICK e : seen' = Append(seen, e) /\ e.msg = m
  BY <1>2, AttributeSees
<1>5. SeenIds' = SeenIds /\ Linked(rho)'
  BY <1>1, <1>2, <1>4, UnseenLinks
<1>6. /\ DOMAIN accs' = DOMAIN accs
      /\ \A r \in DOMAIN accs : accs'[r].family = accs[r].family
  <2>1. /\ DOMAIN accs' = DOMAIN accs \cup {root}
        /\ \A r \in DOMAIN accs \ {root} : accs'[r] = accs[r]
        /\ accs'[root].family =
             (IF root \in DOMAIN accs THEN accs[root].family ELSE {}) \cup {root}
               \cup ({m.clordid} \ {None})
    BY <1>1, <1>2, <1>3, AttributeFamily
  <2>2. {m.clordid} \ {None} = {} /\ root \in accs[root].family
    BY <1>1, <1>2, <1>3 DEF Families
  <2>3. accs'[root].family = accs[root].family
    BY <1>3, <2>1, <2>2
  <2> QED  BY <1>3, <2>1, <2>3
<1>7. Families(accs', rho, SeenIds)
  BY <1>1, <1>6 DEF Families
<1>8. Roots(alias)' = rho
  BY <1>0, <1>2 DEF Roots
<1> QED
  <2>1. Families(accs, Roots(alias), SeenIds)'
    BY <1>5, <1>7, <1>8
  <2>2. Linked(Roots(alias))'
    BY <1>5, <1>8
  <2> QED  BY <2>1, <2>2

LEMMA NoOrderFamily ==
  ASSUME FamilyInv, NEW m \in Message, HandleNoOrder(m)
  PROVE  Families(accs, Roots(alias), SeenIds)' /\ Linked(Roots(alias))'
<1>0. PICK rho : rho = Roots(alias)
  OBVIOUS
<1>1. Families(accs, rho, SeenIds) /\ Linked(rho) /\ seen \in Seq(Entry)
  BY <1>0 DEF FamilyInv, TableInv, ForestInv
<1>2. /\ m.clordid = None /\ alias' = alias /\ accs' = accs
      /\ seen' = Append(seen, [msg |-> m, root |-> None, counted |-> FALSE])
  BY DEF HandleNoOrder
<1>3. SeenIds' = SeenIds /\ Linked(rho)'
  BY <1>1, <1>2, UnseenLinks
<1>4. Roots(alias)' = rho
  BY <1>0, <1>2 DEF Roots
<1>5. Families(accs', rho, SeenIds)
  BY <1>1, <1>2
<1> QED
  <2>1. Families(accs, Roots(alias), SeenIds)'
    BY <1>3, <1>4, <1>5
  <2>2. Linked(Roots(alias))'
    BY <1>3, <1>4
  <2> QED  BY <2>1, <2>2

LEMMA FamilyInvInit ==
  ASSUME Init
  PROVE  FamilyInv
<1>1. TableInv
  BY TableInvInit
<1>2. accs = << >> /\ alias = << >> /\ seen = << >> /\ DOMAIN << >> = {}
  BY DEF Init
<1>3. SeenIds = {} /\ LinkSet = {}
  BY <1>2 DEF SeenIds, LinkSet
<1> DEFINE id == [c \in Ids |-> c]
<1>4. Roots(alias) = id
  <2>1. IsForest(alias, id) /\ id \in [Ids -> Ids]
    BY <1>2 DEF IsForest
  <2> QED  BY <2>1, RootsAre
<1>5. Families(accs, id, SeenIds)
  BY <1>2, <1>3 DEF Families
<1>6. Linked(id)
  BY <1>3 DEF Linked
<1> QED  BY <1>1, <1>4, <1>5, <1>6 DEF FamilyInv

LEMMA FamilyInvStep ==
  ASSUME FamilyInv, [Next]_vars
  PROVE  FamilyInv'
<1>1. TableInv'
  BY TableInvStep DEF FamilyInv
<1>2. CASE UNCHANGED vars
  <2>1. Families(accs, Roots(alias), SeenIds)'
    BY <1>2 DEF FamilyInv, SeenIds, Roots, vars, Families
  <2>2. Linked(Roots(alias))'
    BY <1>2 DEF FamilyInv, Linked, LinkSet, LinkClosed, LinkedBy, SeenIds, Roots, vars
  <2> QED  BY <1>1, <2>1, <2>2 DEF FamilyInv
<1>3. Messages \subseteq Message
  BY ConstantsAssumption
<1>4. CASE Next
  <2>1. PICK m \in Message :
          HandleBound(m) \/ HandleUnion(m) \/ HandleByOrderId(m) \/ HandleNoOrder(m)
    BY <1>3, <1>4 DEF Next, handle_message
  <2> QED
    BY <1>1, <2>1, BoundFamily, UnionFamily, OrderIdFamily, NoOrderFamily DEF FamilyInv
<1> QED  BY <1>2, <1>4

LEMMA ConnectedIsTree ==
  ASSUME seen \in Seq(Entry), NEW rho, Linked(rho), NEW c \in Ids, NEW d \in Ids
  PROVE  Connected(c, d) <=> rho[c] = rho[d]
<1>1. \A S \in SUBSET Ids : LinkClosed(S) <=>
        \A i \in {j \in DOMAIN seen : seen[j].msg.orig # None /\ LinkedBy(j)} :
          seen[i].msg.clordid \in S <=> seen[i].msg.orig \in S
  BY DEF LinkClosed, LinkSet
<1>2. Connected(c, d) <=> \A S \in SUBSET Ids : c \in S /\ LinkClosed(S) => d \in S
  BY <1>1 DEF Connected
<1>3. ASSUME Connected(c, d) PROVE rho[c] = rho[d]
  <2> DEFINE S == {e \in Ids : rho[e] = rho[c]}
  <2>1. S \in SUBSET Ids /\ c \in S
    OBVIOUS
  <2>2. LinkClosed(S)
    BY LinkIds DEF LinkClosed, Linked
  <2>3. d \in S
    <3> HIDE DEF S
    <3> QED  BY <1>2, <1>3, <2>1, <2>2
  <2> QED  BY <2>3
<1>4. ASSUME rho[c] = rho[d] PROVE Connected(c, d)
  BY <1>2, <1>4 DEF Linked
<1> QED  BY <1>3, <1>4

LEMMA FamilyInvImplies ==
  ASSUME FamilyInv
  PROVE  FamiliesAreLinked
<1>0. PICK rho : rho = Roots(alias)
  OBVIOUS
<1>1. /\ Families(accs, rho, SeenIds) /\ Linked(rho) /\ SeenIds \subseteq Ids
      /\ seen \in Seq(Entry) /\ \A r \in DOMAIN accs : rho[r] = r
  BY <1>0, SeenIdsType DEF FamilyInv, TableInv, ForestInv, OwnedBy, KeysAreRoots
<1>2. ASSUME NEW c \in SeenIds, NEW d \in SeenIds
      PROVE  Cardinality({r \in DOMAIN accs : {c, d} \subseteq accs[r].family})
               = IF Connected(c, d) THEN 1 ELSE 0
  <2> DEFINE rows == {r \in DOMAIN accs : {c, d} \subseteq accs[r].family}
  <2>1. c \in Ids /\ d \in Ids /\ rho[c] \in DOMAIN accs
    BY <1>1 DEF Families
  <2>2. \A r \in DOMAIN accs : {c, d} \subseteq accs[r].family <=> rho[c] = r /\ rho[d] = r
    BY <1>1, <2>1 DEF Families
  <2>3. CASE Connected(c, d)
    <3>1. rho[c] = rho[d]
      BY <1>1, <2>1, <2>3, ConnectedIsTree
    <3>2. rows = {rho[c]}
      BY <2>1, <2>2, <3>1
    <3> QED  BY <2>3, <3>2, FS_Singleton
  <2>4. CASE ~ Connected(c, d)
    <3>1. rho[c] # rho[d]
      BY <1>1, <2>1, <2>4, ConnectedIsTree
    <3>2. rows = {}
      BY <2>2, <3>1
    <3> QED  BY <2>4, <3>2, FS_EmptySet
  <2> QED  BY <2>3, <2>4
<1>3. ASSUME NEW r \in DOMAIN accs PROVE accs[r].family \cap SeenIds # {}
  <2>1. r \in Ids /\ rho[r] = r
    BY <1>1 DEF Families
  <2>2. r \in accs[r].family /\ r \in SeenIds
    BY <1>1, <2>1 DEF Families
  <2> QED  BY <2>2
<1> QED  BY <1>2, <1>3 DEF FamiliesAreLinked

(* The rows are the families that the messages link, for any messages: two *)
(* ClOrdIDs are in one row, and in one only, exactly when a chain of       *)
(* messages connects them; and no row is without a ClOrdID seen.           *)
THEOREM FamiliesLinked == Spec => []FamiliesAreLinked
<1>1. Init => FamilyInv
  BY FamilyInvInit
<1>2. FamilyInv /\ [Next]_vars => FamilyInv'
  BY FamilyInvStep
<1>3. FamilyInv => FamiliesAreLinked
  BY FamilyInvImplies
<1> QED  BY <1>1, <1>2, <1>3, PTL DEF Spec

-----------------------------------------------------------------------------
(* The total of the amounts of a set of messages is a fold that chooses    *)
(* them one by one; it does not depend on what it chooses.                 *)

(* Among sets of subsets of a finite set there is one without a smaller.   *)
LEMMA LeastSubset ==
  ASSUME NEW S, IsFiniteSet(S), NEW B, B \subseteq SUBSET S, B # {}
  PROVE  \E s \in B : \A t \in SUBSET s : t # s => t \notin B
<1>1. IsWellFoundedOn(StrictSubsetOrdering(S), SUBSET S)
  BY FS_StrictSubsetOrderingWellFounded, FS_FiniteSubsetsOfFinite
<1>2. PICK s \in B : \A t \in B : ~ (<<t, s>> \in StrictSubsetOrdering(S))
  BY <1>1, WFMin
<1>3. \A t \in B : t \subseteq s => t = s
  BY <1>2 DEF StrictSubsetOrdering
<1> QED  BY <1>3

(* The notional of the entries of log at the indices of S.                 *)
Total(log, S) == MapThenSumSet(LAMBDA i : log[i].msg.amount, S)

Pick(s) == CHOOSE x \in s : TRUE

(* iter of MapThenFoldSet, over the subsets of S.                          *)
IsIter(log, g, S) ==
  g = [s \in SUBSET S |-> IF s = {} THEN 0 ELSE log[Pick(s)].msg.amount + g[s \ {Pick(s)}]]

LEMMA TotalIs ==
  ASSUME NEW log, NEW S
  PROVE  Total(log, S) = (CHOOSE g : IsIter(log, g, S))[S]
BY DEF Total, MapThenSumSet, MapThenFoldSet, IsIter, Pick

LEMMA PickIsIn ==
  ASSUME NEW s, s # {}
  PROVE  Pick(s) \in s
BY DEF Pick

LEMMA IterValue ==
  ASSUME NEW log, NEW g, NEW S, IsIter(log, g, S), NEW s \in SUBSET S
  PROVE  g[s] = IF s = {} THEN 0 ELSE log[Pick(s)].msg.amount + g[s \ {Pick(s)}]
<1> DEFINE h == [t \in SUBSET S |-> IF t = {} THEN 0 ELSE log[Pick(t)].msg.amount + g[t \ {Pick(t)}]]
<1>1. g = h
  BY DEF IsIter
<1>2. h[s] = IF s = {} THEN 0 ELSE log[Pick(s)].msg.amount + g[s \ {Pick(s)}]
  OBVIOUS
<1> HIDE DEF h
<1> QED  BY <1>1, <1>2

LEMMA IterUnique ==
  ASSUME NEW log, NEW S, IsFiniteSet(S), NEW T, NEW g, NEW h,
         IsIter(log, g, S), IsIter(log, h, T), NEW s, s \subseteq S, s \subseteq T
  PROVE  g[s] = h[s]
<1> DEFINE B == {t \in SUBSET S : t \subseteq T /\ g[t] # h[t]}
<1>1. ASSUME B # {} PROVE FALSE
  <2>1. PICK t \in B : \A u \in SUBSET t : u # t => u \notin B
    <3>1. B \subseteq SUBSET S
      OBVIOUS
    <3> HIDE DEF B
    <3> QED  BY <1>1, <3>1, LeastSubset
  <2> DEFINE u == t \ {Pick(t)}
  <2>2. /\ g[t] = IF t = {} THEN 0 ELSE log[Pick(t)].msg.amount + g[u]
        /\ h[t] = IF t = {} THEN 0 ELSE log[Pick(t)].msg.amount + h[u]
    BY <2>1, IterValue
  <2>3. t # {} /\ g[u] # h[u]
    BY <2>1, <2>2
  <2>4. u \in SUBSET t /\ u # t
    BY <2>3, PickIsIn
  <2> QED  BY <2>1, <2>3, <2>4
<1> QED  BY <1>1

LEMMA IterExists ==
  ASSUME NEW log, NEW S, IsFiniteSet(S)
  PROVE  \E g : IsIter(log, g, S)
<1> DEFINE B == {s \in SUBSET S : ~ \E g : IsIter(log, g, s)}
<1>1. ASSUME B # {} PROVE FALSE
  <2>1. PICK s \in B : \A t \in SUBSET s : t # s => t \notin B
    <3>1. B \subseteq SUBSET S
      OBVIOUS
    <3> HIDE DEF B
    <3> QED  BY <1>1, <3>1, LeastSubset
  <2> DEFINE iter(t) == CHOOSE h : IsIter(log, h, t)
             val(t) == iter(t)[t]
             g == [t \in SUBSET s |->
                     IF t = {} THEN 0 ELSE log[Pick(t)].msg.amount + val(t \ {Pick(t)})]
  <2>2. ASSUME NEW t \in SUBSET s, t # s PROVE IsIter(log, iter(t), t) /\ IsFiniteSet(t)
    <3>1. IsFiniteSet(t)
      BY FS_Subset
    <3>2. \E h : IsIter(log, h, t)
      BY <2>1, <2>2
    <3> QED  BY <3>1, <3>2
  <2>3. ASSUME NEW t \in SUBSET s, t # s PROVE g[t] = val(t)
    <3>1. IsIter(log, iter(t), t)
      BY <2>2, <2>3
    <3>2. val(t) = IF t = {} THEN 0 ELSE log[Pick(t)].msg.amount + iter(t)[t \ {Pick(t)}]
      <4> HIDE DEF iter
      <4> QED  BY <3>1, IterValue
    <3>3. ASSUME t # {} PROVE iter(t)[t \ {Pick(t)}] = val(t \ {Pick(t)})
      <4> DEFINE u == t \ {Pick(t)}
      <4>1. u \in SUBSET s /\ u # s /\ u \subseteq t
        BY <2>3, <3>3, PickIsIn
      <4>2. IsIter(log, iter(u), u) /\ IsFiniteSet(t) /\ IsFiniteSet(u)
        BY <2>2, <2>3, <4>1
      <4> HIDE DEF iter, u
      <4>3. iter(t)[u] = iter(u)[u]
        BY <3>1, <4>1, <4>2, IterUnique
      <4> QED  BY <4>3 DEF u
    <3>4. g[t] = IF t = {} THEN 0 ELSE log[Pick(t)].msg.amount + val(t \ {Pick(t)})
      OBVIOUS
    <3> HIDE DEF val, iter, g
    <3> QED  BY <3>2, <3>3, <3>4
  <2>4. g = [t \in SUBSET s |-> IF t = {} THEN 0 ELSE log[Pick(t)].msg.amount + g[t \ {Pick(t)}]]
    <3>1. ASSUME NEW t \in SUBSET s, t # {} PROVE g[t \ {Pick(t)}] = val(t \ {Pick(t)})
      <4>1. t \ {Pick(t)} \in SUBSET s /\ t \ {Pick(t)} # s
        BY <3>1, PickIsIn
      <4> HIDE DEF val, g
      <4> QED  BY <2>3, <4>1
    <3> DEFINE h == [t \in SUBSET s |->
                       IF t = {} THEN 0 ELSE log[Pick(t)].msg.amount + g[t \ {Pick(t)}]]
    <3>2. \A t \in SUBSET s : g[t] = h[t]
      <4> SUFFICES ASSUME NEW t \in SUBSET s PROVE g[t] = h[t]
        OBVIOUS
      <4>1. h[t] = IF t = {} THEN 0 ELSE log[Pick(t)].msg.amount + g[t \ {Pick(t)}]
        <5> HIDE DEF g
        <5> QED  OBVIOUS
      <4>2. g[t] = IF t = {} THEN 0 ELSE log[Pick(t)].msg.amount + val(t \ {Pick(t)})
        <5> HIDE DEF val
        <5> QED  OBVIOUS
      <4> HIDE DEF g, h, val
      <4> QED  BY <3>1, <4>1, <4>2
    <3>3. g = [t \in SUBSET s |-> g[t]] /\ h = [t \in SUBSET s |-> h[t]]
      OBVIOUS
    <3>4. g = h
      <4> HIDE DEF g, h
      <4> QED  BY <3>2, <3>3
    <3> QED  BY <3>4
  <2>5. IsIter(log, g, s)
    <3> HIDE DEF g
    <3> QED  BY <2>4 DEF IsIter
  <2> HIDE DEF g
  <2> QED  BY <2>1, <2>5
<1>2. S \in SUBSET S
  OBVIOUS
<1> QED  BY <1>1, <1>2

LEMMA TotalUnfolds ==
  ASSUME NEW log, NEW S, IsFiniteSet(S)
  PROVE  Total(log, S) =
           IF S = {} THEN 0 ELSE log[Pick(S)].msg.amount + Total(log, S \ {Pick(S)})
<1> DEFINE T == S \ {Pick(S)}
<1>1. PICK g : g = CHOOSE h : IsIter(log, h, S)
  OBVIOUS
<1>2. PICK h : h = CHOOSE k : IsIter(log, k, T)
  OBVIOUS
<1>3. IsFiniteSet(T) /\ T \subseteq S
  BY FS_Difference
<1> HIDE DEF T
<1>4. IsIter(log, g, S) /\ IsIter(log, h, T)
  BY <1>1, <1>2, <1>3, IterExists
<1>5. Total(log, S) = g[S] /\ Total(log, T) = h[T]
  BY <1>1, <1>2, TotalIs
<1>6. g[S] = IF S = {} THEN 0 ELSE log[Pick(S)].msg.amount + g[T]
  BY <1>4, IterValue DEF T
<1>7. g[T] = h[T]
  BY <1>3, <1>4, IterUnique
<1> QED  BY <1>5, <1>6, <1>7 DEF T

LEMMA TotalOfNone ==
  ASSUME NEW log
  PROVE  Total(log, {}) = 0
BY TotalUnfolds, FS_EmptySet

LEMMA TotalType ==
  ASSUME NEW log, NEW S, IsFiniteSet(S), \A i \in S : log[i].msg.amount \in Nat
  PROVE  Total(log, S) \in Nat
<1> DEFINE B == {s \in SUBSET S : Total(log, s) \notin Nat}
<1>1. ASSUME B # {} PROVE FALSE
  <2>1. PICK s \in B : \A t \in SUBSET s : t # s => t \notin B
    <3>1. B \subseteq SUBSET S
      OBVIOUS
    <3> HIDE DEF B
    <3> QED  BY <1>1, <3>1, LeastSubset
  <2>2. IsFiniteSet(s)
    BY <2>1, FS_Subset
  <2>3. s # {} /\ log[Pick(s)].msg.amount + Total(log, s \ {Pick(s)}) \notin Nat
    BY <2>1, <2>2, TotalUnfolds
  <2>4. Pick(s) \in s
    BY <2>3, PickIsIn
  <2>5. Total(log, s \ {Pick(s)}) \in Nat
    BY <2>1, <2>4
  <2>6. log[Pick(s)].msg.amount \in Nat
    BY <2>1, <2>4
  <2> QED  BY <2>3, <2>5, <2>6
<1> QED  BY <1>1

(* One more index adds its amount, whatever the order of the fold.         *)
LEMMA TotalAdds ==
  ASSUME NEW log, NEW S, IsFiniteSet(S), NEW x, x \notin S,
         \A i \in S \cup {x} : log[i].msg.amount \in Nat
  PROVE  Total(log, S \cup {x}) = log[x].msg.amount + Total(log, S)
<1> DEFINE U == S \cup {x}
           amt(i) == log[i].msg.amount
           B == {s \in SUBSET U : \E y \in U \ s : Total(log, s \cup {y}) # amt(y) + Total(log, s)}
<1>0. IsFiniteSet(U)
  BY FS_AddElement
<1>1. ASSUME B # {} PROVE FALSE
  <2>1. PICK s \in B : \A t \in SUBSET s : t # s => t \notin B
    <3>1. B \subseteq SUBSET U
      OBVIOUS
    <3> HIDE DEF B, U
    <3> QED  BY <1>0, <1>1, <3>1, LeastSubset
  <2>2. PICK y \in U \ s : Total(log, s \cup {y}) # amt(y) + Total(log, s)
    BY <2>1
  <2>3. s \subseteq U /\ y \in U /\ y \notin s /\ IsFiniteSet(s) /\ IsFiniteSet(s \cup {y})
    BY <1>0, <2>1, <2>2, FS_Subset, FS_AddElement
  <2> DEFINE z == Pick(s \cup {y})
             t == s \ {z}
  <2>4. z \in s \cup {y}
    BY PickIsIn
  <2>5. Total(log, s \cup {y}) = amt(z) + Total(log, (s \cup {y}) \ {z})
    BY <2>3, TotalUnfolds
  <2> HIDE DEF z
  <2>6. CASE z = y
    <3>1. (s \cup {y}) \ {z} = s
      BY <2>3, <2>6
    <3> QED  BY <2>2, <2>5, <2>6, <3>1
  <2>7. CASE z # y
    <3>1. z \in s /\ z \in U /\ y \notin t /\ z \notin t /\ t \in SUBSET s /\ t # s
      BY <2>3, <2>4, <2>7
    <3>2. (s \cup {y}) \ {z} = t \cup {y} /\ t \cup {z} = s
      BY <2>7, <3>1
    <3>3. t \notin B /\ t \in SUBSET U
      BY <2>1, <2>3, <3>1
    <3> HIDE DEF t
    <3>4. Total(log, t \cup {y}) = amt(y) + Total(log, t)
      BY <2>3, <3>1, <3>3
    <3>5. Total(log, t \cup {z}) = amt(z) + Total(log, t)
      BY <3>1, <3>3
    <3>6. amt(y) \in Nat /\ amt(z) \in Nat
      BY <2>3, <3>1
    <3>7. IsFiniteSet(t)
      BY <2>3, <3>1, FS_Subset
    <3>8. \A i \in t : amt(i) \in Nat
      BY <3>3
    <3>9. Total(log, t) \in Nat
      BY <3>7, <3>8, TotalType
    <3>10. /\ Total(log, s) = amt(z) + Total(log, t)
           /\ Total(log, s \cup {y}) = amt(z) + (amt(y) + Total(log, t))
      BY <2>5, <3>2, <3>4, <3>5
    <3> QED  BY <2>2, <3>6, <3>9, <3>10
  <2> QED  BY <2>6, <2>7
<1>2. S \in SUBSET U /\ x \in U \ S /\ S \notin B
  BY <1>1
<1> QED  BY <1>2

LEMMA TotalOfUnion ==
  ASSUME NEW log, NEW S, IsFiniteSet(S), NEW T, IsFiniteSet(T), S \cap T = {},
         \A i \in S \cup T : log[i].msg.amount \in Nat
  PROVE  Total(log, S \cup T) = Total(log, S) + Total(log, T)
<1> DEFINE B == {t \in SUBSET T : Total(log, S \cup t) # Total(log, S) + Total(log, t)}
<1>1. ASSUME B # {} PROVE FALSE
  <2>1. PICK t \in B : \A u \in SUBSET t : u # t => u \notin B
    <3>1. B \subseteq SUBSET T
      OBVIOUS
    <3> HIDE DEF B
    <3> QED  BY <1>1, <3>1, LeastSubset
  <2>2. t \subseteq T /\ Total(log, S \cup t) # Total(log, S) + Total(log, t)
    BY <2>1
  <2>3. Total(log, S) \in Nat
    BY TotalType
  <2>4. CASE t = {}
    <3>1. S \cup t = S
      BY <2>4
    <3> QED  BY <2>2, <2>3, <2>4, <3>1, TotalOfNone
  <2>5. CASE t # {}
    <3>1. PICK x \in t : TRUE
      BY <2>5
    <3> DEFINE u == t \ {x}
    <3>2. /\ u \in SUBSET t /\ u # t /\ x \notin u /\ x \notin S \cup u /\ u \cup {x} = t
          /\ (S \cup u) \cup {x} = S \cup t /\ u \in SUBSET T
      BY <2>2, <3>1
    <3>3. IsFiniteSet(u) /\ IsFiniteSet(S \cup u)
      BY <3>2, FS_Subset, FS_Union
    <3>4. Total(log, S \cup u) = Total(log, S) + Total(log, u)
      BY <2>1, <3>2
    <3> HIDE DEF u, B
    <3>5. \A i \in (S \cup u) \cup {x} : log[i].msg.amount \in Nat
      BY <2>2, <3>2
    <3>6. Total(log, u \cup {x}) = log[x].msg.amount + Total(log, u)
      BY <3>2, <3>3, <3>5, TotalAdds
    <3>7. Total(log, (S \cup u) \cup {x}) = log[x].msg.amount + Total(log, S \cup u)
      BY <3>2, <3>3, <3>5, TotalAdds
    <3>8. log[x].msg.amount \in Nat /\ Total(log, u) \in Nat
      BY <3>3, <3>5, TotalType
    <3>9. /\ Total(log, t) = log[x].msg.amount + Total(log, u)
          /\ Total(log, S \cup t) = log[x].msg.amount + (Total(log, S) + Total(log, u))
      BY <3>2, <3>4, <3>6, <3>7
    <3> QED  BY <2>2, <2>3, <3>8, <3>9
  <2> QED  BY <2>4, <2>5
<1> QED  BY <1>1

(* The total is of the entries of its indices only.                        *)
LEMMA TotalOfSame ==
  ASSUME NEW log, NEW new, NEW S, IsFiniteSet(S), \A i \in S : new[i] = log[i]
  PROVE  Total(new, S) = Total(log, S)
<1> DEFINE B == {s \in SUBSET S : Total(new, s) # Total(log, s)}
<1>1. ASSUME B # {} PROVE FALSE
  <2>1. PICK s \in B : \A t \in SUBSET s : t # s => t \notin B
    <3>1. B \subseteq SUBSET S
      OBVIOUS
    <3> HIDE DEF B
    <3> QED  BY <1>1, <3>1, LeastSubset
  <2>2. IsFiniteSet(s)
    BY <2>1, FS_Subset
  <2>3. /\ Total(new, s) = IF s = {} THEN 0 ELSE new[Pick(s)].msg.amount + Total(new, s \ {Pick(s)})
        /\ Total(log, s) = IF s = {} THEN 0 ELSE log[Pick(s)].msg.amount + Total(log, s \ {Pick(s)})
    BY <2>2, TotalUnfolds
  <2>4. s # {}
    BY <2>1, <2>3
  <2>5. Pick(s) \in s
    BY <2>4, PickIsIn
  <2>6. Total(new, s \ {Pick(s)}) = Total(log, s \ {Pick(s)})
    BY <2>1, <2>5
  <2>7. new[Pick(s)] = log[Pick(s)]
    BY <2>1, <2>5
  <2>8. Total(new, s) = Total(log, s)
    BY <2>3, <2>4, <2>6, <2>7
  <2> QED  BY <2>1, <2>8
<1> QED  BY <1>1

-----------------------------------------------------------------------------
(* A row and the messages it is of: at has the indices in log of all the   *)
(* messages of the row acc.                                                *)

Counted(log, at) == {i \in at : log[i].counted}

CumQtys(log, at) == {log[i].msg.cum_qty : i \in {j \in at : Report(log[j].msg)}} \ {None}

Times(log, at) == {log[i].msg.sending_time : i \in at} \ {None}

Statuses(log, at) == {i \in at : log[i].msg.status # None /\ Report(log[i].msg)}

Quantities(log, at) == {i \in at : log[i].msg.order_qty # None /\ log[i].msg.kind = "request"}

Symbols(log, at) == {i \in at : log[i].msg.symbol # None}

LatestOf(log, at) == {i \in at : \A j \in at : log[j].root = log[i].root => j <= i}

EarliestOf(log, at) == {i \in at : \A j \in at : log[j].root = log[i].root => i <= j}

(* v is the greatest, or the least, value of S, and None if S is empty.    *)
Greatest(v, S) == IF S = {} THEN v = None ELSE v \in S /\ \A w \in S : w <= v

Least(v, S) == IF S = {} THEN v = None ELSE v \in S /\ \A w \in S : v <= w

ChosenIn(log, value, at, tag) ==
  IF at = {} THEN value = None ELSE \E i \in at : value = log[i].msg[tag]

Sums(log, at, acc) ==
  /\ acc.fills = Cardinality(Counted(log, at))
  /\ acc.notional = Total(log, Counted(log, at))
  /\ Greatest(acc.cum_qty, CumQtys(log, at) \cup {0})
  /\ Least(acc.first_seen, Times(log, at))
  /\ Greatest(acc.last_seen, Times(log, at))

Chooses(log, at, acc) ==
  /\ ChosenIn(log, acc.final_ord_status, LatestOf(log, Statuses(log, at)), "status")
  /\ ChosenIn(log, acc.order_qty, LatestOf(log, Quantities(log, at)), "order_qty")
  /\ ChosenIn(log, acc.symbol, EarliestOf(log, Symbols(log, at)), "symbol")

(* The entries at the indices, and no fill is counted without an amount.   *)
Entries(log, at) ==
  /\ IsFiniteSet(at) /\ at \subseteq Nat
  /\ \A i \in at : log[i] \in Entry /\ (log[i].counted => log[i].msg.amount \in Nat)

LEMMA GreatestJoins ==
  ASSUME NEW S, S \subseteq Nat, NEW T, T \subseteq Nat, NEW a, Greatest(a, S),
         NEW b, Greatest(b, T)
  PROVE  Greatest(greater(a, b), S \cup T)
<1>1. CASE S = {}
  BY <1>1, NoneIsNoValue DEF Greatest, greater
<1>2. CASE T = {}
  BY <1>2, NoneIsNoValue DEF Greatest, greater
<1>3. CASE S # {} /\ T # {}
  <2>1. a \in Nat /\ b \in Nat /\ a # None /\ b # None
    BY <1>3, NoneIsNoValue DEF Greatest
  <2>2. greater(a, b) = IF b > a THEN b ELSE a
    BY <2>1 DEF greater
  <2>3. \A w \in S \cup T : w \in Nat /\ (w <= a \/ w <= b)
    BY <1>3 DEF Greatest
  <2>4. a \in S /\ b \in T
    BY <1>3 DEF Greatest
  <2>5. greater(a, b) \in S \cup T /\ \A w \in S \cup T : w <= greater(a, b)
    BY <2>1, <2>2, <2>3, <2>4
  <2> QED  BY <1>3, <2>5 DEF Greatest
<1> QED  BY <1>1, <1>2, <1>3

LEMMA LeastJoins ==
  ASSUME NEW S, S \subseteq Nat, NEW T, T \subseteq Nat, NEW a, Least(a, S),
         NEW b, Least(b, T)
  PROVE  Least(lesser(a, b), S \cup T)
<1>1. CASE S = {}
  BY <1>1, NoneIsNoValue DEF Least, lesser
<1>2. CASE T = {}
  BY <1>2, NoneIsNoValue DEF Least, lesser
<1>3. CASE S # {} /\ T # {}
  <2>1. a \in Nat /\ b \in Nat /\ a # None /\ b # None
    BY <1>3, NoneIsNoValue DEF Least
  <2>2. lesser(a, b) = IF b < a THEN b ELSE a
    BY <2>1 DEF lesser
  <2>3. \A w \in S \cup T : w \in Nat /\ (a <= w \/ b <= w)
    BY <1>3 DEF Least
  <2>4. a \in S /\ b \in T
    BY <1>3 DEF Least
  <2>5. lesser(a, b) \in S \cup T /\ \A w \in S \cup T : lesser(a, b) <= w
    BY <2>1, <2>2, <2>3, <2>4
  <2> QED  BY <1>3, <2>5 DEF Least
<1> QED  BY <1>1, <1>2, <1>3

LEMMA OneIsGreatest ==
  ASSUME NEW v \in Or(Nat)
  PROVE  Greatest(v, {v} \ {None}) /\ Least(v, {v} \ {None}) /\ {v} \ {None} \subseteq Nat
BY DEF Greatest, Least, Or

LEMMA ChosenJoins ==
  ASSUME NEW log, NEW tag, NEW A, NEW B, \A i \in A \cup B : log[i].msg[tag] # None,
         NEW a, ChosenIn(log, a, A, tag), NEW b, ChosenIn(log, b, B, tag)
  PROVE  ChosenIn(log, or(a, b), A \cup B, tag)
BY DEF ChosenIn, or

LEMMA NumbersOfRow ==
  ASSUME NEW log, NEW at, Entries(log, at)
  PROVE  /\ CumQtys(log, at) \subseteq Nat /\ Times(log, at) \subseteq Nat
         /\ IsFiniteSet(Counted(log, at)) /\ \A i \in Counted(log, at) : log[i].msg.amount \in Nat
<1>1. \A i \in at : log[i].msg \in Message
  BY DEF Entries, Entry
<1>2. \A i \in at : log[i].msg.cum_qty \in Or(Nat) /\ log[i].msg.sending_time \in Or(Nat)
  BY <1>1, MessageFields
<1>3. CumQtys(log, at) \subseteq Nat /\ Times(log, at) \subseteq Nat
  BY <1>2 DEF CumQtys, Times, Or
<1>4. Counted(log, at) \in SUBSET at
  BY DEF Counted
<1> QED  BY <1>3, <1>4, FS_Subset DEF Entries, Counted

-----------------------------------------------------------------------------
(* A row without messages, the row of the same messages in a longer log,   *)
(* the row of two rows, and the row with one more message.                 *)

LEMMA RowOfNone ==
  ASSUME NEW log
  PROVE  Sums(log, {}, default) /\ Chooses(log, {}, default)
<1>1. /\ Counted(log, {}) = {} /\ CumQtys(log, {}) = {} /\ Times(log, {}) = {}
      /\ LatestOf(log, Statuses(log, {})) = {} /\ LatestOf(log, Quantities(log, {})) = {}
      /\ EarliestOf(log, Symbols(log, {})) = {}
  BY DEF Counted, CumQtys, Times, LatestOf, EarliestOf, Statuses, Quantities, Symbols
<1>2. Sums(log, {}, default)
  BY <1>1, FS_EmptySet, TotalOfNone DEF Sums, default, Greatest, Least
<1>3. Chooses(log, {}, default)
  BY <1>1 DEF Chooses, default, ChosenIn
<1> QED  BY <1>2, <1>3

LEMMA RowOfSame ==
  ASSUME NEW log, NEW at, Entries(log, at), NEW new, \A i \in at : new[i] = log[i], NEW acc
  PROVE  /\ Sums(log, at, acc) => Sums(new, at, acc)
         /\ Chooses(log, at, acc) => Chooses(new, at, acc)
<1>1. Counted(new, at) = Counted(log, at)
  BY DEF Counted
<1>2. Total(new, Counted(log, at)) = Total(log, Counted(log, at))
  <2>1. IsFiniteSet(Counted(log, at)) /\ \A i \in Counted(log, at) : new[i] = log[i]
    BY NumbersOfRow DEF Counted
  <2> QED  BY <2>1, TotalOfSame
<1>3. CumQtys(new, at) = CumQtys(log, at)
  BY DEF CumQtys
<1>4. Times(new, at) = Times(log, at)
  BY DEF Times
<1>5. /\ Statuses(new, at) = Statuses(log, at) /\ Quantities(new, at) = Quantities(log, at)
      /\ Symbols(new, at) = Symbols(log, at)
  BY DEF Statuses, Quantities, Symbols
<1>6. ASSUME NEW S \in SUBSET at
      PROVE  LatestOf(new, S) = LatestOf(log, S) /\ EarliestOf(new, S) = EarliestOf(log, S)
  BY DEF LatestOf, EarliestOf
<1>7. ASSUME NEW S \in SUBSET at, NEW v, NEW tag, ChosenIn(log, v, S, tag)
      PROVE  ChosenIn(new, v, S, tag)
  BY <1>7 DEF ChosenIn
<1>8. /\ Statuses(log, at) \in SUBSET at /\ Quantities(log, at) \in SUBSET at
      /\ Symbols(log, at) \in SUBSET at
  BY DEF Statuses, Quantities, Symbols
<1>9. \A S \in SUBSET at : LatestOf(log, S) \in SUBSET at /\ EarliestOf(log, S) \in SUBSET at
  BY DEF LatestOf, EarliestOf
<1>10. Sums(log, at, acc) => Sums(new, at, acc)
  BY <1>1, <1>2, <1>3, <1>4 DEF Sums
<1>11. Chooses(log, at, acc) => Chooses(new, at, acc)
  BY <1>5, <1>6, <1>7, <1>8, <1>9 DEF Chooses
<1> QED  BY <1>10, <1>11

LEMMA MergeSums ==
  ASSUME NEW log, NEW A, Entries(log, A), NEW B, Entries(log, B), A \cap B = {},
         NEW acc \in OrderAcc, Sums(log, A, acc), NEW other \in OrderAcc, Sums(log, B, other)
  PROVE  Sums(log, A \cup B, merge_from(acc, other))
<1>0. /\ Counted(log, A \cup B) = Counted(log, A) \cup Counted(log, B)
      /\ CumQtys(log, A \cup B) = CumQtys(log, A) \cup CumQtys(log, B)
      /\ Times(log, A \cup B) = Times(log, A) \cup Times(log, B)
  <2>1. Counted(log, A \cup B) = Counted(log, A) \cup Counted(log, B)
    BY DEF Counted
  <2>2. CumQtys(log, A \cup B) = CumQtys(log, A) \cup CumQtys(log, B)
    BY DEF CumQtys
  <2>3. Times(log, A \cup B) = Times(log, A) \cup Times(log, B)
    BY DEF Times
  <2> QED  BY <2>1, <2>2, <2>3
<1>1. PICK u : u = merge_from(acc, other)
  OBVIOUS
<1>2. /\ u.fills = acc.fills + other.fills /\ u.notional = acc.notional + other.notional
      /\ u.cum_qty = greater(acc.cum_qty, other.cum_qty)
      /\ u.first_seen = lesser(acc.first_seen, other.first_seen)
      /\ u.last_seen = greater(acc.last_seen, other.last_seen)
  BY <1>1 DEF merge_from, OrderAcc
<1> DEFINE CA == Counted(log, A)
           CB == Counted(log, B)
<1>3. /\ IsFiniteSet(CA) /\ IsFiniteSet(CB) /\ CA \cap CB = {}
      /\ \A i \in CA \cup CB : log[i].msg.amount \in Nat
      /\ Counted(log, A \cup B) = CA \cup CB
  <2>1. CA \cap CB = {}
    BY DEF Counted
  <2> QED  BY <2>1, <1>0, NumbersOfRow
<1> HIDE DEF CA, CB
<1>4. u.fills = Cardinality(CA \cup CB)
  <2>1. Cardinality(CA) \in Nat /\ Cardinality(CB) \in Nat
    BY <1>3, FS_CardinalityType
  <2>2. Cardinality(CA \cup CB) = Cardinality(CA) + Cardinality(CB) - Cardinality({})
    BY <1>3, FS_Union
  <2>3. acc.fills = Cardinality(CA) /\ other.fills = Cardinality(CB)
    BY DEF Sums, CA, CB
  <2> QED  BY <1>2, <2>1, <2>2, <2>3, FS_EmptySet
<1>5. u.notional = Total(log, CA \cup CB)
  <2>1. acc.notional = Total(log, CA) /\ other.notional = Total(log, CB)
    BY DEF Sums, CA, CB
  <2> QED  BY <1>2, <1>3, <2>1, TotalOfUnion
<1>6. Greatest(u.cum_qty, CumQtys(log, A \cup B) \cup {0})
  <2> DEFINE S == CumQtys(log, A) \cup {0}
             T == CumQtys(log, B) \cup {0}
  <2>1. S \subseteq Nat /\ T \subseteq Nat
    BY NumbersOfRow
  <2>2. Greatest(acc.cum_qty, S) /\ Greatest(other.cum_qty, T)
    BY DEF Sums
  <2>3. CumQtys(log, A \cup B) \cup {0} = S \cup T
    BY <1>0
  <2> HIDE DEF S, T
  <2>4. Greatest(greater(acc.cum_qty, other.cum_qty), S \cup T)
    BY <2>1, <2>2, GreatestJoins
  <2> QED  BY <1>2, <2>3, <2>4
<1>7. /\ Least(u.first_seen, Times(log, A \cup B))
      /\ Greatest(u.last_seen, Times(log, A \cup B))
  <2>1. Times(log, A) \subseteq Nat /\ Times(log, B) \subseteq Nat
    BY NumbersOfRow
  <2>2. /\ Least(acc.first_seen, Times(log, A)) /\ Least(other.first_seen, Times(log, B))
        /\ Greatest(acc.last_seen, Times(log, A)) /\ Greatest(other.last_seen, Times(log, B))
    BY DEF Sums
  <2>3. Times(log, A \cup B) = Times(log, A) \cup Times(log, B)
    BY <1>0
  <2> QED  BY <1>2, <2>1, <2>2, <2>3, GreatestJoins, LeastJoins
<1>8. Sums(log, A \cup B, u)
  BY <1>3, <1>4, <1>5, <1>6, <1>7 DEF Sums
<1> QED  BY <1>1, <1>8

LEMMA MergeChooses ==
  ASSUME NEW log, NEW A, NEW B, \A i \in A, j \in B : log[i].root # log[j].root,
         NEW acc \in OrderAcc, Chooses(log, A, acc),
         NEW other \in OrderAcc, Chooses(log, B, other)
  PROVE  Chooses(log, A \cup B, merge_from(acc, other))
<1>0. /\ Statuses(log, A \cup B) = Statuses(log, A) \cup Statuses(log, B)
      /\ Quantities(log, A \cup B) = Quantities(log, A) \cup Quantities(log, B)
      /\ Symbols(log, A \cup B) = Symbols(log, A) \cup Symbols(log, B)
  BY DEF Statuses, Quantities, Symbols
<1>1. PICK u : u = merge_from(acc, other)
  OBVIOUS
<1>2. /\ u.symbol = or(acc.symbol, other.symbol)
      /\ u.order_qty = or(acc.order_qty, other.order_qty)
      /\ u.final_ord_status = or(other.final_ord_status, acc.final_ord_status)
  BY <1>1 DEF merge_from, OrderAcc
<1>3. ChosenIn(log, u.final_ord_status, LatestOf(log, Statuses(log, A \cup B)), "status")
  <2> DEFINE S == LatestOf(log, Statuses(log, A))
             T == LatestOf(log, Statuses(log, B))
  <2>1. LatestOf(log, Statuses(log, A \cup B)) = T \cup S
    <3>1. \A i \in Statuses(log, A), j \in Statuses(log, B) : log[i].root # log[j].root
      BY DEF Statuses
    <3> QED  BY <1>0, <3>1 DEF LatestOf
  <2>2. ChosenIn(log, acc.final_ord_status, S, "status")
    BY DEF Chooses
  <2>3. ChosenIn(log, other.final_ord_status, T, "status")
    BY DEF Chooses
  <2>4. \A i \in T \cup S : log[i].msg["status"] # None
    BY DEF LatestOf, Statuses
  <2> HIDE DEF S, T
  <2> QED  BY <1>2, <2>1, <2>2, <2>3, <2>4, ChosenJoins
<1>4. ChosenIn(log, u.order_qty, LatestOf(log, Quantities(log, A \cup B)), "order_qty")
  <2> DEFINE S == LatestOf(log, Quantities(log, A))
             T == LatestOf(log, Quantities(log, B))
  <2>1. LatestOf(log, Quantities(log, A \cup B)) = S \cup T
    <3>1. \A i \in Quantities(log, A), j \in Quantities(log, B) : log[i].root # log[j].root
      BY DEF Quantities
    <3> QED  BY <1>0, <3>1 DEF LatestOf
  <2>2. ChosenIn(log, acc.order_qty, S, "order_qty")
    BY DEF Chooses
  <2>3. ChosenIn(log, other.order_qty, T, "order_qty")
    BY DEF Chooses
  <2>4. \A i \in S \cup T : log[i].msg["order_qty"] # None
    BY DEF LatestOf, Quantities
  <2> HIDE DEF S, T
  <2>5. ChosenIn(log, or(acc.order_qty, other.order_qty), S \cup T, "order_qty")
    BY <2>2, <2>3, <2>4, ChosenJoins
  <2> QED  BY <1>2, <2>1, <2>5
<1>5. ChosenIn(log, u.symbol, EarliestOf(log, Symbols(log, A \cup B)), "symbol")
  <2> DEFINE S == EarliestOf(log, Symbols(log, A))
             T == EarliestOf(log, Symbols(log, B))
  <2>1. EarliestOf(log, Symbols(log, A \cup B)) = S \cup T
    <3>1. \A i \in Symbols(log, A), j \in Symbols(log, B) : log[i].root # log[j].root
      BY DEF Symbols
    <3> QED  BY <1>0, <3>1 DEF EarliestOf
  <2>2. ChosenIn(log, acc.symbol, S, "symbol")
    BY DEF Chooses
  <2>3. ChosenIn(log, other.symbol, T, "symbol")
    BY DEF Chooses
  <2>4. \A i \in S \cup T : log[i].msg["symbol"] # None
    BY DEF EarliestOf, Symbols
  <2> HIDE DEF S, T
  <2> QED  BY <1>2, <2>1, <2>2, <2>3, <2>4, ChosenJoins
<1>6. Chooses(log, A \cup B, u)
  BY <1>3, <1>4, <1>5 DEF Chooses
<1> QED  BY <1>1, <1>6

LEMMA AddSums ==
  ASSUME NEW log, NEW at, NEW n \in Nat, n \notin at, Entries(log, at), Entries(log, at \cup {n}),
         NEW acc \in OrderAcc, Sums(log, at, acc), NEW root,
         NEW m, m = log[n].msg, log[n].counted = Counts(acc, m)
  PROVE  Sums(log, at \cup {n}, updated(acc, root, m))
<1> DEFINE B == at \cup {n}
<1>1. PICK u : u = updated(acc, root, m)
  OBVIOUS
<1>2. /\ u.fills = (IF Counts(acc, m) THEN acc.fills + 1 ELSE acc.fills)
      /\ u.notional = (IF Counts(acc, m) THEN acc.notional + m.amount ELSE acc.notional)
      /\ u.cum_qty = (IF Report(m) THEN greater(acc.cum_qty, m.cum_qty) ELSE acc.cum_qty)
      /\ u.first_seen = lesser(acc.first_seen, m.sending_time)
      /\ u.last_seen = greater(acc.last_seen, m.sending_time)
  BY <1>1 DEF updated, OrderAcc
<1>3. log[n] \in Entry /\ m \in Message /\ log[n].counted \in BOOLEAN
  BY DEF Entries, Entry
<1>4. m.cum_qty \in Or(Nat) /\ m.sending_time \in Or(Nat) /\ acc.fills \in Nat /\ acc.notional \in Nat
  BY <1>3, MessageFields, AccFields
<1>5. /\ CumQtys(log, at) \subseteq Nat /\ Times(log, at) \subseteq Nat
      /\ IsFiniteSet(Counted(log, at)) /\ \A i \in Counted(log, at) : log[i].msg.amount \in Nat
  BY NumbersOfRow
<1>6. /\ acc.fills = Cardinality(Counted(log, at)) /\ acc.notional = Total(log, Counted(log, at))
      /\ Greatest(acc.cum_qty, CumQtys(log, at) \cup {0})
      /\ Least(acc.first_seen, Times(log, at)) /\ Greatest(acc.last_seen, Times(log, at))
  BY DEF Sums
<1>7. u.fills = Cardinality(Counted(log, B)) /\ u.notional = Total(log, Counted(log, B))
  <2>1. CASE Counts(acc, m)
    <3> DEFINE C == Counted(log, at)
    <3>1. Counted(log, B) = C \cup {n} /\ n \notin C
      BY <2>1 DEF Counted
    <3>2. m.amount \in Nat
      BY <2>1 DEF Entries
    <3>3. \A i \in C \cup {n} : log[i].msg.amount \in Nat
      BY <1>5, <3>2
    <3> HIDE DEF C, B
    <3>4. IsFiniteSet(C) /\ acc.fills = Cardinality(C) /\ acc.notional = Total(log, C)
      BY <1>5, <1>6 DEF C
    <3>5. Cardinality(C \cup {n}) = Cardinality(C) + 1
      BY <3>1, <3>4, FS_AddElement
    <3>6. Total(log, C \cup {n}) = log[n].msg.amount + Total(log, C)
      BY <3>1, <3>3, <3>4, TotalAdds
    <3>7. acc.notional + m.amount = m.amount + acc.notional
      BY <1>4, <3>2
    <3> QED  BY <1>2, <2>1, <3>1, <3>4, <3>5, <3>6, <3>7
  <2>2. CASE ~ Counts(acc, m)
    <3>1. Counted(log, B) = Counted(log, at)
      BY <2>2 DEF Counted
    <3> QED  BY <1>2, <1>6, <2>2, <3>1
  <2> QED  BY <2>1, <2>2
<1>8. Greatest(u.cum_qty, CumQtys(log, B) \cup {0})
  <2> DEFINE S == CumQtys(log, at) \cup {0}
             T == {m.cum_qty} \ {None}
  <2>1. CASE Report(m)
    <3>1. CumQtys(log, B) \cup {0} = S \cup T
      BY <2>1 DEF CumQtys
    <3>2. S \subseteq Nat /\ Greatest(acc.cum_qty, S)
      BY <1>5, <1>6
    <3>3. T \subseteq Nat /\ Greatest(m.cum_qty, T)
      BY <1>4, OneIsGreatest
    <3> HIDE DEF S, T, B
    <3>4. Greatest(greater(acc.cum_qty, m.cum_qty), S \cup T)
      BY <3>2, <3>3, GreatestJoins
    <3> QED  BY <1>2, <2>1, <3>1, <3>4
  <2>2. CASE ~ Report(m)
    <3>1. CumQtys(log, B) = CumQtys(log, at)
      BY <2>2 DEF CumQtys
    <3> QED  BY <1>2, <1>6, <2>2, <3>1
  <2> QED  BY <2>1, <2>2
<1>9. Least(u.first_seen, Times(log, B)) /\ Greatest(u.last_seen, Times(log, B))
  <2> DEFINE S == Times(log, at)
             T == {m.sending_time} \ {None}
  <2>1. Times(log, B) = S \cup T
    BY DEF Times
  <2>2. S \subseteq Nat /\ Least(acc.first_seen, S) /\ Greatest(acc.last_seen, S)
    BY <1>5, <1>6
  <2>3. T \subseteq Nat /\ Greatest(m.sending_time, T) /\ Least(m.sending_time, T)
    BY <1>4, OneIsGreatest
  <2> HIDE DEF S, T, B
  <2>4. Least(lesser(acc.first_seen, m.sending_time), S \cup T)
    BY <2>2, <2>3, LeastJoins
  <2>5. Greatest(greater(acc.last_seen, m.sending_time), S \cup T)
    BY <2>2, <2>3, GreatestJoins
  <2> QED  BY <1>2, <2>1, <2>4, <2>5
<1>10. Sums(log, B, u)
  BY <1>7, <1>8, <1>9 DEF Sums
<1> QED  BY <1>1, <1>10

LEMMA EarliestExists ==
  ASSUME NEW log, NEW at, at \subseteq Nat, at # {}
  PROVE  EarliestOf(log, at) # {}
<1> DEFINE Less == {p \in Nat \X Nat : p[1] < p[2]}
<1>1. IsWellFoundedOn(Less, Nat)
  BY NatLessThanWellFounded DEF OpToRel
<1>2. PICK x \in at : \A y \in at : ~ (<<y, x>> \in Less)
  <2> HIDE DEF Less
  <2> QED  BY <1>1, WFMin
<1>3. \A y \in at : x <= y
  <2>1. \A y \in at : ~ (y < x)
    BY <1>2
  <2> QED  BY <2>1
<1> QED  BY <1>3 DEF EarliestOf

LEMMA AddChooses ==
  ASSUME NEW log, NEW at, NEW n \in Nat, \A i \in at : i < n, Entries(log, at),
         Entries(log, at \cup {n}), NEW acc \in OrderAcc, Chooses(log, at, acc), NEW root,
         NEW m, m = log[n].msg
  PROVE  Chooses(log, at \cup {n}, updated(acc, root, m))
<1> DEFINE B == at \cup {n}
<1>0. at \subseteq Nat
  BY DEF Entries
<1>1. PICK u : u = updated(acc, root, m)
  OBVIOUS
<1>2. /\ u.final_ord_status =
           (IF Report(m) THEN or(m.status, acc.final_ord_status) ELSE acc.final_ord_status)
      /\ u.order_qty =
           (IF m.kind = "request" THEN or(m.order_qty, acc.order_qty) ELSE acc.order_qty)
      /\ u.symbol = or(acc.symbol, m.symbol)
  BY <1>1 DEF updated, OrderAcc
<1>3. /\ ChosenIn(log, acc.final_ord_status, LatestOf(log, Statuses(log, at)), "status")
      /\ ChosenIn(log, acc.order_qty, LatestOf(log, Quantities(log, at)), "order_qty")
      /\ ChosenIn(log, acc.symbol, EarliestOf(log, Symbols(log, at)), "symbol")
  BY DEF Chooses
<1>4. ChosenIn(log, u.final_ord_status, LatestOf(log, Statuses(log, B)), "status")
  <2>1. CASE Report(m) /\ m.status # None
    <3> DEFINE S == Statuses(log, at)
    <3>1. Statuses(log, B) = S \cup {n} /\ S \subseteq Nat /\ \A i \in S : i < n
      BY <1>0, <2>1 DEF Statuses
    <3>2. n \in LatestOf(log, S \cup {n})
      BY <3>1 DEF LatestOf
    <3>3. u.final_ord_status = log[n].msg["status"]
      BY <1>2, <2>1 DEF or
    <3> QED  BY <3>1, <3>2, <3>3 DEF ChosenIn
  <2>2. CASE ~ (Report(m) /\ m.status # None)
    <3>1. Statuses(log, B) = Statuses(log, at)
      BY <2>2 DEF Statuses
    <3>2. u.final_ord_status = acc.final_ord_status
      BY <1>2, <2>2 DEF or
    <3> QED  BY <1>3, <3>1, <3>2
  <2> QED  BY <2>1, <2>2
<1>5. ChosenIn(log, u.order_qty, LatestOf(log, Quantities(log, B)), "order_qty")
  <2>1. CASE m.kind = "request" /\ m.order_qty # None
    <3> DEFINE S == Quantities(log, at)
    <3>1. Quantities(log, B) = S \cup {n} /\ S \subseteq Nat /\ \A i \in S : i < n
      BY <1>0, <2>1 DEF Quantities
    <3>2. n \in LatestOf(log, S \cup {n})
      BY <3>1 DEF LatestOf
    <3>3. u.order_qty = log[n].msg["order_qty"]
      BY <1>2, <2>1 DEF or
    <3> QED  BY <3>1, <3>2, <3>3 DEF ChosenIn
  <2>2. CASE ~ (m.kind = "request" /\ m.order_qty # None)
    <3>1. Quantities(log, B) = Quantities(log, at)
      BY <2>2 DEF Quantities
    <3>2. u.order_qty = acc.order_qty
      BY <1>2, <2>2 DEF or
    <3> QED  BY <1>3, <3>1, <3>2
  <2> QED  BY <2>1, <2>2
<1>6. ChosenIn(log, u.symbol, EarliestOf(log, Symbols(log, B)), "symbol")
  <2> DEFINE S == Symbols(log, at)
  <2>1. S \subseteq Nat /\ (\A i \in S : i < n) /\ \A i \in S : log[i].msg["symbol"] # None
    BY <1>0 DEF Symbols
  <2>2. CASE m.symbol # None
    <3>1. Symbols(log, B) = S \cup {n}
      BY <2>2 DEF Symbols
    <3>2. CASE S = {}
      <4>1. EarliestOf(log, S) = {} /\ n \in EarliestOf(log, S \cup {n})
        BY <3>2 DEF EarliestOf
      <4>2. u.symbol = log[n].msg["symbol"]
        BY <1>2, <1>3, <4>1 DEF or, ChosenIn
      <4> QED  BY <3>1, <4>1, <4>2 DEF ChosenIn
    <3>3. CASE S # {}
      <4>1. PICK i \in EarliestOf(log, S) : acc.symbol = log[i].msg["symbol"]
        BY <1>3, <2>1, <3>3, EarliestExists DEF ChosenIn
      <4>2. i \in S /\ i \in EarliestOf(log, S \cup {n})
        BY <2>1, <4>1 DEF EarliestOf
      <4>3. u.symbol = log[i].msg["symbol"]
        BY <1>2, <2>1, <4>1, <4>2 DEF or
      <4> QED  BY <3>1, <4>2, <4>3 DEF ChosenIn
    <3> QED  BY <3>2, <3>3
  <2>3. CASE m.symbol = None
    <3>1. Symbols(log, B) = S
      BY <2>3 DEF Symbols
    <3>2. u.symbol = acc.symbol
      BY <1>2, <2>3 DEF or
    <3> QED  BY <1>3, <3>1, <3>2
  <2> QED  BY <2>2, <2>3
<1>7. Chooses(log, B, u)
  BY <1>4, <1>5, <1>6 DEF Chooses
<1> QED  BY <1>1, <1>7

-----------------------------------------------------------------------------
(* Each row is of the messages whose root leads to it.                     *)

Whole(log, rho, r) == {i \in 1 .. Len(log) : log[i].root # None /\ rho[log[i].root] = r}

RowsOf(log, rho, a) ==
  \A r \in Ids : /\ Sums(log, Whole(log, rho, r), entry(a, r))
                 /\ Chooses(log, Whole(log, rho, r), entry(a, r))

CountedHaveAmounts(log) == \A i \in 1 .. Len(log) : log[i].counted => log[i].msg.amount \in Nat

RowInv ==
  /\ FamilyInv
  /\ CountedHaveAmounts(seen)
  /\ RowsOf(seen, Roots(alias), accs)

LEMMA WholeEntries ==
  ASSUME NEW log \in Seq(Entry), CountedHaveAmounts(log), NEW at, at \subseteq 1 .. Len(log)
  PROVE  Entries(log, at)
<1>1. Len(log) \in Nat
  OBVIOUS
<1>2. IsFiniteSet(1 .. Len(log))
  BY <1>1, FS_Interval
<1>3. IsFiniteSet(at)
  BY <1>2, FS_Subset
<1>4. \A i \in at : log[i] \in Entry
  OBVIOUS
<1> QED  BY <1>1, <1>3, <1>4 DEF Entries, CountedHaveAmounts

(* The merge of two families sums up the messages of both.                 *)
LEMMA MergeRows ==
  ASSUME seen \in Seq(Entry), CountedHaveAmounts(seen), IsTable(accs), NEW rho \in [Ids -> Ids],
         \A i \in 1 .. Len(seen) : seen[i].root # None => seen[i].root \in Ids,
         RowsOf(seen, rho, accs),
         NEW child \in Ids, NEW parent \in DOMAIN accs, child # parent
  PROVE  RowsOf(seen, Hung(rho, child, parent), Merged(child, parent))
<1>1. PICK sigma, a, A, B :
        /\ sigma = Hung(rho, child, parent) /\ a = Merged(child, parent)
        /\ A = Whole(seen, rho, parent) /\ B = Whole(seen, rho, child)
  OBVIOUS
<1>2. /\ parent \in Ids /\ accs[parent] \in OrderAcc /\ entry(accs, child) \in OrderAcc
      /\ entry(accs, parent) = accs[parent]
  BY EntryType DEF IsTable, entry
<1>3. \A c \in Ids : sigma[c] = IF rho[c] = child THEN parent ELSE rho[c]
  BY <1>1 DEF Hung
<1>4. Whole(seen, sigma, parent) = A \cup B
  BY <1>1, <1>3 DEF Whole
<1>5. Whole(seen, sigma, child) = {}
  BY <1>1, <1>3 DEF Whole
<1>6. ASSUME NEW r \in Ids, r # parent, r # child
      PROVE  Whole(seen, sigma, r) = Whole(seen, rho, r)
  BY <1>1, <1>3, <1>6 DEF Whole
<1>7. /\ entry(a, parent) = merge_from(accs[parent], entry(accs, child))
      /\ entry(a, child) = default
      /\ \A r \in Ids : r # parent /\ r # child => entry(a, r) = entry(accs, r)
  BY <1>1 DEF Merged, entry
<1>8. Entries(seen, A) /\ Entries(seen, B) /\ A \cap B = {}
  <2>1. A \subseteq 1 .. Len(seen) /\ B \subseteq 1 .. Len(seen) /\ A \cap B = {}
    BY <1>1 DEF Whole
  <2> QED  BY <2>1, WholeEntries
<1>9. \A i \in A, j \in B : seen[i].root # seen[j].root
  BY <1>1 DEF Whole
<1>10. /\ Sums(seen, A, accs[parent]) /\ Chooses(seen, A, accs[parent])
       /\ Sums(seen, B, entry(accs, child)) /\ Chooses(seen, B, entry(accs, child))
  BY <1>1, <1>2 DEF RowsOf
<1>11. /\ Sums(seen, A \cup B, entry(a, parent))
       /\ Chooses(seen, A \cup B, entry(a, parent))
  BY <1>2, <1>7, <1>8, <1>9, <1>10, MergeSums, MergeChooses
<1>12. Sums(seen, {}, entry(a, child)) /\ Chooses(seen, {}, entry(a, child))
  BY <1>7, RowOfNone
<1>13. RowsOf(seen, sigma, a)
  <2> SUFFICES ASSUME NEW r \in Ids
               PROVE  /\ Sums(seen, Whole(seen, sigma, r), entry(a, r))
                      /\ Chooses(seen, Whole(seen, sigma, r), entry(a, r))
    BY DEF RowsOf
  <2>1. CASE r = parent
    BY <1>4, <1>11, <2>1
  <2>2. CASE r = child
    BY <1>5, <1>12, <2>2
  <2>3. CASE r # parent /\ r # child
    <3>1. Whole(seen, sigma, r) = Whole(seen, rho, r) /\ entry(a, r) = entry(accs, r)
      BY <1>6, <1>7, <2>3
    <3> QED  BY <3>1 DEF RowsOf
  <2> QED  BY <2>1, <2>2, <2>3
<1> QED  BY <1>1, <1>13

(* So does a message more.                                                 *)
LEMMA AttributeRows ==
  ASSUME seen \in Seq(Entry), CountedHaveAmounts(seen), NEW rho, NEW a, IsTable(a),
         RowsOf(seen, rho, a), NEW root \in Ids, rho[root] = root,
         NEW m \in Message, Attribute(m, root, a)
  PROVE  CountedHaveAmounts(seen') /\ RowsOf(seen', rho, accs')
<1>1. PICK acc, n, log : acc = entry(a, root) /\ n = Len(seen) + 1 /\ log = seen'
  OBVIOUS
<1>2. /\ accs' = Put(a, root, updated(acc, root, m))
      /\ log = Append(seen, [msg |-> m, root |-> root, counted |-> Counts(acc, m)])
  BY <1>1 DEF Attribute
<1>3. /\ n \in Nat /\ Len(seen) = n - 1 /\ Len(log) = n
      /\ \A i \in 1 .. n - 1 : log[i] = seen[i]
      /\ log[n].msg = m /\ log[n].root = root /\ log[n].counted = Counts(acc, m)
  BY <1>1, <1>2
<1>4. root # None /\ acc \in OrderAcc
  BY <1>1, EntryType, NoneIsNoValue
<1>5. log \in Seq(Entry)
  <2>1. Counts(acc, m) \in BOOLEAN
    BY DEF Counts, Fill, Report, Duplicate
  <2>2. [msg |-> m, root |-> root, counted |-> Counts(acc, m)] \in Entry
    BY <2>1 DEF Entry, Or
  <2> QED  BY <1>2, <2>2
<1>6. \A i \in 1 .. n : i \in 1 .. n - 1 \/ i = n
  BY <1>3
<1>7. CountedHaveAmounts(log)
  <2>1. Counts(acc, m) => m.amount \in Nat
    BY MessageFields DEF Counts, Or
  <2> QED  BY <1>3, <1>6, <2>1 DEF CountedHaveAmounts
<1>8. /\ \A r \in Ids : r # root => Whole(log, rho, r) = Whole(seen, rho, r)
      /\ Whole(log, rho, root) = Whole(seen, rho, root) \cup {n}
  BY <1>3, <1>4, <1>6 DEF Whole
<1>9. /\ entry(accs', root) = updated(acc, root, m)
      /\ \A r \in Ids : r # root => entry(accs', r) = entry(a, r)
  BY <1>2 DEF entry, Put
<1>10. ASSUME NEW r \in Ids
       PROVE  /\ Sums(log, Whole(seen, rho, r), entry(a, r))
              /\ Chooses(log, Whole(seen, rho, r), entry(a, r))
  <2>1. PICK at : at = Whole(seen, rho, r)
    OBVIOUS
  <2>2. at \subseteq 1 .. Len(seen) /\ \A i \in at : log[i] = seen[i]
    BY <1>3, <2>1 DEF Whole
  <2>3. Entries(seen, at)
    BY <2>2, WholeEntries
  <2>4. Sums(seen, at, entry(a, r)) /\ Chooses(seen, at, entry(a, r))
    BY <2>1 DEF RowsOf
  <2> QED  BY <2>1, <2>2, <2>3, <2>4, RowOfSame
<1>11. /\ Sums(log, Whole(log, rho, root), updated(acc, root, m))
       /\ Chooses(log, Whole(log, rho, root), updated(acc, root, m))
  <2>1. PICK at : at = Whole(seen, rho, root)
    OBVIOUS
  <2>2. at \subseteq 1 .. Len(log) /\ at \cup {n} \subseteq 1 .. Len(log) /\ \A i \in at : i < n
    BY <1>3, <2>1 DEF Whole
  <2>3. Entries(log, at) /\ Entries(log, at \cup {n})
    BY <1>5, <1>7, <2>2, WholeEntries
  <2>4. Sums(log, at, acc) /\ Chooses(log, at, acc)
    BY <1>1, <1>10, <2>1
  <2>5. n \in Nat /\ n \notin at /\ m = log[n].msg /\ log[n].counted = Counts(acc, m)
    BY <1>3, <2>2
  <2>6. Sums(log, at \cup {n}, updated(acc, root, m))
    BY <1>4, <2>3, <2>4, <2>5, AddSums
  <2>7. Chooses(log, at \cup {n}, updated(acc, root, m))
    BY <1>4, <2>2, <2>3, <2>4, <2>5, AddChooses
  <2> QED  BY <1>8, <2>1, <2>6, <2>7
<1>12. RowsOf(log, rho, accs')
  <2> SUFFICES ASSUME NEW r \in Ids
               PROVE  /\ Sums(log, Whole(log, rho, r), entry(accs', r))
                      /\ Chooses(log, Whole(log, rho, r), entry(accs', r))
    BY DEF RowsOf
  <2>1. CASE r = root
    BY <1>9, <1>11, <2>1
  <2>2. CASE r # root
    BY <1>8, <1>9, <1>10, <2>2
  <2> QED  BY <2>1, <2>2
<1> QED  BY <1>1, <1>7, <1>12

LEMMA RowInvInit ==
  ASSUME Init
  PROVE  RowInv
<1>1. FamilyInv
  BY FamilyInvInit
<1>2. accs = << >> /\ seen = << >> /\ DOMAIN << >> = {} /\ Len(<< >>) = 0
  BY DEF Init
<1>3. CountedHaveAmounts(seen)
  BY <1>2 DEF CountedHaveAmounts
<1>4. ASSUME NEW r \in Ids
      PROVE  Whole(seen, Roots(alias), r) = {} /\ entry(accs, r) = default
  BY <1>2 DEF Whole, entry
<1>5. RowsOf(seen, Roots(alias), accs)
  BY <1>4, RowOfNone DEF RowsOf
<1> QED  BY <1>1, <1>3, <1>5 DEF RowInv

LEMMA BoundRows ==
  ASSUME RowInv, NEW m \in Message, HandleBound(m)
  PROVE  CountedHaveAmounts(seen)' /\ RowsOf(seen, Roots(alias), accs)'
<1>1. PICK rho, root : rho = Roots(alias) /\ root = Child(m)
  OBVIOUS
<1>2. /\ ForestInv /\ IsTable(accs) /\ seen \in Seq(Entry) /\ CountedHaveAmounts(seen)
      /\ RowsOf(seen, rho, accs)
  BY <1>1 DEF RowInv, FamilyInv, TableInv, ForestInv, TypeOK, IsTable
<1>3. Attribute(m, root, accs) /\ m.clordid # None
  BY <1>1 DEF HandleBound
<1>4. root \in Ids /\ rho[root] = root
  BY <1>1, <1>2, <1>3, TreesOf
<1>5. Roots(alias') = rho
  BY <1>1, <1>2, BoundForest
<1>6. CountedHaveAmounts(seen') /\ RowsOf(seen', rho, accs')
  BY <1>2, <1>3, <1>4, AttributeRows
<1> QED  BY <1>5, <1>6

LEMMA UnionRows ==
  ASSUME RowInv, NEW m \in Message, HandleUnion(m)
  PROVE  CountedHaveAmounts(seen)' /\ RowsOf(seen, Roots(alias), accs)'
<1>1. PICK rho, child, parent :
        rho = Roots(alias) /\ child = Child(m) /\ parent = Parent(m)
  OBVIOUS
<1>2. PICK sigma, a : sigma = Hung(rho, child, parent) /\ a = Merged(child, parent)
  OBVIOUS
<1>3. /\ ForestInv /\ IsTable(accs) /\ seen \in Seq(Entry) /\ CountedHaveAmounts(seen)
      /\ RowsOf(seen, rho, accs)
  BY <1>1 DEF RowInv, FamilyInv, TableInv, ForestInv, TypeOK, IsTable
<1>4. /\ m.clordid # None /\ m.orig # None /\ Links(m) /\ child # parent
      /\ parent \in DOMAIN accs /\ Attribute(m, parent, a)
  BY <1>1, <1>2 DEF HandleUnion, Links, ParentKnown, Parent
<1>5. /\ rho \in [Ids -> Ids] /\ child \in Ids /\ parent \in Ids /\ rho[parent] = parent
  BY <1>1, <1>3, <1>4, TreesOf
<1>6. Roots(alias') = sigma
  BY <1>1, <1>2, <1>3, UnionForest
<1>7. IsTable(a)
  BY <1>1, <1>2, <1>3, <1>4, MergedType
<1>8. \A i \in 1 .. Len(seen) : seen[i].root # None => seen[i].root \in Ids
  BY <1>3, EntryFields
<1>9. RowsOf(seen, sigma, a)
  BY <1>2, <1>3, <1>4, <1>5, <1>8, MergeRows
<1>10. sigma[parent] = parent
  BY <1>2, <1>4, <1>5 DEF Hung
<1>11. CountedHaveAmounts(seen') /\ RowsOf(seen', sigma, accs')
  BY <1>3, <1>4, <1>5, <1>7, <1>9, <1>10, AttributeRows
<1> QED  BY <1>6, <1>11

LEMMA OrderIdRows ==
  ASSUME RowInv, NEW m \in Message, HandleByOrderId(m)
  PROVE  CountedHaveAmounts(seen)' /\ RowsOf(seen, Roots(alias), accs)'
<1>1. PICK rho, root : rho = Roots(alias) /\ root = order_id_to_root[m.order_id]
  OBVIOUS
<1>2. /\ TableInv /\ IsTable(accs) /\ seen \in Seq(Entry) /\ CountedHaveAmounts(seen)
      /\ RowsOf(seen, rho, accs)
  BY <1>1 DEF RowInv, FamilyInv, TableInv, ForestInv, TypeOK, IsTable
<1>3. /\ Attribute(m, root, accs) /\ alias' = alias /\ m.order_id \in DOMAIN order_id_to_root
  BY <1>1 DEF HandleByOrderId
<1>4. root \in Ids /\ rho[root] = root
  BY <1>1, <1>2, <1>3 DEF TableInv, OwnedBy, KeysAreRoots, IsTable
<1>5. Roots(alias') = rho
  BY <1>1, <1>3
<1>6. CountedHaveAmounts(seen') /\ RowsOf(seen', rho, accs')
  BY <1>2, <1>3, <1>4, AttributeRows
<1> QED  BY <1>5, <1>6

LEMMA NoOrderRows ==
  ASSUME RowInv, NEW m \in Message, HandleNoOrder(m)
  PROVE  CountedHaveAmounts(seen)' /\ RowsOf(seen, Roots(alias), accs)'
<1>1. PICK rho, n, log : rho = Roots(alias) /\ n = Len(seen) + 1 /\ log = seen'
  OBVIOUS
<1>2. /\ IsTable(accs) /\ seen \in Seq(Entry) /\ CountedHaveAmounts(seen)
      /\ RowsOf(seen, rho, accs)
  BY <1>1 DEF RowInv, FamilyInv, TableInv, ForestInv, TypeOK, IsTable
<1>3. /\ accs' = accs /\ alias' = alias
      /\ log = Append(seen, [msg |-> m, root |-> None, counted |-> FALSE])
  BY <1>1 DEF HandleNoOrder
<1>4. /\ n \in Nat /\ Len(seen) = n - 1 /\ Len(log) = n
      /\ \A i \in 1 .. n - 1 : log[i] = seen[i]
      /\ log[n].root = None /\ log[n].counted = FALSE
  BY <1>1, <1>2, <1>3
<1>5. \A i \in 1 .. n : i \in 1 .. n - 1 \/ i = n
  BY <1>4
<1>6. CountedHaveAmounts(log)
  BY <1>2, <1>4, <1>5 DEF CountedHaveAmounts
<1>7. ASSUME NEW r \in Ids
      PROVE  /\ Sums(log, Whole(log, rho, r), entry(accs, r))
             /\ Chooses(log, Whole(log, rho, r), entry(accs, r))
  <2>1. PICK at : at = Whole(seen, rho, r)
    OBVIOUS
  <2>2. Whole(log, rho, r) = at
    BY <1>4, <1>5, <2>1 DEF Whole
  <2>3. at \subseteq 1 .. Len(seen) /\ \A i \in at : log[i] = seen[i]
    BY <1>4, <2>1 DEF Whole
  <2>4. Entries(seen, at)
    BY <1>2, <2>3, WholeEntries
  <2>5. Sums(seen, at, entry(accs, r)) /\ Chooses(seen, at, entry(accs, r))
    BY <1>2, <2>1 DEF RowsOf
  <2> QED  BY <2>2, <2>3, <2>4, <2>5, RowOfSame
<1>8. RowsOf(log, rho, accs')
  BY <1>3, <1>7 DEF RowsOf
<1> QED  BY <1>1, <1>3, <1>6, <1>8

LEMMA RowInvStep ==
  ASSUME RowInv, [Next]_vars
  PROVE  RowInv'
<1>1. FamilyInv'
  BY FamilyInvStep DEF RowInv
<1>2. CASE UNCHANGED vars
  BY <1>1, <1>2 DEF RowInv, vars
<1>3. Messages \subseteq Message
  BY ConstantsAssumption
<1>4. CASE Next
  <2>1. PICK m \in Message :
          HandleBound(m) \/ HandleUnion(m) \/ HandleByOrderId(m) \/ HandleNoOrder(m)
    BY <1>3, <1>4 DEF Next, handle_message
  <2> QED  BY <1>1, <2>1, BoundRows, UnionRows, OrderIdRows, NoOrderRows DEF RowInv
<1> QED  BY <1>2, <1>4

LEMMA GreatestIsMax ==
  ASSUME NEW S, S \subseteq Nat, NEW v, Greatest(v, S), S # {}
  PROVE  v = Max(S)
<1>1. v \in S /\ \A w \in S : v >= w
  BY DEF Greatest
<1>2. \A x \in S : (\A w \in S : x >= w) => x = v
  BY <1>1
<1> QED  BY <1>1, <1>2 DEF Max

LEMMA LeastIsMin ==
  ASSUME NEW S, S \subseteq Nat, NEW v, Least(v, S), S # {}
  PROVE  v = Min(S)
<1>1. v \in S /\ \A w \in S : v <= w
  BY DEF Least
<1>2. \A x \in S : (\A w \in S : x <= w) => x = v
  BY <1>1
<1> QED  BY <1>1, <1>2 DEF Min

(* The messages of a row, in the invariant's words.                        *)
LEMMA OfIsWhole ==
  ASSUME RowInv, NEW r \in DOMAIN accs
  PROVE  /\ Of(r) = Whole(seen, Roots(alias), r) /\ Of(r) \subseteq 1 .. Len(seen)
         /\ Entries(seen, Of(r))
         /\ Sums(seen, Of(r), accs[r]) /\ Chooses(seen, Of(r), accs[r])
<1>1. /\ seen \in Seq(Entry) /\ CountedHaveAmounts(seen) /\ r \in Ids
      /\ RowsOf(seen, Roots(alias), accs)
  BY DEF RowInv, FamilyInv, TableInv, ForestInv, TypeOK
<1>2. \A i \in 1 .. Len(seen) : seen[i].root # None => seen[i].root \in Ids
  BY <1>1, EntryFields
<1>3. Of(r) = Whole(seen, Roots(alias), r) /\ Of(r) \subseteq 1 .. Len(seen)
  BY <1>1, <1>2 DEF Of, Whole, Roots
<1>4. Entries(seen, Of(r))
  BY <1>1, <1>3, WholeEntries
<1>5. entry(accs, r) = accs[r]
  BY DEF entry
<1> QED  BY <1>1, <1>3, <1>4, <1>5 DEF RowsOf

LEMMA RowInvTotals ==
  ASSUME RowInv
  PROVE  RowsAreTotals
<1> SUFFICES ASSUME NEW r \in DOMAIN accs PROVE RowIsTotal(r)
  BY DEF RowsAreTotals
<1>1. PICK at : at = Of(r)
  OBVIOUS
<1>2. Entries(seen, at) /\ Sums(seen, at, accs[r])
  BY <1>1, OfIsWhole
<1>3. Counted(seen, at) = {i \in Of(r) : seen[i].counted}
  BY <1>1 DEF Counted
<1>4. CumQtys(seen, at) =
        {seen[i].msg.cum_qty : i \in {j \in Of(r) : Report(seen[j].msg)}} \ {None}
  BY <1>1 DEF CumQtys
<1>5. Times(seen, at) = {seen[i].msg.sending_time : i \in Of(r)} \ {None}
  BY <1>1 DEF Times
<1>6. CumQtys(seen, at) \subseteq Nat /\ Times(seen, at) \subseteq Nat
  BY <1>2, NumbersOfRow
<1>7. accs[r].cum_qty = Max(CumQtys(seen, at) \cup {0})
  BY <1>2, <1>6, GreatestIsMax DEF Sums
<1>8. accs[r].first_seen = IF Times(seen, at) = {} THEN None ELSE Min(Times(seen, at))
  <2>1. CASE Times(seen, at) = {}
    BY <1>2, <2>1 DEF Sums, Least
  <2>2. CASE Times(seen, at) # {}
    BY <1>2, <1>6, <2>2, LeastIsMin DEF Sums
  <2> QED  BY <2>1, <2>2
<1>9. accs[r].last_seen = IF Times(seen, at) = {} THEN None ELSE Max(Times(seen, at))
  <2>1. CASE Times(seen, at) = {}
    BY <1>2, <2>1 DEF Sums, Greatest
  <2>2. CASE Times(seen, at) # {}
    BY <1>2, <1>6, <2>2, GreatestIsMax DEF Sums
  <2> QED  BY <2>1, <2>2
<1>10. accs[r].fills = Cardinality(Counted(seen, at))
  BY <1>2 DEF Sums
<1>11. accs[r].notional = MapThenSumSet(LAMBDA i : seen[i].msg.amount, Counted(seen, at))
  BY <1>2 DEF Sums, Total
<1> QED  BY <1>3, <1>4, <1>5, <1>7, <1>8, <1>9, <1>10, <1>11 DEF RowIsTotal

LEMMA RowInvChooses ==
  ASSUME RowInv
  PROVE  RowsChooseWithin
<1> SUFFICES ASSUME NEW r \in DOMAIN accs
             PROVE  LET having(tag) == {i \in Of(r) : seen[i].msg[tag] # None}
                        reports  == {i \in having("status") : Report(seen[i].msg)}
                        requests == {i \in having("order_qty") : seen[i].msg.kind = "request"}
                    IN /\ Chosen(accs[r].final_ord_status, Latest(reports), "status")
                       /\ Chosen(accs[r].order_qty, Latest(requests), "order_qty")
                       /\ Chosen(accs[r].symbol, Earliest(having("symbol")), "symbol")
  BY DEF RowsChooseWithin
<1>1. Chooses(seen, Of(r), accs[r])
  BY OfIsWhole
<1> DEFINE having(tag) == {i \in Of(r) : seen[i].msg[tag] # None}
           reports  == {i \in having("status") : Report(seen[i].msg)}
           requests == {i \in having("order_qty") : seen[i].msg.kind = "request"}
<1>2. /\ reports = Statuses(seen, Of(r)) /\ requests = Quantities(seen, Of(r))
      /\ having("symbol") = Symbols(seen, Of(r))
  BY DEF Statuses, Quantities, Symbols
<1>3. \A at : LatestOf(seen, at) = Latest(at) /\ EarliestOf(seen, at) = Earliest(at)
  BY DEF LatestOf, Latest, EarliestOf, Earliest
<1>4. \A value, at, tag : ChosenIn(seen, value, at, tag) <=> Chosen(value, at, tag)
  BY DEF ChosenIn, Chosen
<1>5. /\ Chosen(accs[r].final_ord_status, Latest(reports), "status")
      /\ Chosen(accs[r].order_qty, Latest(requests), "order_qty")
      /\ Chosen(accs[r].symbol, Earliest(having("symbol")), "symbol")
  <2> HIDE DEF having, reports, requests
  <2> QED  BY <1>1, <1>2, <1>3, <1>4 DEF Chooses
<1> QED  BY <1>5

(* A row is the total of the messages of its family, for any messages and  *)
(* any merges: each counted fill is in the notional of one row, once.      *)
THEOREM RowsAreTheTotals == Spec => []RowsAreTotals
<1>1. Init => RowInv
  BY RowInvInit
<1>2. RowInv /\ [Next]_vars => RowInv'
  BY RowInvStep
<1>3. RowInv => RowsAreTotals
  BY RowInvTotals
<1> QED  BY <1>1, <1>2, <1>3, PTL DEF Spec

(* What a row shows of OrdStatus, OrderQty and Symbol is the last, or the  *)
(* first, of one of the families that it was merged from.                  *)
THEOREM RowsChoose == Spec => []RowsChooseWithin
<1>1. Init => RowInv
  BY RowInvInit
<1>2. RowInv /\ [Next]_vars => RowInv'
  BY RowInvStep
<1>3. RowInv => RowsChooseWithin
  BY RowInvChooses
<1> QED  BY <1>1, <1>2, <1>3, PTL DEF Spec

-----------------------------------------------------------------------------
(* A stable sort by a total order.                                         *)

Orders(less, S) ==
  /\ \A r \in S : <<r, r>> \notin less
  /\ \A r, s \in S : r # s => (<<r, s>> \in less <=> <<s, r>> \notin less)
  /\ \A r, s, t \in S : <<r, s>> \in less /\ <<s, t>> \in less => <<r, t>> \in less

Below(less, S, r) == {s \in S : <<s, r>> \in less}

Ranked(less, S) ==
  [k \in 1 .. Cardinality(S) |-> CHOOSE r \in S : Cardinality(Below(less, S, r)) = k - 1]

(* The number of elements below it is the place of an element.             *)
LEMMA RanksArePlaces ==
  ASSUME NEW S, IsFiniteSet(S), NEW less, Orders(less, S)
  PROVE  /\ \A k \in 1 .. Cardinality(S) :
              \E r \in S : Cardinality(Below(less, S, r)) = k - 1
         /\ \A r, s \in S :
              Cardinality(Below(less, S, r)) = Cardinality(Below(less, S, s)) => r = s
<1> DEFINE n == Cardinality(S)
           rank == [r \in S |-> Cardinality(Below(less, S, r))]
           T == 0 .. n - 1
<1>1. n \in Nat /\ IsFiniteSet(T) /\ Cardinality(T) = n
  <2>1. n \in Nat
    BY FS_CardinalityType
  <2> HIDE DEF n
  <2>2. IsFiniteSet(0 .. n - 1) /\ Cardinality(0 .. n - 1) = IF 0 > n - 1 THEN 0 ELSE n - 1 - 0 + 1
    BY <2>1, FS_Interval
  <2> QED  BY <2>1, <2>2
<1>2. ASSUME NEW r \in S PROVE IsFiniteSet(Below(less, S, r)) /\ rank[r] \in T
  <2>1. Below(less, S, r) \in SUBSET S /\ Below(less, S, r) # S
    BY DEF Orders, Below
  <2>2. /\ IsFiniteSet(Below(less, S, r)) /\ Cardinality(Below(less, S, r)) <= n
        /\ Cardinality(Below(less, S, r)) # n
    BY <2>1, FS_Subset
  <2>3. Cardinality(Below(less, S, r)) \in Nat
    BY <2>2, FS_CardinalityType
  <2> HIDE DEF n
  <2> QED  BY <1>1, <2>2, <2>3
<1>3. ASSUME NEW r \in S, NEW s \in S, <<r, s>> \in less PROVE rank[r] < rank[s]
  <2> DEFINE A == Below(less, S, r)
             B == Below(less, S, s)
  <2>1. A \in SUBSET B /\ A # B
    BY <1>3 DEF Orders, Below
  <2>2. IsFiniteSet(A) /\ IsFiniteSet(B)
    BY <1>2
  <2> HIDE DEF A, B
  <2>3. Cardinality(A) <= Cardinality(B) /\ Cardinality(A) # Cardinality(B)
    BY <2>1, <2>2, FS_Subset
  <2>4. Cardinality(A) \in Nat /\ Cardinality(B) \in Nat
    BY <2>2, FS_CardinalityType
  <2>5. Cardinality(A) < Cardinality(B)
    BY <2>3, <2>4
  <2> QED  BY <2>5 DEF A, B
<1>4. \A r, s \in S : rank[r] = rank[s] => r = s
  <2> SUFFICES ASSUME NEW r \in S, NEW s \in S, rank[r] = rank[s], r # s PROVE FALSE
    OBVIOUS
  <2>1. rank[r] \in Int /\ rank[s] \in Int
    BY <1>1, <1>2
  <2>2. <<r, s>> \in less \/ <<s, r>> \in less
    BY DEF Orders
  <2>3. rank[r] < rank[s] \/ rank[s] < rank[r]
    BY <1>3, <2>2
  <2> HIDE DEF rank
  <2> QED  BY <2>1, <2>3
<1>5. rank \in [S -> T]
  BY <1>2
<1> HIDE DEF rank, T
<1>6. rank \in Injection(S, T)
  BY <1>4, <1>5 DEF Injection, IsInjective
<1>7. rank \in Surjection(S, T)
  <2> HIDE DEF n
  <2> QED  BY <1>1, <1>6, FS_Injection DEF n
<1>8. \A k \in T : \E r \in S : rank[r] = k
  BY <1>7 DEF Surjection
<1>9. \A r \in S : rank[r] = Cardinality(Below(less, S, r))
  BY DEF rank
<1>10. \A k \in 1 .. n : k - 1 \in T
  <2> HIDE DEF n
  <2> QED  BY <1>1 DEF T
<1> QED  BY <1>4, <1>8, <1>9, <1>10

(* Whatever the order of the rows, they come out in that of their ranks.   *)
LEMMA StableIsRanked ==
  ASSUME NEW S, IsFiniteSet(S), NEW x \in SetToSeqs(S), NEW less, Orders(less, S)
  PROVE  Stable(x, less) = Ranked(less, S) /\ Ranked(less, S) \in SetToSeqs(S)
<1>1. PICK n : n = Cardinality(S)
  OBVIOUS
<1>2. /\ n \in Nat /\ x \in [1 .. n -> S] /\ \A i, j \in 1 .. n : i # j => x[i] # x[j]
  BY <1>1, FS_CardinalityType DEF SetToSeqs
<1>3. \A r \in S : \E i \in 1 .. n : x[i] = r
  <2>1. x \in Injection(1 .. n, S)
    BY <1>2 DEF Injection, IsInjective
  <2>2. IsFiniteSet(1 .. n) /\ Cardinality(1 .. n) = n
    BY <1>2, FS_Interval
  <2>3. x \in Surjection(1 .. n, S)
    BY <1>1, <2>1, <2>2, FS_Injection
  <2> QED  BY <2>3 DEF Surjection
<1> DEFINE before(i, j) == \/ <<x[i], x[j]>> \in less
                           \/ <<x[j], x[i]>> \notin less /\ i < j
           earlier(i) == {j \in 1 .. n : before(j, i)}
<1>4. ASSUME NEW i \in 1 .. n
      PROVE  Cardinality(earlier(i)) = Cardinality(Below(less, S, x[i]))
  <2> DEFINE E == earlier(i)
             B == Below(less, S, x[i])
             f == [j \in E |-> x[j]]
  <2>1. \A j \in 1 .. n : j \in E <=> x[j] \in B
    BY <1>2 DEF Below, Orders
  <2>2. E \subseteq 1 .. n /\ B \subseteq S
    BY DEF Below
  <2> HIDE DEF E, B
  <2>3. f \in [E -> B]
    BY <2>1, <2>2
  <2>4. \A a, b \in E : f[a] = f[b] => a = b
    BY <1>2, <2>2
  <2>5. \A r \in B : \E j \in E : f[j] = r
    BY <1>3, <2>1, <2>2
  <2> HIDE DEF f
  <2>6. f \in Bijection(E, B)
    BY <2>3, <2>4, <2>5 DEF Bijection, Injection, Surjection, IsInjective
  <2>7. IsFiniteSet(E)
    <3>1. IsFiniteSet(1 .. n)
      BY <1>2, FS_Interval
    <3> QED  BY <2>2, <3>1, FS_Subset
  <2>8. Cardinality(B) = Cardinality(E)
    BY <2>6, <2>7, FS_Bijection DEF ExistsBijection
  <2> QED  BY <2>8 DEF E, B
<1>5. DOMAIN x = 1 .. n
  BY <1>2
<1>6. Stable(x, less) =
        [k \in 1 .. n |-> x[CHOOSE i \in 1 .. n : Cardinality(earlier(i)) = k - 1]]
  BY <1>5 DEF Stable
<1> HIDE DEF earlier
<1>7. ASSUME NEW k \in 1 .. n
      PROVE  /\ x[CHOOSE i \in 1 .. n : Cardinality(earlier(i)) = k - 1] =
                  CHOOSE r \in S : Cardinality(Below(less, S, r)) = k - 1
             /\ (CHOOSE r \in S : Cardinality(Below(less, S, r)) = k - 1) \in S
             /\ Cardinality(Below(less, S, CHOOSE r \in S : Cardinality(Below(less, S, r)) = k - 1))
                  = k - 1
  <2> DEFINE r == CHOOSE s \in S : Cardinality(Below(less, S, s)) = k - 1
             i == CHOOSE j \in 1 .. n : Cardinality(earlier(j)) = k - 1
  <2>1. \E s \in S : Cardinality(Below(less, S, s)) = k - 1
    BY <1>1, RanksArePlaces
  <2>2. r \in S /\ Cardinality(Below(less, S, r)) = k - 1
    BY <2>1
  <2>3. \E j \in 1 .. n : Cardinality(earlier(j)) = k - 1
    <3> HIDE DEF r
    <3> QED  BY <1>3, <1>4, <2>2
  <2>4. i \in 1 .. n /\ Cardinality(earlier(i)) = k - 1
    BY <2>3
  <2> HIDE DEF r, i
  <2>5. x[i] \in S /\ Cardinality(Below(less, S, x[i])) = k - 1
    BY <1>2, <1>4, <2>4
  <2>6. x[i] = r
    BY <2>2, <2>5, RanksArePlaces
  <2> QED  BY <2>2, <2>6 DEF r, i
<1>8. Stable(x, less) = Ranked(less, S)
  <2> DEFINE pos == [k \in 1 .. n |-> x[CHOOSE i \in 1 .. n : Cardinality(earlier(i)) = k - 1]]
             ranked == [k \in 1 .. n |-> CHOOSE r \in S : Cardinality(Below(less, S, r)) = k - 1]
  <2>1. pos = ranked
    BY <1>7
  <2>2. ranked = Ranked(less, S)
    BY <1>1 DEF Ranked
  <2> HIDE DEF pos, ranked
  <2>3. Stable(x, less) = pos
    BY <1>6 DEF pos
  <2> QED  BY <2>1, <2>2, <2>3
<1>9. Ranked(less, S) \in SetToSeqs(S)
  <2> DEFINE y == Ranked(less, S)
  <2>1. y = [k \in 1 .. n |-> CHOOSE r \in S : Cardinality(Below(less, S, r)) = k - 1]
    BY <1>1 DEF Ranked
  <2> HIDE DEF y
  <2>2. \A k \in 1 .. n : y[k] \in S /\ Cardinality(Below(less, S, y[k])) = k - 1
    BY <1>7, <2>1
  <2>3. y \in [1 .. n -> S]
    BY <2>1, <2>2
  <2>4. ASSUME NEW i \in 1 .. n, NEW j \in 1 .. n, y[i] = y[j] PROVE i = j
    <3>1. i - 1 = j - 1
      BY <2>2, <2>4
    <3> QED  BY <1>2, <3>1
  <2>5. y \in SetToSeqs(S)
    BY <1>1, <2>3, <2>4 DEF SetToSeqs
  <2> QED  BY <2>5 DEF y
<1> QED  BY <1>8, <1>9

(* The orders of the two sorts, on all the rows.                           *)
ByNotional(S) ==
  {p \in S \X S :
    \/ accs[p[1]].notional > accs[p[2]].notional
    \/ accs[p[1]].notional = accs[p[2]].notional /\ p[1] < p[2]}

ByKey(S, by) ==
  {p \in S \X S :
    \/ SortValue(p[1], by) > SortValue(p[2], by)
    \/ SortValue(p[1], by) = SortValue(p[2], by) /\ p[1] < p[2]}

SortKeys == {"notional", "cum_qty", "fills", "recent"}

LEMMA SortValueIsNumber ==
  ASSUME IsTable(accs), NEW by \in SortKeys, NEW r \in DOMAIN accs
  PROVE  SortValue(r, by) \in Int
<1>1. accs[r] \in OrderAcc
  BY DEF IsTable
<1>2. /\ accs[r].notional \in Nat /\ accs[r].cum_qty \in Nat /\ accs[r].fills \in Nat
      /\ accs[r].last_seen \in Or(Nat)
  BY <1>1, AccFields
<1>3. or(accs[r].last_seen, -1) \in Int
  BY <1>2 DEF or, Or
<1>4. CASE by = "notional"
  BY <1>2, <1>4 DEF SortValue
<1>5. CASE by = "cum_qty"
  BY <1>2, <1>5 DEF SortValue
<1>6. CASE by = "fills"
  BY <1>2, <1>6 DEF SortValue
<1>7. CASE by = "recent"
  BY <1>3, <1>7 DEF SortValue
<1> QED  BY <1>4, <1>5, <1>6, <1>7 DEF SortKeys

LEMMA SortsAreOrders ==
  ASSUME IsTable(accs), NEW S, S = DOMAIN accs
  PROVE  /\ Orders(ByNotional(S), S)
         /\ \A by \in SortKeys : Orders(ByKey(S, by), S)
<1>1. \A r \in S : r \in Nat /\ accs[r].notional \in Nat
  <2>1. \A r \in S : r \in Ids /\ accs[r] \in OrderAcc
    BY DEF IsTable
  <2> QED  BY <2>1, AccFields, ConstantsAssumption
<1>2. Orders(ByNotional(S), S)
  <2> DEFINE less == ByNotional(S)
  <2>1. \A r, s \in S : <<r, s>> \in less <=>
          \/ accs[r].notional > accs[s].notional
          \/ accs[r].notional = accs[s].notional /\ r < s
    BY DEF ByNotional
  <2> HIDE DEF less
  <2>2. (\A r \in S : <<r, r>> \notin less) /\
        \A r, s \in S : r # s => (<<r, s>> \in less <=> <<s, r>> \notin less)
    BY <1>1, <2>1
  <2>3. \A r, s, t \in S : <<r, s>> \in less /\ <<s, t>> \in less => <<r, t>> \in less
    BY <1>1, <2>1
  <2> QED  BY <2>2, <2>3 DEF Orders, less
<1>3. ASSUME NEW by \in SortKeys PROVE Orders(ByKey(S, by), S)
  <2> DEFINE less == ByKey(S, by)
             v(r) == SortValue(r, by)
  <2>1. \A r, s \in S : <<r, s>> \in less <=> v(r) > v(s) \/ (v(r) = v(s) /\ r < s)
    BY DEF ByKey
  <2>2. \A r \in S : v(r) \in Int
    BY SortValueIsNumber
  <2> HIDE DEF less, v
  <2>3. (\A r \in S : <<r, r>> \notin less) /\
        \A r, s \in S : r # s => (<<r, s>> \in less <=> <<s, r>> \notin less)
    BY <1>1, <2>1, <2>2
  <2>4. \A r, s, t \in S : <<r, s>> \in less /\ <<s, t>> \in less => <<r, t>> \in less
    BY <1>1, <2>1, <2>2
  <2> QED  BY <2>3, <2>4 DEF Orders, less
<1> QED  BY <1>2, <1>3

FiniteInv == ForestInv /\ IsFiniteSet(DOMAIN accs)

LEMMA FiniteInvStep ==
  ASSUME FiniteInv, [Next]_vars
  PROVE  FiniteInv'
<1>1. ForestInv'
  BY ForestInvStep DEF FiniteInv
<1>2. ASSUME NEW m, NEW root, NEW a, IsFiniteSet(DOMAIN a), Attribute(m, root, a)
      PROVE  IsFiniteSet(DOMAIN accs')
  <2>1. DOMAIN accs' = DOMAIN a \cup {root}
    BY <1>2 DEF Attribute, Put
  <2> QED  BY <1>2, <2>1, FS_AddElement
<1>3. ASSUME NEW child, NEW parent PROVE IsFiniteSet(DOMAIN Merged(child, parent))
  <2>1. DOMAIN Merged(child, parent) = DOMAIN accs \ {child}
    BY DEF Merged
  <2> QED  BY <2>1, FS_RemoveElement DEF FiniteInv
<1>4. CASE UNCHANGED vars
  BY <1>1, <1>4 DEF FiniteInv, vars
<1>5. ASSUME NEW m, handle_message(m) PROVE IsFiniteSet(DOMAIN accs')
  BY <1>2, <1>3, <1>5
  DEF handle_message, HandleBound, HandleUnion, HandleByOrderId, HandleNoOrder, FiniteInv
<1> QED  BY <1>1, <1>4, <1>5 DEF Next, FiniteInv

LEMMA FiniteInvSorts ==
  ASSUME FiniteInv
  PROVE  TableIsDeterministic
<1>1. PICK S : S = DOMAIN accs
  OBVIOUS
<1>2. IsFiniteSet(S) /\ IsTable(accs)
  BY <1>1 DEF FiniteInv, ForestInv, TypeOK, IsTable
<1>3. Orders(ByNotional(S), S) /\ \A by \in SortKeys : Orders(ByKey(S, by), S)
  BY <1>1, <1>2, SortsAreOrders
<1>4. ASSUME NEW x \in SetToSeqs(S) PROVE ToSet(x) = S
  <2>1. PICK n : n = Cardinality(S)
    OBVIOUS
  <2>2. /\ n \in Nat /\ x \in [1 .. n -> S] /\ \A i, j \in 1 .. n : i # j => x[i] # x[j]
    BY <1>2, <2>1, FS_CardinalityType DEF SetToSeqs
  <2>3. x \in Injection(1 .. n, S)
    BY <2>2 DEF Injection, IsInjective
  <2>4. IsFiniteSet(1 .. n) /\ Cardinality(1 .. n) = n
    BY <2>2, FS_Interval
  <2>5. x \in Surjection(1 .. n, S)
    BY <1>2, <2>1, <2>3, <2>4, FS_Injection
  <2> QED  BY <2>2, <2>5 DEF ToSet, Surjection
<1>5. ASSUME NEW x \in SetToSeqs(S)
      PROVE  finish(x) = Ranked(ByNotional(S), S) /\ finish(x) \in SetToSeqs(S)
  <2>1. finish(x) = Stable(x, ByNotional(S))
    BY <1>4 DEF finish, ByNotional
  <2> QED  BY <1>2, <1>3, <2>1, StableIsRanked
<1>6. ASSUME NEW x \in SetToSeqs(S), NEW by \in SortKeys
      PROVE  sort_rows(x, by) = Ranked(ByKey(S, by), S)
  <2>1. sort_rows(x, by) = Stable(x, ByKey(S, by))
    BY <1>4 DEF sort_rows, ByKey
  <2> QED  BY <1>2, <1>3, <2>1, StableIsRanked
<1>7. SetToSeq(S) \in SetToSeqs(S)
  <2>1. PICK f : f \in Bijection(1 .. Cardinality(S), S)
    BY <1>2, FS_CardinalityType DEF ExistsBijection
  <2>2. f \in [1 .. Cardinality(S) -> S] /\ IsInjective(f)
    BY <2>1 DEF Bijection, Injection
  <2>3. SetToSeq(S) \in [1 .. Cardinality(S) -> S] /\ IsInjective(SetToSeq(S))
    BY <2>2 DEF SetToSeq
  <2> QED  BY <2>3 DEF SetToSeqs, IsInjective
<1>8. PICK any : any = SetToSeq(S)
  OBVIOUS
<1>9. \A x \in SetToSeqs(S) :
        /\ finish(x) = finish(any)
        /\ \A by \in SortKeys : sort_rows(finish(x), by) = sort_rows(any, by)
  BY <1>5, <1>6, <1>7, <1>8
<1> QED  BY <1>1, <1>8, <1>9 DEF TableIsDeterministic, SortKeys

(* The table and the command line's sort of it come out in one order,      *)
(* whatever order the hash map gives the rows in.                          *)
THEOREM TableHasOneOrder == Spec => []TableIsDeterministic
<1>1. Init => FiniteInv
  <2>1. Init => accs = << >> /\ DOMAIN << >> = {}
    BY DEF Init
  <2> QED  BY <2>1, ForestInvInit, FS_EmptySet DEF FiniteInv
<1>2. FiniteInv /\ [Next]_vars => FiniteInv'
  BY FiniteInvStep
<1>3. FiniteInv => TableIsDeterministic
  BY FiniteInvSorts
<1> QED  BY <1>1, <1>2, <1>3, PTL DEF Spec
=============================================================================
