----------------------------- MODULE Dictionary -----------------------------
(***************************************************************************)
(* fixlog-dict: the names and labels of a message's fields, looked up in   *)
(* the dictionaries of its session and its application, and the fields     *)
(* that a group counter opens.  What a dictionary has is generated.        *)
(***************************************************************************)
EXTENDS IndexedLog

CONSTANTS
  CharsOf,    (* of each value of a field, its characters; FIX is one      *)
  FieldName,  (* of each dictionary, the names of the tags that it has     *)
  EnumLabel,  (* ... the labels of the pairs of a tag and a value          *)
  TypeLabel   (* ... the labels of the values of MsgType                   *)

BeginString == 8
ApplVerID   == 1128

FixVersion == {"Fix44", "Fixt11", "Fix50", "Fix50Sp1", "Fix50Sp2"}

ASSUME DictionariesAssumption ==
  DOMAIN FieldName = FixVersion /\ DOMAIN EnumLabel = FixVersion /\ DOMAIN TypeLabel = FixVersion

CHAIN_FIX44           == <<"Fix44">>
CHAIN_FIXT11_FIX50SP2 == <<"Fixt11", "Fix50Sp2">>
CHAIN_FIXT11_FIX44    == <<"Fixt11", "Fix44">>
CHAIN_FIXT11_FIX50    == <<"Fixt11", "Fix50">>
CHAIN_FIXT11_FIX50SP1 == <<"Fixt11", "Fix50Sp1">>

(* find_tag of the resolver and lookup of the writers: << >> is also None. *)
FirstText(msg, tag) == IF find_tag(msg, tag) = None THEN << >> ELSE CharsOf[find_tag(msg, tag)]

(* Every session but those of FIXT.1.1 is read as one of FIX 4.4.          *)
chain_for(begin_string, appl_ver_id) ==
  IF begin_string # <<"FIX", "T.1.1">> THEN CHAIN_FIX44
  ELSE CASE appl_ver_id = <<"6">> -> CHAIN_FIXT11_FIX44
         [] appl_ver_id = <<"7">> -> CHAIN_FIXT11_FIX50
         [] appl_ver_id = <<"8">> -> CHAIN_FIXT11_FIX50SP1
         [] OTHER -> CHAIN_FIXT11_FIX50SP2

(* The answer of the first dictionary in the chain that has one.           *)
Has(chain, table, key) == {i \in DOMAIN chain : key \in DOMAIN table[chain[i]]}

chained(chain, table, key) ==
  IF Has(chain, table, key) = {} THEN None ELSE table[chain[Min(Has(chain, table, key))]][key]

chain_field_by_tag(chain, tag) == chained(chain, FieldName, tag)
chain_enum_value_label(chain, tag, value) == chained(chain, EnumLabel, <<tag, value>>)
chain_msg_type_label(chain, value) == chained(chain, TypeLabel, value)

(* The one counter there is: NoMDEntries.                                  *)
group_members(tag) ==
  IF tag # 268 THEN {}
  ELSE {55, 48, 22, 207, 461, 336, 432, 625, 828, 1023}
         \cup 269 .. 280 \cup 282 .. 294

(* resolve_with_chain.  The set that is active behind a field: a counter's, *)
(* until a tag that is not in it; its members are one deeper.              *)
value_label(chain, field) ==
  IF field[1] = MsgType THEN chain_msg_type_label(chain, field[2])
  ELSE chain_enum_value_label(chain, field[1], field[2])

next_active(active, tag) ==
  IF group_members(tag) # {} THEN group_members(tag)
  ELSE IF tag \in active THEN active ELSE {}

resolve_with_chain(msg, chain) ==
  LET active == [i \in 0 .. Len(msg) |->
                   FoldLeft(LAMBDA set, field : next_active(set, field[1]), {}, SubSeq(msg, 1, i))]
      types  == {i \in DOMAIN msg : msg[i][1] = MsgType /\ value_label(chain, msg[i]) # None}
  IN [msg_type_name |-> IF types = {} THEN None ELSE value_label(chain, msg[Min(types)]),
      fields |-> [i \in DOMAIN msg |->
        [tag |-> msg[i][1], value |-> msg[i][2],
         name |-> chain_field_by_tag(chain, msg[i][1]), value_label |-> value_label(chain, msg[i]),
         depth |-> IF group_members(msg[i][1]) = {} /\ msg[i][1] \in active[i - 1] THEN 1 ELSE 0]]]

resolve(msg) ==
  resolve_with_chain(msg, chain_for(FirstText(msg, BeginString), FirstText(msg, ApplVerID)))
=============================================================================
