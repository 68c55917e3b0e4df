----------------------------- MODULE FilterText -----------------------------
(***************************************************************************)
(* fixlog-tui: the text of the filter in force, which the program itself   *)
(* puts together from what the user typed, the field under the cursor, the  *)
(* session selected and the switch for heartbeats, parses, and evaluates    *)
(* by the secondary index when it can.                                      *)
(***************************************************************************)
EXTENDS QueryDsl

CONSTANTS
  NumberOf,   (* the text of a tag: a number                               *)
  Barewords   (* the symbols made of letters, digits and _ - . / : +       *)

(* The lookups of the pairs, and the ordinals that are in all of them.     *)
valueOf(text) ==
  IF \E v \in DOMAIN TextOf : TextOf[v] = text
  THEN CHOOSE v \in DOMAIN TextOf : TextOf[v] = text ELSE None

intersect_secondary_lookups(index, eqs) ==
  LET lists == [i \in DOMAIN eqs |-> lookup(index, eqs[i].tag, valueOf(eqs[i].text))]
  IN {o \in OrdinalsOf(index) : \A i \in DOMAIN lists : o \in lists[i]}

pushdown(eqs) == eqs # None /\ \A i \in DOMAIN eqs : eqs[i].tag \in HotTags

evaluate_visible(index, expr) ==
  LET eqs == hot_equalities(expr)
  IN IF pushdown(eqs) THEN intersect_secondary_lookups(index, eqs)
     ELSE {o \in OrdinalsOf(index) : matches(expr, message(index, o))}

-----------------------------------------------------------------------------
(* The predicate of a field: bare if that is safe, else quoted.            *)
escaped(text) ==
  FoldLeft(LAMBDA out, c : out \o (IF c \in {"\"", "\\"} THEN <<"\\", c>> ELSE <<c>>),
           << >>, text)

value_text(text) ==
  IF text # << >> /\ ToSet(text) \subseteq Barewords THEN text
  ELSE <<"\"">> \o escaped(text) \o <<"\"">>

predicate_text(tag, text) == <<NumberOf[tag], "=">> \o value_text(text)

filter_expr_from_field(tag, text, negated) ==
  IF negated THEN <<"NOT", Blank, "(">> \o predicate_text(tag, text) \o <<")">>
  ELSE predicate_text(tag, text)

(* Text with a control character cannot be written at all.                 *)
Writable(text) == "ctl" \notin ToSet(text)

NotHeartbeat == <<"NOT", Blank, NumberOf[MsgType], "=", "0">>

Conjunction(text, other) == <<"(">> \o text \o <<")", Blank, "AND", Blank>> \o other

(* Mutant of compose_effective: no parentheses.                            *)
compose_unbracketed(user, hide) ==
  CASE ~ hide -> user
    [] hide /\ user = None -> NotHeartbeat
    [] OTHER -> user \o <<Blank, "AND", Blank>> \o NotHeartbeat

compose_effective(user, hide) ==
  CASE ~ hide -> user
    [] hide /\ user = None -> NotHeartbeat
    [] OTHER -> Conjunction(user, NotHeartbeat)

session_text(key) ==
  <<NumberOf[SenderCompID], "=">> \o TextOf[key.sender]
    \o <<Blank, "AND", Blank, NumberOf[TargetCompID], "=">> \o TextOf[key.target]

(* An effective text that does not parse is no filter at all.              *)
recompute_effective_filter(index, user, hide) ==
  LET text == compose_effective(user, hide)
  IN IF text = None \/ Failed(parse(text)) THEN OrdinalsOf(index)
     ELSE evaluate_visible(index, parse(text).result)

-----------------------------------------------------------------------------
(* What an expression says, and how one writes it with no parenthesis more *)
(* than the precedences NOT, AND, OR ask for.                              *)
RECURSIVE Meaning(_, _)
Meaning(index, e) ==
  CASE e.node = "Pred" ->
         LET has == {o \in OrdinalsOf(index) : \E v \in DOMAIN TextOf :
                       /\ Mentions(message(index, o), e.tag, v)
                       /\ IF e.op = "~" THEN v \in Regex[e.text] ELSE TextOf[v] = e.text}
         IN IF e.op = "!=" THEN OrdinalsOf(index) \ has ELSE has
    [] e.node = "Not" -> OrdinalsOf(index) \ Meaning(index, e.e)
    [] e.node = "And" -> Meaning(index, e.a) \cap Meaning(index, e.b)
    [] e.node = "Or"  -> Meaning(index, e.a) \cup Meaning(index, e.b)

Level(e) == CASE e.node = "Or" -> 1 [] e.node = "And" -> 2 [] e.node = "Not" -> 3
              [] e.node = "Pred" -> 4

RECURSIVE Written(_, _)
Written(e, level) ==
  LET text ==
        CASE e.node = "Pred" -> <<NumberOf[e.tag], e.op>> \o value_text(e.text)
          [] e.node = "Not" -> <<"NOT", Blank>> \o Written(e.e, 3)
          [] e.node = "And" -> Written(e.a, 2) \o <<Blank, "AND", Blank>> \o Written(e.b, 3)
          [] e.node = "Or"  -> Written(e.a, 1) \o <<Blank, "OR", Blank>> \o Written(e.b, 2)
  IN IF Level(e) < level THEN <<"(">> \o text \o <<")">> ELSE text
=============================================================================
