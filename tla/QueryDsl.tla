------------------------------ MODULE QueryDsl ------------------------------
(***************************************************************************)
(* fixlog-query: the recursive descent parser of the filter language and   *)
(* the evaluator, and the look-up of a filter in the secondary index.  A   *)
(* text is a sequence of symbols: a blank, a parenthesis, a quote, a        *)
(* backslash, an operator, a number, a keyword, or a run of letters.        *)
(***************************************************************************)
EXTENDS IndexedLog

CONSTANTS
  TagOf,   (* of each number, the tag; None beyond u32                     *)
  TextOf,  (* of each value of a field, its text                           *)
  Regex    (* of each pattern that compiles, the values it matches         *)

ASSUME TextsAssumption ==
  /\ \A p \in DOMAIN Regex : Regex[p] \subseteq DOMAIN TextOf
  /\ \A v, w \in DOMAIN TextOf : TextOf[v] = TextOf[w] => v = w

Blank == " "
Stops == {Blank, "(", ")"}

Pred(tag, op, text) == [node |-> "Pred", tag |-> tag, op |-> op, text |-> text]
Not(e)    == [node |-> "Not", e |-> e]
And(a, b) == [node |-> "And", a |-> a, b |-> b]
Or(a, b)  == [node |-> "Or", a |-> a, b |-> b]

(* What a step of the parser yields, and where it goes on; 0: an error.    *)
Parsed(result, pos) == [result |-> result, pos |-> pos]
Failure == Parsed(None, 0)
Failed(p) == p.pos = 0

peek(src, pos) == IF pos <= Len(src) THEN src[pos] ELSE "eof"

skip_ws(src, pos) ==
  Min({q \in pos .. Len(src) + 1 : q = Len(src) + 1 \/ src[q] # Blank} \cup {Len(src) + 1})

(* A keyword ends at a blank, the end, or an opening parenthesis.          *)
at_keyword(src, pos, kw) ==
  peek(src, pos) = kw /\ peek(src, pos + 1) \in {Blank, "(", "eof"}

-----------------------------------------------------------------------------
parse_bareword(src, pos) ==
  LET last == Min({q \in pos .. Len(src) : src[q] \in Stops} \cup {Len(src) + 1})
  IN Parsed(SubSeq(src, pos, last - 1), last)

RECURSIVE unquoted(_, _, _)
unquoted(src, pos, out) ==
  CASE peek(src, pos) = "eof" -> Failure
    [] peek(src, pos) = "\"" -> Parsed(out, pos + 1)
    [] peek(src, pos) = "\\" ->
         IF pos < Len(src) THEN unquoted(src, pos + 2, Append(out, src[pos + 1])) ELSE Failure
    [] OTHER -> unquoted(src, pos + 1, Append(out, src[pos]))

parse_value(src, pos) ==
  CASE peek(src, pos) = "eof" -> Failure
    [] peek(src, pos) = "\"" -> unquoted(src, pos + 1, << >>)
    [] OTHER -> parse_bareword(src, pos)

(* A tag that is no u32, an unknown operator, a missing value and a regex  *)
(* that does not compile are errors.                                       *)
parse_predicate(src, pos) ==
  LET tag   == TagOf[src[pos]]
      op    == peek(src, pos + 1)
      value == parse_value(src, pos + 2)
  IN IF \/ tag = None \/ op \notin {"=", "!=", "~"} \/ Failed(value)
        \/ op = "~" /\ value.result \notin DOMAIN Regex
     THEN Failure
     ELSE Parsed(Pred(tag, op, value.result), value.pos)

RECURSIVE parse_level(_, _, _), parse_not(_, _), parse_atom(_, _), rest_of_level(_, _, _)

(* The operands of OR are parse_and, those of AND are parse_not.           *)
operand(src, pos, kw) ==
  IF kw = "OR" THEN parse_level(src, pos, "AND") ELSE parse_not(src, pos)

rest_of_level(src, left, kw) ==
  LET at    == skip_ws(src, left.pos)
      right == operand(src, at + 1, kw)
  IN IF Failed(left) THEN Failure
     ELSE IF ~ at_keyword(src, at, kw) THEN [left EXCEPT !.pos = at]
     ELSE IF Failed(right) THEN Failure
     ELSE rest_of_level(src, Parsed(IF kw = "OR" THEN Or(left.result, right.result)
                                    ELSE And(left.result, right.result), right.pos), kw)

parse_level(src, pos, kw) == rest_of_level(src, operand(src, pos, kw), kw)

parse_not(src, pos) ==
  LET at    == skip_ws(src, pos)
      inner == parse_not(src, at + 1)
  IN IF ~ at_keyword(src, at, "NOT") THEN parse_atom(src, at)
     ELSE IF Failed(inner) THEN Failure ELSE Parsed(Not(inner.result), inner.pos)

parse_atom(src, pos) ==
  LET inner == parse_level(src, pos + 1, "OR")
      close == skip_ws(src, inner.pos)
  IN CASE peek(src, pos) = "(" ->
            IF Failed(inner) \/ peek(src, close) # ")" THEN Failure
            ELSE Parsed(inner.result, close + 1)
       [] peek(src, pos) \in DOMAIN TagOf -> parse_predicate(src, pos)
       [] OTHER -> Failure

(* Nothing but blanks may follow.                                          *)
parse(src) ==
  LET p == parse_level(src, 1, "OR")
  IN IF Failed(p) \/ skip_ws(src, p.pos) <= Len(src) THEN Failure ELSE p

-----------------------------------------------------------------------------
(* Any occurrence of the tag may satisfy Eq or Re, and none Ne.            *)
eval_predicate(p, msg) ==
  LET of_tag == {msg[i][2] : i \in {j \in DOMAIN msg : msg[j][1] = p.tag}}
  IN CASE p.op = "="  -> \E v \in of_tag : TextOf[v] = p.text
       [] p.op = "!=" -> \A v \in of_tag : TextOf[v] # p.text
       [] p.op = "~"  -> of_tag \cap Regex[p.text] # {}

RECURSIVE matches(_, _)
matches(e, msg) ==
  CASE e.node = "Pred" -> eval_predicate(e, msg)
    [] e.node = "Not"  -> ~ matches(e.e, msg)
    [] e.node = "And"  -> matches(e.a, msg) /\ matches(e.b, msg)
    [] e.node = "Or"   -> matches(e.a, msg) \/ matches(e.b, msg)

(* A conjunction of equalities is a list of pairs, all else is None.       *)
RECURSIVE hot_equalities(_)
hot_equalities(e) ==
  CASE e.node = "Pred" -> IF e.op = "=" THEN <<e>> ELSE None
    [] e.node = "And"  -> LET a == hot_equalities(e.a)
                              b == hot_equalities(e.b)
                          IN IF a = None \/ b = None THEN None ELSE a \o b
    [] OTHER -> None
=============================================================================
