-------------------------- MODULE CypherCorrections --------------------------
(***************************************************************************)
(* What is done to a Cypher query and its parameters between the LLM that   *)
(* wrote them and the database (domain/cypher, cypher_generator.py).        *)
(*                                                                         *)
(* A query is a sequence of lines.  A line that filters holds one           *)
(* condition: whether WHERE, AND or OR stands right before it (keyword), how *)
(* it is negated ("none", "infix" for x NOT IN, "prefix" for NOT x IN),      *)
(* whether toLower is applied (lowered), its property, the parameter it       *)
(* compares with and its form ("in", "eq", or "any" for the comparison of   *)
(* lower-case items that a correction makes).  A text is a sequence of      *)
(* letters, a parameter a sequence of values.                               *)
(***************************************************************************)
EXTENDS Integers, Sequences, SequencesExt, FiniteSets

CONSTANTS
  LowerOf,              \* the lower-case letter of each letter
  CaseInsensitiveProps, \* name, title, label, alias
  Params,               \* the parameters of a query
  Texts                 \* the texts that properties of nodes have

Comparison ==
  [line: {"cond"}, keyword: BOOLEAN, negated: {"none", "infix", "prefix"},
   lowered: BOOLEAN, prop: STRING, param: Params, form: {"in", "eq", "any"}]

\* What the LLM writes: only IN has an infix negation.
Lines ==
  [line: {"match", "order", "limit"}] \cup
  [line: {"with", "return"}, aliased: BOOLEAN] \cup
  {c \in Comparison : /\ c.negated = "infix" => c.form = "in"
                      /\ c.form = "any" => c.lowered}

Spelled == Seq(DOMAIN LowerOf)
Value == [number: BOOLEAN, text: Spelled]

ASSUME TextsAssumption == Texts \subseteq Spelled

Text(letters) == [number |-> FALSE, text |-> letters]
Number(digits) == [number |-> TRUE, text |-> digits]

Lower(text) == [i \in DOMAIN text |-> LowerOf[text[i]]]
Same(a, b) == Lower(a) = Lower(b)
Within(a, b) == \E i \in 0 .. Len(b) - Len(a) :
                  Lower(a) = Lower(SubSeq(b, i + 1, i + Len(a)))

-----------------------------------------------------------------------------
(* The query                                                                 *)

\* x NOT IN $p becomes NOT x IN $p.
FixNotInSyntax(cypher) ==
  [i \in DOMAIN cypher |->
     IF cypher[i].line = "cond" /\ cypher[i].keyword /\ cypher[i].negated = "infix"
     THEN [cypher[i] EXCEPT !.negated = "prefix"] ELSE cypher[i]]

Converted(c) ==
  /\ c.line = "cond" /\ c.keyword /\ ~c.lowered /\ c.form = "in"
  /\ c.negated \in {"none", "prefix"} /\ c.prop \in CaseInsensitiveProps

\* x IN $p becomes ANY(_item IN $p WHERE toLower(x) = toLower(_item)), and its
\* negation NONE(...).
FixInClauseToToLower(cypher) ==
  [i \in DOMAIN cypher |->
     IF Converted(cypher[i])
     THEN [cypher[i] EXCEPT !.form = "any", !.lowered = TRUE] ELSE cypher[i]]

FirstOf(places) == CHOOSE i \in places : \A j \in places : i <= j

\* 0 when there is none
FirstLine(cypher, from, kind) ==
  LET places == {i \in DOMAIN cypher : i >= from /\ cypher[i].line = kind}
  IN IF places = {} THEN 0 ELSE FirstOf(places)

\* A query that aggregates and then matches again loses its aggregates in the
\* RETURN: it is cut before the second MATCH and returns the aliases.
FixAggregationTypeAReturn(cypher) ==
  LET with == FirstLine(cypher, 1, "with")
      match == FirstLine(cypher, with + 1, "match")
      return == FirstLine(cypher, match, "return")
  IN IF 0 \in {with, match, return} \/ ~cypher[with].aliased
        \/ cypher[return].aliased
     THEN cypher
     ELSE SubSeq(cypher, 1, match - 1)
            \o <<[line |-> "return", aliased |-> TRUE], [line |-> "order"]>>

-----------------------------------------------------------------------------
(* Its parameters                                                            *)

ShortestOf(es, places) ==
  es[FirstOf({i \in places : \A j \in places : Len(es[i]) <= Len(es[j])})]

LongestOf(es, places) ==
  es[FirstOf({i \in places : \A j \in places : Len(es[i]) >= Len(es[j])})]

CorrectSingleValueMutant(value, es) == \* the shortest of the contained names
  LET exact == {i \in DOMAIN es : Same(es[i], value)}
      contained == {i \in DOMAIN es : Within(es[i], value)}
  IN CASE exact # {} -> es[FirstOf(exact)]
       [] exact = {} /\ contained # {} -> ShortestOf(es, contained)
       [] OTHER -> value

\* A text of the LLM becomes the name that was extracted from the question:
\* the same one, else the longest it contains, else the shortest containing it.
CorrectSingleValue(value, es) ==
  LET exact == {i \in DOMAIN es : Same(es[i], value)}
      contained == {i \in DOMAIN es : Within(es[i], value)}
      containing == {i \in DOMAIN es : Within(value, es[i])}
  IN CASE exact # {} -> es[FirstOf(exact)]
       [] exact = {} /\ contained # {} -> LongestOf(es, contained)
       [] exact = {} /\ contained = {} /\ containing # {} ->
            ShortestOf(es, containing)
       [] OTHER -> value

CorrectParameters(params, es) ==
  [p \in DOMAIN params |-> [i \in DOMAIN params[p] |->
     IF params[p][i].number THEN params[p][i]
     ELSE Text(CorrectSingleValue(params[p][i].text, es))]]

\* toLower($p), or toLower of the items of $p.
ToLowerParams(cypher) ==
  {c.param : c \in {x \in {cypher[i] : i \in DOMAIN cypher} :
                      x.line = "cond" /\ x.lowered /\ x.form \in {"eq", "any"}}}

CoerceToLowerParamsMutant(cypher, params) == \* only toLower($p) is looked for
  LET direct == {c.param : c \in {x \in {cypher[i] : i \in DOMAIN cypher} :
                                    x.line = "cond" /\ x.lowered /\ x.form = "eq"}}
  IN [p \in DOMAIN params |->
        IF p \in direct
        THEN [i \in DOMAIN params[p] |-> Text(params[p][i].text)] ELSE params[p]]

\* toLower of a number would be an error of the database.
CoerceToLowerParams(cypher, params) ==
  [p \in DOMAIN params |->
     IF p \in ToLowerParams(cypher)
     THEN [i \in DOMAIN params[p] |-> Text(params[p][i].text)] ELSE params[p]]

ApplyCorrectionsMutant(cypher, params, es) == \* converted before canonical
  LET fixed == FixAggregationTypeAReturn(
                 FixNotInSyntax(FixInClauseToToLower(cypher)))
  IN [cypher |-> fixed,
      params |-> CoerceToLowerParams(fixed, CorrectParameters(params, es))]

ApplyCorrections(cypher, params, es) ==
  LET fixed == FixAggregationTypeAReturn(
                 FixInClauseToToLower(FixNotInSyntax(cypher)))
  IN [cypher |-> fixed,
      params |-> CoerceToLowerParams(fixed, CorrectParameters(params, es))]

-----------------------------------------------------------------------------
(* What the database makes of a condition                                    *)

Executable(c) == c.negated # "infix"

\* Whether the condition c passes a row whose property is the text v.  A number
\* is no text; toLower(x.name) IN $p compares with the items as they are.
Passes(c, v, items) ==
  LET texts == {items[i].text : i \in {j \in DOMAIN items : ~items[j].number}}
      matches == CASE c.form = "in" -> (IF c.lowered THEN Lower(v) ELSE v) \in texts
                   [] OTHER -> \E t \in texts :
                                 IF c.lowered THEN Same(t, v) ELSE t = v
  IN (c.negated # "none") # matches

\* Whether it should: x.name IN $p is meant whatever the case of the names,
\* every other condition is meant as it was written.
Intended(c, v, items) ==
  Passes(IF c.keyword /\ ~c.lowered /\ c.form = "in"
              /\ c.prop \in CaseInsensitiveProps
         THEN [c EXCEPT !.form = "any", !.lowered = TRUE] ELSE c, v, items)

\* d asks what c asks for.
Keeps(c, d, params) ==
  IF c.line # "cond" THEN d = c
  ELSE /\ d.line = "cond" /\ d.param = c.param
       /\ c.keyword => Executable(d)
       /\ \A v \in Texts :
            Passes(d, v, params[c.param]) = Intended(c, v, params[c.param])

\* A query keeps its lines, but one that aggregates, matches again and returns
\* no aliases loses those from the second MATCH on.
KeepsLines(cypher, out, params) ==
  LET Kept(n) == \A i \in 1 .. n : Keeps(cypher[i], out[i], params)
  IN \/ Len(out) = Len(cypher) /\ Kept(Len(cypher))
     \/ \E with, match, return \in DOMAIN cypher :
          /\ with < match /\ match <= return
          /\ cypher[with].line = "with" /\ cypher[with].aliased
          /\ cypher[match].line = "match"
          /\ cypher[return].line = "return" /\ ~cypher[return].aliased
          /\ Len(out) = match + 1 /\ Kept(match - 1)
          /\ out[match] = [line |-> "return", aliased |-> TRUE]
          /\ out[match + 1] = [line |-> "order"]

\* A value is the one that was written, or a name, the longest of those it
\* contains.  What is given to toLower is text.
KeepsValue(value, out, es, lower) ==
  /\ value.number => out = IF lower THEN Text(value.text) ELSE value
  /\ ~value.number =>
       /\ ~out.number
       /\ out.text # value.text => out.text \in Range(es)
       /\ \A e \in Range(es) : Within(e, value.text) =>
            ~(Within(out.text, e) /\ Len(out.text) < Len(e))

=============================================================================
