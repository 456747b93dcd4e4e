------------------------ MODULE MCSessionCorrections ------------------------
(* The questions of MCQuerySession with a query that holds every kind of        *)
(* condition and is cut; what is written again after a failure is not cut.   *)
EXTENDS MCQuerySession, SessionCorrections

MCLower == [a |-> "a", A |-> "a", b |-> "b"]
MCTexts == {<<>>, <<"a">>, <<"A">>, <<"b">>, <<"a", "b">>}

MCNamesOf == [q \in Questions \cup {None} |->
                IF q = None THEN <<>> ELSE <<<<"A">>, <<"A", "b">>, <<"a">>>>]

Line(kind) == [line |-> kind]
Aliased(kind, yes) == [line |-> kind, aliased |-> yes]
Cond(keyword, negated, lowered, prop, param, form) ==
  [line |-> "cond", keyword |-> keyword, negated |-> negated,
   lowered |-> lowered, prop |-> prop, param |-> param, form |-> form]

MCParams == {"names", "years", "other"}
Given == [names |-> <<Text(<<"a">>), Text(<<"a", "b", "b">>), Text(<<"b">>)>>,
          years |-> <<Number(<<"b">>), Text(<<"A">>)>>,
          other |-> <<Text(<<"A", "b">>)>>]

Query1 ==
  <<Line("match"),
    Cond(TRUE, "infix", FALSE, "name", "names", "in"),
    Cond(TRUE, "none", FALSE, "name", "years", "in"),
    Cond(TRUE, "prefix", FALSE, "status", "other", "in"),
    Cond(TRUE, "infix", TRUE, "name", "names", "in"),
    Cond(TRUE, "none", TRUE, "name", "other", "eq"),
    Cond(FALSE, "infix", FALSE, "name", "names", "in"),
    Aliased("with", TRUE),
    Line("match"),
    Cond(TRUE, "prefix", TRUE, "name", "names", "any"),
    Aliased("return", FALSE), Line("limit")>>

MCWritten == {[cypher |-> Query1, params |-> Given]}
=============================================================================
