---------------------------- MODULE MCBootstrap ----------------------------
\* Two documents, one of them longer than a chunk; the LLM may answer with a
\* fact in either spelling of a name, twice with different confidence, with a
\* relation that cannot be a type, or with facts that must be left out.
EXTENDS Bootstrap

MCDocuments == <<"short", "long">>
MCLength == [short |-> 3, long |-> 6]
MCLower == [kim |-> "kim", Kim |-> "kim", db |-> "db", ml |-> "ml"]

Uses == <<"a">>
Needs == <<"a", "A">>
Dots == <<".">>

Raw(s, r, o, c) == [subject |-> s, relation |-> r, object |-> o, confidence |-> c]

MCReplies ==
  { <<Raw("kim", Uses, "db", 2), Raw("kim", Uses, "db", 1)>>,
    <<Raw("Kim", Needs, "db", 2), Raw("db", Uses, "kim", 0), Raw("kim", Dots, "ml", 1)>>,
    <<Raw("db", Uses, "db", 3), Raw("", Uses, "db", 2)>> }

MCGroupings ==
  { << >>,
    <<[canonical |-> Needs, variants |-> <<Uses, Needs>>],
      [canonical |-> <<"A">>, variants |-> <<Uses>>]>> }

MCMaxRuns == [extract |-> 2, normalize |-> 1, load |-> 2]
MCOneRun == [extract |-> 1, normalize |-> 0, load |-> 0]
=============================================================================
