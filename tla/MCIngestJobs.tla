---------------------------- MODULE MCIngestJobs ----------------------------
(* Two files over two kinds of row.  Of the edges the LLM proposes one has   *)
(* the wrong direction, one an end without a node, and one is unsure.        *)
EXTENDS IngestJobs

Row(l, s, n, r, ref) ==
  [label |-> l, strong |-> s, name |-> n, rest |-> r, ref |-> ref]

Kim == Row("Employee", "kim@", "kim", None, "Kim")
Go == Row("Skill", None, "go", None, "Go")

Relation(from, type, to, sure) ==
  [from |-> from, type |-> type, to |-> to, sure |-> sure]

MCValidRelations == [HAS_SKILL |-> <<"Employee", "Skill">>,
                     MENTORS |-> <<"Employee", "Employee">>]

MCReplies ==
  [person |-> {[nodes |-> <<Kim, Go>>,
                edges |-> {Relation("Kim", "HAS_SKILL", "Go", TRUE),
                           Relation("Go", "HAS_SKILL", "Kim", TRUE),
                           Relation("Kim", "HAS_SKILL", "Rust", TRUE),
                           Relation("Kim", "MENTORS", "Kim", FALSE)}]},
   skill |-> {[nodes |-> <<Go>>, edges |-> {}]}]

MCDocuments == DOMAIN MCReplies

MCRows == [u \in Uploads |-> IF u = CHOOSE v \in Uploads : TRUE
                             THEN <<"skill", "skill", "person">>
                             ELSE <<"person">>]

MCDeletable == {EntityId(Go)}
=============================================================================
