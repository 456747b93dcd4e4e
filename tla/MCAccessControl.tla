---- MODULE MCAccessControl ----
(***************************************************************************)
(* Two users whose names differ in case, five spellings of roles, and two  *)
(* statements: one that reads people, their department, skills, mentors,   *)
(* concepts, a node of two labels, a list of nodes and a path, and one     *)
(* that writes.                                                            *)
(***************************************************************************)
EXTENDS AccessControl, TLC

MCProps == {"name", "job_type", "hourly_rate", "department", "proficiency", "rate_factor",
            "years_used", "level"}

MCLower(x) == CASE x = "Manager" -> "manager"
                [] x = "Kim" -> "kim"
                [] x = "BACKEND" -> "backend"
                [] OTHER -> x

Node(labels, props) == [kind |-> "node", labels |-> labels, props |-> props]
Rel(type, props) == [kind |-> "rel", type |-> type, props |-> props]
Nested(items) == [kind |-> "nested", items |-> items]

Person(name, department) ==
    Node(<<"Employee">>, [name |-> name, job_type |-> "dev", hourly_rate |-> "9", department |-> department])

MCStatements == {"read", "delete"}
MCWrites == {"delete"}
MCRows ==
    [read |->
       {<<Person("a", "backend"), Rel("BELONGS_TO", [level |-> "1"]),
          Node(<<"Department">>, [name |-> "backend", level |-> "3"])>>,
        <<Person("b", "data"), Rel("HAS_SKILL", [proficiency |-> "5", rate_factor |-> "2"]),
          Node(<<"Skill">>, [name |-> "s", level |-> "2"])>>,
        <<Node(<<"Employee">>, [name |-> "c", hourly_rate |-> "7"])>>,
        <<Node(<<"Concept">>, [name |-> "c"])>>,
        <<Node(<<"Skill", "Concept">>, [name |-> "s"])>>,
        <<Person("a", "backend"), Rel("MENTORS", [level |-> "2"]), Person("b", "data")>>,
        <<Node(<<"Department">>, [name |-> "data"]),
          Nested(<<Person("a", "backend"), Node(<<"Concept">>, [name |-> "c"])>>)>>,
        <<Nested(<<Person("a", "backend"), Rel("MENTORS", [level |-> "2"]), Person("b", "data")>>)>>,
        <<[kind |-> "scalar", value |-> "1"]>>},
     delete |-> {}]

MCRoleNames == DefaultRoles \cup {"Manager"}
MCRoleLists == {{"editor", "Manager"}}
MCDepartments == {NoDepartment, "BACKEND"}
MCNobody == "nobody"
MCNoStatement == "none"
MCNames == {"kim", "Kim"}
MCPasswords == {"p1"}
MCQuestions == {"q1"}

RequestSymmetry == Permutations(Requests) \cup Permutations(Ids)
====
