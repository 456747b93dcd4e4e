---------------------------- MODULE ConceptGraph ----------------------------
(***************************************************************************)
(* The Concept nodes of Neo4j and their two kinds of writer:                *)
(*  - the application of approved proposals, services/ontology_service.py   *)
(*    (apply_proposal_to_ontology), a request that makes several calls of   *)
(*    neo4j_ontology_concept_repository.py;                                 *)
(*  - scripts/migrate_ontology.py, which copies the YAML files in five      *)
(*    statements and may be stopped and run again.                          *)
(* Each call is one step and any step of another writer may come between.   *)
(***************************************************************************)
EXTENDS YamlOntology, FiniteSets

CONSTANTS
  Types,       \* types of concepts: the YAML ones and categories of proposals
  Tasks,       \* requests that apply a proposal
  Proposals,   \* the approved proposals an instance has
  None,        \* an optional field left out, or no such node
  MaxRuns,     \* bound: the times the migration is started
  MaxFailures  \* bound: the database calls that fail

ASSUME ConceptAssumption ==
  /\ Fold \in [Names -> Names]
  /\ {"skill", "category", "subcategory"} \subseteq Types
  /\ None \notin Names
  /\ MaxRuns \in Nat /\ MaxFailures \in Nat
  /\ Proposals \subseteq
       [kind: {"concept", "synonym", "relation"}, term: Names,
        parent: Names \cup {None}, canonical: Names \cup {None},
        relation: {"IS_A", "SAME_AS", "REQUIRES", "PART_OF", "OTHER", None},
        category: Types]

VARIABLES
  concept,   \* the node with a name and a type: its flag and its source
  edges,     \* <<relation, from, to>>
  proposal,  \* what each request applies
  pc,        \* where each request is
  at,        \* the step of its plan each request is at
  mig,       \* where the migration is
  runs,      \* migrations started
  failures   \* calls that have failed

writers == <<proposal, pc, at>>
graph == <<concept, edges>>
vars == <<concept, edges, proposal, pc, at, mig, runs, failures>>

-----------------------------------------------------------------------------
(* Statements of the concept repository                                     *)

Node == Names \X Types
Concept == [canonical: BOOLEAN, source: {"yaml", "proposal"}]
Stored == {n \in Node : concept[n] # None}

\* toLower(c.name) = toLower($name)
Called(name) == {n \in Stored : Fold[n[1]] = Fold[name]}
Exactly(name) == {n \in Stored : n[1] = name}

CreatedMutant(name, type, canonical) == \* existing.name = $name
  IF Exactly(name) # {} THEN concept
  ELSE [concept EXCEPT ![<<name, type>>] =
          [canonical |-> canonical, source |-> "proposal"]]

CreatedOverwrites(name, type, canonical) == \* ON MATCH SET is_canonical too
  [n \in Node |->
     IF n \in Called(name) \/ (Called(name) = {} /\ n = <<name, type>>)
     THEN [canonical |-> canonical, source |-> "proposal"] ELSE concept[n]]

\* create_or_get_concept: a node of that name in any case is kept as it is.
Created(name, type, canonical) ==
  IF Called(name) # {} THEN concept
  ELSE [concept EXCEPT ![<<name, type>>] =
          [canonical |-> canonical, source |-> "proposal"]]

LinkedMutant(rel, from, to) == \* the nodes are merged by name and type
  edges \cup {<<rel, <<from, "skills">>, <<to, "skills">>>>}

\* create_is_a_relation and its three likes: MERGE between all that match.
Linked(rel, from, to) ==
  edges \cup {<<rel, a, b>> : a \in Called(from), b \in Called(to)}

Failure == failures < MaxFailures /\ failures' = failures + 1

-----------------------------------------------------------------------------
(* Applying a proposal                                                      *)

Ensure(name) == [name |-> name, check |-> TRUE, canonical |-> TRUE]
Create(name, canonical) ==
  [name |-> name, check |-> FALSE, canonical |-> canonical]

Target(q) == IF q.parent # None THEN q.parent ELSE q.canonical

PlanMutant(q) == \* the synonym is stored before what it is a synonym of
  IF q.kind = "synonym" THEN <<Create(q.term, FALSE), Ensure(q.canonical)>>
  ELSE <<Create(q.term, TRUE)>>

\* The concepts that have to be there before the relation, in order.
Plan(q) ==
  CASE q.kind = "concept" /\ q.parent = None -> <<Create(q.term, TRUE)>>
    [] q.kind = "concept" /\ q.parent # None ->
         <<Create(q.term, TRUE), Ensure(q.parent)>>
    [] q.kind = "synonym" -> <<Ensure(q.canonical), Create(q.term, FALSE)>>
    [] q.kind = "relation" -> <<Ensure(q.term), Ensure(Target(q))>>

\* The relation at the end; None when the proposal has none.
Relation(q) ==
  CASE q.kind = "concept" -> IF q.parent = None THEN None ELSE "IS_A"
    [] q.kind = "synonym" -> "SAME_AS"
    [] OTHER -> IF q.relation = None THEN "IS_A" ELSE q.relation

RelatedTo(q) == IF q.kind = "synonym" THEN q.canonical ELSE Target(q)

\* suggested_canonical, or suggested_parent or suggested_canonical, is asked for
Incomplete(q) == q.kind # "concept" /\ RelatedTo(q) = None

Goto(t, l) == pc' = [pc EXCEPT ![t] = l]
Current(t) == Plan(proposal[t])[at[t]]
StepLabel(q, i) ==
  IF i > Len(Plan(q)) THEN "relate"
  ELSE IF Plan(q)[i].check THEN "check" ELSE "create"
NextStep(t) == /\ at' = [at EXCEPT ![t] = @ + 1]
               /\ Goto(t, StepLabel(proposal[t], at[t] + 1))

\* apply_proposal_to_ontology
Begin(t) ==
  /\ pc[t] = "idle"
  /\ \E q \in Proposals :
       /\ proposal' = [proposal EXCEPT ![t] = q]
       /\ at' = [at EXCEPT ![t] = 1]
       /\ Goto(t, IF Incomplete(q) THEN "error" ELSE StepLabel(q, 1))
  /\ UNCHANGED <<graph, mig, runs, failures>>

\* concept_exists: a failing query counts as absent.
Check(t) ==
  /\ pc[t] = "check"
  /\ \/ /\ Called(Current(t).name) # {}
        /\ NextStep(t) /\ UNCHANGED failures
     \/ /\ Called(Current(t).name) = {}
        /\ Goto(t, "create") /\ UNCHANGED <<at, failures>>
     \/ /\ Failure
        /\ Goto(t, "create") /\ UNCHANGED at
  /\ UNCHANGED <<graph, proposal, mig, runs>>

\* create_or_get_concept, which raises when it fails
CreateConcept(t) ==
  /\ pc[t] = "create"
  /\ LET s == Current(t)
     IN \/ /\ concept' = Created(s.name, proposal[t].category, s.canonical)
           /\ NextStep(t) /\ UNCHANGED failures
        \/ /\ Failure
           /\ Goto(t, "error") /\ UNCHANGED <<concept, at>>
  /\ UNCHANGED <<edges, proposal, mig, runs>>

RelateMutant(t) == \* the answer of the statement is not looked at
  /\ pc[t] = "relate" /\ Relation(proposal[t]) # None
  /\ \/ /\ edges' = Linked(Relation(proposal[t]), proposal[t].term,
                          RelatedTo(proposal[t]))
        /\ UNCHANGED failures
     \/ Failure /\ UNCHANGED edges
  /\ Goto(t, "applied")
  /\ UNCHANGED <<concept, proposal, at, mig, runs>>

\* The relation of the proposal, or none.  A statement that fails or matches
\* nothing answers False.
Relate(t) ==
  /\ pc[t] = "relate"
  /\ LET q == proposal[t]
         rel == Relation(q)
         known == rel \in {"IS_A", "SAME_AS", "REQUIRES", "PART_OF"}
     IN \/ /\ known
           /\ edges' = Linked(rel, q.term, RelatedTo(q))
           /\ Goto(t, IF Called(q.term) # {} /\ Called(RelatedTo(q)) # {}
                      THEN "applied" ELSE "refused")
           /\ UNCHANGED failures
        \/ /\ known /\ Failure
           /\ Goto(t, "refused") /\ UNCHANGED edges
        \/ /\ ~known
           /\ Goto(t, IF rel = None THEN "applied" ELSE "refused")
           /\ UNCHANGED <<edges, failures>>
  /\ UNCHANGED <<concept, proposal, at, mig, runs>>

\* The server stops in the middle of a request.
Stop(t) ==
  /\ pc[t] \in {"check", "create", "relate"}
  /\ Failure /\ Goto(t, "stopped")
  /\ UNCHANGED <<graph, proposal, at, mig, runs>>

-----------------------------------------------------------------------------
(* Migration of the YAML files                                              *)

GroupSet == Range(Groups)
Mentioned(i) == {Groups[i].canonical} \cup Range(Groups[i].aliases)
Skills == UNION {Mentioned(i) : i \in DOMAIN Groups}
Subs(top) == Range(top.subs)

\* In the UNWIND the first row that has a name creates its node.
Canonicals ==
  {name \in Skills : \E i \in DOMAIN Groups :
     /\ Groups[i].canonical = name
     /\ \A j \in DOMAIN Groups : name \in Mentioned(j) => i <= j}

\* {child, parent} rows of _migrate_hierarchy
Hierarchy ==
  UNION {  {<<s, top.name>> : s \in Range(top.skills)}
      \cup {<<sub.name, top.name>> : sub \in Subs(top)}
      \cup UNION {{<<s, sub.name>> : s \in Range(sub.skills)} :
                    sub \in Subs(top)}
    : top \in Range(Categories)}

CategoryNodes ==
  {<<top.name, "category">> : top \in Range(Categories)} \cup
  UNION {{<<sub.name, "subcategory">> : sub \in Subs(top)} :
           top \in Range(Categories)}

SkillNodes == {<<s, "skill">> : s \in Skills}

ASSUME FilesAssumption ==
  SkillNodes \cup CategoryNodes \subseteq Node /\ None \notin Concept

SynonymEdges ==
  UNION {{<<"SAME_AS", <<a, "skill">>, <<g.canonical, "skill">>>> :
            a \in Range(g.aliases)} : g \in GroupSet}

\* _batch_create_concepts: MERGE on name and type, set on creation only
Merged(new, canonical) ==
  [n \in Node |-> IF n \in new \ Stored
                  THEN [canonical |-> n[1] \in canonical, source |-> "yaml"]
                  ELSE concept[n]]

Migrating == {"skills", "same_as", "categories", "is_a"}

\* migrate(); the constraint of _create_indexes is on name and type, which no
\* writer doubles.
StartMigration ==
  /\ mig \notin Migrating /\ runs < MaxRuns
  /\ mig' = "skills" /\ runs' = runs + 1
  /\ UNCHANGED <<graph, writers, failures>>

MigrateSkillsMutant == \* only a graph without concepts is filled
  /\ mig = "skills" /\ mig' = "same_as"
  /\ concept' = IF Stored = {} THEN Merged(SkillNodes, Canonicals) ELSE concept
  /\ UNCHANGED <<edges, writers, runs, failures>>

MigrateSkills ==
  /\ mig = "skills" /\ mig' = "same_as"
  /\ concept' = Merged(SkillNodes, Canonicals)
  /\ UNCHANGED <<edges, writers, runs, failures>>

\* _batch_create_same_as
MigrateSynonyms ==
  /\ mig = "same_as" /\ mig' = "categories"
  /\ edges' = edges \cup {e \in SynonymEdges : e[2] \in Stored /\ e[3] \in Stored}
  /\ UNCHANGED <<concept, writers, runs, failures>>

MigrateCategories ==
  /\ mig = "categories" /\ mig' = "is_a"
  /\ concept' = Merged(CategoryNodes, Names)
  /\ UNCHANGED <<edges, writers, runs, failures>>

\* _batch_create_is_a matches by name, whatever the type.
MigrateHierarchy ==
  /\ mig = "is_a" /\ mig' = "done"
  /\ edges' = edges \cup
       UNION {{<<"IS_A", a, b>> : a \in Exactly(r[1]), b \in Exactly(r[2])} :
                r \in Hierarchy}
  /\ UNCHANGED <<concept, writers, runs, failures>>

\* A statement fails or the script is stopped: nothing is undone.
FailMigration ==
  /\ mig \in Migrating /\ mig' = "failed"
  /\ Failure
  /\ UNCHANGED <<graph, writers, runs>>

-----------------------------------------------------------------------------
Init ==
  /\ concept = [n \in Node |-> None]
  /\ edges = {}
  /\ proposal = [t \in Tasks |-> None]
  /\ pc = [t \in Tasks |-> "idle"]
  /\ at = [t \in Tasks |-> 0]
  /\ mig = "idle" /\ runs = 0 /\ failures = 0

Apply(t) == Check(t) \/ CreateConcept(t) \/ Relate(t)

Migrate ==
  \/ StartMigration \/ MigrateSkills \/ MigrateSynonyms
  \/ MigrateCategories \/ MigrateHierarchy \/ FailMigration

Next == \/ \E t \in Tasks : Begin(t) \/ Apply(t) \/ Stop(t)
        \/ Migrate

Spec == Init /\ [][Next]_vars
-----------------------------------------------------------------------------
(* Properties                                                               *)

Relations == {"IS_A", "SAME_AS", "REQUIRES", "PART_OF"}

\* Concepts, relations, requests and the migration stay within what the code
\* can put in them (types of ontology_service.py and migrate_ontology.py).
TypeOK ==
  /\ concept \in [Node -> Concept \cup {None}]
  /\ edges \subseteq Relations \X Node \X Node
  /\ \A e \in edges : concept[e[2]] # None /\ concept[e[3]] # None
  /\ proposal \in [Tasks -> Proposals \cup {None}]
  /\ pc \in [Tasks -> {"idle", "check", "create", "relate", "applied",
                       "refused", "error", "stopped"}]
  /\ at \in [Tasks -> 0 .. 3]
  /\ mig \in Migrating \cup {"idle", "done", "failed"}
  /\ runs \in 0 .. MaxRuns /\ failures \in 0 .. MaxFailures

\* Applying proposals never gives a name a second concept in another case or
\* of another type: two concepts of one name are there only if the migration,
\* which compares case and type, made one of them (create_or_get_concept).
ProposalsNameOnce ==
  LET own == {n \in Stored : concept[n].source = "proposal"}
  IN \A m, n \in own : Fold[m[1]] = Fold[n[1]] => m = n

\* A request that reports a proposal as applied leaves a concept of its term
\* stored, and the relation the proposal asks for between two concepts that
\* carry the names it found, however other requests and the migration
\* interleave and whatever check failed on the way (ontology_service.py:540-733).
AppliedIsLinked ==
  \A t \in Tasks :
    pc[t] = "applied" =>
      LET q == proposal[t]
      IN /\ Called(q.term) # {}
         /\ Relation(q) # None =>
              \E a \in Called(q.term), b \in Called(RelatedTo(q)) :
                <<Relation(q), a, b>> \in edges

\* The concept of an approved synonym that is not the synonym of anything is
\* left behind only by a request that has not ended or did not succeed.
LoneAliasHasCause ==
  \A n \in Stored :
    \/ concept[n] # [canonical |-> FALSE, source |-> "proposal"]
    \/ \E e \in edges : e[1] = "SAME_AS" /\ e[2] = n
    \/ \E t \in Tasks : /\ pc[t] \in {"relate", "refused", "stopped"}
                        /\ proposal[t].kind = "synonym"
                        /\ Fold[proposal[t].term] = Fold[n[1]]

\* When the migration has come to its end, after however many runs that were
\* cut off anywhere, all of synonyms.yaml is in the graph, and all of the tree
\* of schema.yaml whose child has an entry of its own (migrate_ontology.py).
MigratedIsStored ==
  mig = "done" =>
    /\ SkillNodes \cup CategoryNodes \subseteq Stored
    /\ SynonymEdges \subseteq edges
    /\ \A r \in Hierarchy : \A a, b \in SkillNodes \cup CategoryNodes :
         a[1] = r[1] /\ b[1] = r[2] => <<"IS_A", a, b>> \in edges

\* Neither an approval nor another run of the migration takes a concept or a
\* relation away or turns a canonical concept into an alias or back.
ConceptsKept ==
  [][/\ \A n \in Stored : concept'[n] = concept[n]
     /\ edges \subseteq edges']_vars

\* However requests and runs of the migration interleave and are cut off, the
\* concepts are what the two of them ask for, and no more.
ConceptsSound ==
  TypeOK /\ ProposalsNameOnce /\ LoneAliasHasCause /\ MigratedIsStored
=============================================================================
