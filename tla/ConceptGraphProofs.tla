-------------------------- MODULE ConceptGraphProofs --------------------------
(***************************************************************************)
(* What holds of the Concept nodes for any names, types, files and          *)
(* proposals and any number of requests.  The graph only grows, so what a   *)
(* request has made sure of stays true while others write; the inductive    *)
(* invariant says what each request has made sure of so far (Prepared) and   *)
(* what each statement of the migration has stored (Migrated).              *)
(***************************************************************************)
EXTENDS OntologyReaders, FiniteSetTheorems, TLAPS

Busy == {"check", "create", "relate"}
Begun == Busy \cup {"applied", "refused", "stopped"}

\* A request at step i of the plan of q may be at the label l.
Fits(l, i, q) ==
  /\ l \in Begun \cup {"error"} /\ i \in 0 .. 3 /\ q \in Proposals
  /\ l \in Begun => ~Incomplete(q) /\ i \in 1 .. Len(Plan(q)) + 1
  /\ l \in {"check", "create"} => i \in 1 .. Len(Plan(q))
  /\ l \in {"relate", "applied", "refused"} => i = Len(Plan(q)) + 1

\* Where the requests are in the plans of their proposals.
Placed ==
  /\ proposal \in [Tasks -> Proposals \cup {None}]
  /\ pc \in [Tasks -> Begun \cup {"idle", "error"}]
  /\ at \in [Tasks -> 0 .. 3]
  /\ \A t \in Tasks : pc[t] # "idle" => Fits(pc[t], at[t], proposal[t])

\* The concepts before the current step of a plan are there.
Prepared ==
  \A t \in Tasks :
    pc[t] \in Begun =>
      \A i \in 1 .. at[t] - 1 :
        \E n \in Stored : Fold[n[1]] = Fold[Plan(proposal[t])[i].name]

GraphOK ==
  /\ concept \in [Node -> Concept \cup {None}]
  /\ edges \subseteq Relations \X Node \X Node
  /\ \A e \in edges : concept[e[2]] # None /\ concept[e[3]] # None

\* The graph of the next state holds all of this one.
Grows ==
  /\ \A n \in Stored : concept'[n] = concept[n]
  /\ edges \subseteq edges'

-----------------------------------------------------------------------------
(* Plans                                                                    *)

\* A complete proposal has a plan of one or two steps about names.
LEMMA PlanShape ==
  ASSUME NEW q \in Proposals, ~Incomplete(q)
  PROVE  /\ Len(Plan(q)) \in 1 .. 2
         /\ \A i \in 1 .. Len(Plan(q)) : Plan(q)[i].name \in Names
         /\ \A i \in 1 .. Len(Plan(q)) :
              \/ Plan(q)[i].canonical = TRUE
              \/ Plan(q)[i].canonical = FALSE /\ q.kind = "synonym" /\ i = 2
         /\ \E i \in 1 .. Len(Plan(q)) : Plan(q)[i].name = q.term
         /\ q.kind = "synonym" => Len(Plan(q)) = 2 /\ Plan(q)[2].name = q.term
<1>1. /\ q.kind \in {"concept", "synonym", "relation"} /\ q.term \in Names
      /\ q.parent \in Names \cup {None} /\ q.canonical \in Names \cup {None}
  BY ConceptAssumption
<1>2. CASE q.kind = "concept" /\ q.parent = None
  <2>1. Plan(q) = <<[name |-> q.term, check |-> FALSE, canonical |-> TRUE]>>
    BY <1>2 DEF Plan, Create
  <2>2. Len(Plan(q)) = 1 /\ Plan(q)[1].name = q.term /\ Plan(q)[1].canonical = TRUE
    BY <2>1
  <2> QED BY <1>1, <1>2, <2>2
<1>3. CASE q.kind = "concept" /\ q.parent # None
  <2>1. Plan(q) = <<[name |-> q.term, check |-> FALSE, canonical |-> TRUE],
                    [name |-> q.parent, check |-> TRUE, canonical |-> TRUE]>>
    BY <1>3 DEF Plan, Create, Ensure
  <2>2. /\ Len(Plan(q)) = 2
        /\ Plan(q)[1].name = q.term /\ Plan(q)[1].canonical = TRUE
        /\ Plan(q)[2].name = q.parent /\ Plan(q)[2].canonical = TRUE
    BY <2>1
  <2> QED BY <1>1, <1>3, <2>2
<1>4. CASE q.kind = "synonym"
  <2>1. Plan(q) = <<[name |-> q.canonical, check |-> TRUE, canonical |-> TRUE],
                    [name |-> q.term, check |-> FALSE, canonical |-> FALSE]>>
    BY <1>4 DEF Plan, Create, Ensure
  <2>2. q.canonical \in Names
    BY <1>1, <1>4 DEF Incomplete, RelatedTo
  <2>3. /\ Len(Plan(q)) = 2
        /\ Plan(q)[1].name = q.canonical /\ Plan(q)[1].canonical = TRUE
        /\ Plan(q)[2].name = q.term /\ Plan(q)[2].canonical = FALSE
    BY <2>1
  <2> QED BY <1>1, <1>4, <2>2, <2>3
<1>5. CASE q.kind = "relation"
  <2>1. Plan(q) = <<[name |-> q.term, check |-> TRUE, canonical |-> TRUE],
                    [name |-> Target(q), check |-> TRUE, canonical |-> TRUE]>>
    BY <1>5 DEF Plan, Ensure
  <2>2. Target(q) \in Names
    BY <1>1, <1>5 DEF Incomplete, RelatedTo, Target
  <2>3. /\ Len(Plan(q)) = 2
        /\ Plan(q)[1].name = q.term /\ Plan(q)[1].canonical = TRUE
        /\ Plan(q)[2].name = Target(q) /\ Plan(q)[2].canonical = TRUE
    BY <2>1
  <2> QED BY <1>1, <1>5, <2>2, <2>3
<1> QED BY <1>1, <1>2, <1>3, <1>4, <1>5

-----------------------------------------------------------------------------
(* One statement                                                            *)

\* What create_or_get_concept writes: nothing, or a first concept of that name.
LEMMA CreateWrites ==
  ASSUME GraphOK, NEW name \in Names, NEW type \in Types,
         NEW c \in {TRUE, FALSE}, concept' = Created(name, type, c)
  PROVE  /\ concept' \in [Node -> Concept \cup {None}]
         /\ \A n \in Stored : concept'[n] = concept[n]
         /\ \E n \in Stored' : Fold[n[1]] = Fold[name]
         /\ \A n \in Node :
              \/ concept'[n] = concept[n]
              \/ /\ n = <<name, type>> /\ Called(name) = {}
                 /\ concept'[n] = [canonical |-> c, source |-> "proposal"]
<1> DEFINE new == [canonical |-> c, source |-> "proposal"]
           node == <<name, type>>
<1>1. node \in Node /\ new \in Concept /\ new # None
  <2>1. node \in Node
    BY DEF Node
  <2>2. new \in Concept
    BY DEF Concept
  <2> QED BY <2>1, <2>2, FilesAssumption
<1>2. CASE Called(name) # {}
  <2>1. UNCHANGED concept
    BY <1>2 DEF Created
  <2> QED BY <1>2, <2>1 DEF GraphOK, Called, Stored
<1>3. CASE Called(name) = {}
  <2>1. concept' = [concept EXCEPT ![node] = new]
    BY <1>3 DEF Created
  <2>2. node \notin Stored
    BY <1>3 DEF Called
  <2>3. node \in Stored'
    BY <1>1, <2>1 DEF Stored, GraphOK
  <2> HIDE DEF new
  <2>4. concept' \in [Node -> Concept \cup {None}]
    BY <1>1, <2>1 DEF GraphOK
  <2>5. \A n \in Node : concept'[n] = IF n = node THEN new ELSE concept[n]
    BY <1>1, <2>1 DEF GraphOK
  <2>6. \E n \in Stored' : Fold[n[1]] = Fold[name]
    BY <2>3
  <2>7. \A n \in Stored : concept'[n] = concept[n]
    BY <2>2, <2>5 DEF Stored
  <2> QED BY <1>3, <2>4, <2>5, <2>6, <2>7 DEF new
<1> QED BY <1>2, <1>3

\* What a statement of the migration writes: concepts that were not there.
LEMMA MergeWrites ==
  ASSUME GraphOK, MigrateSkills \/ MigrateCategories
  PROVE  /\ concept' \in [Node -> Concept \cup {None}]
         /\ \A n \in Stored : concept'[n] = concept[n]
         /\ \A n \in Node : \/ concept'[n] = concept[n]
                            \/ /\ n \notin Stored /\ concept'[n] # None
                               /\ concept'[n].source = "yaml"
<1>1. PICK new \in SUBSET Node, canonical \in {Canonicals, Names} :
        concept' = [n \in Node |-> IF n \in new \ Stored
                                   THEN [canonical |-> n[1] \in canonical, source |-> "yaml"]
                                   ELSE concept[n]]
  <2>1. CASE MigrateSkills
    BY <2>1, FilesAssumption DEF MigrateSkills, Merged
  <2>2. CASE MigrateCategories
    BY <2>2, FilesAssumption DEF MigrateCategories, Merged
  <2> QED BY <2>1, <2>2
<1>2. \A n \in Node : [canonical |-> n[1] \in canonical, source |-> "yaml"] \in Concept
  BY DEF Concept
<1>3. \A n \in Node : [canonical |-> n[1] \in canonical, source |-> "yaml"] # None
  BY <1>2, FilesAssumption
<1> QED BY <1>1, <1>2, <1>3 DEF GraphOK, Stored

-----------------------------------------------------------------------------
(* The steps                                                                *)

\* The inductive invariant of the requests and the graph.
Inv == GraphOK /\ Placed /\ Prepared

\* Where a request that is busy gets its arguments from.
LEMMA CurrentStep ==
  ASSUME Placed, ConceptAssumption, NEW t \in Tasks, pc[t] \in {"check", "create"}
  PROVE  /\ proposal[t] \in Proposals /\ at[t] \in 1 .. Len(Plan(proposal[t]))
         /\ Current(t) = Plan(proposal[t])[at[t]]
         /\ Current(t).name \in Names
         /\ Current(t).canonical \in {TRUE, FALSE}
         /\ proposal[t].category \in Types
<1>1. /\ proposal[t] \in Proposals /\ ~Incomplete(proposal[t])
      /\ at[t] \in 1 .. Len(Plan(proposal[t]))
  BY DEF Placed, Fits, Begun, Busy
<1>2. Current(t) = Plan(proposal[t])[at[t]]
  BY DEF Current
<1>3. proposal[t].category \in Types
  BY <1>1, ConceptAssumption
<1>4. Current(t).name \in Names
  BY <1>1, <1>2, PlanShape
<1>5. Current(t).canonical = TRUE \/ Current(t).canonical = FALSE
  <2>1. \A i \in 1 .. Len(Plan(proposal[t])) :
          Plan(proposal[t])[i].canonical = TRUE
          \/ Plan(proposal[t])[i].canonical = FALSE
    BY <1>1, PlanShape
  <2> QED BY <1>1, <1>2, <2>1
<1> QED BY <1>1, <1>2, <1>3, <1>4, <1>5

\* Whatever happens next, the graph keeps what it has and stays well formed.
LEMMA GraphStep ==
  ASSUME Inv, [Next]_vars
  PROVE  GraphOK' /\ Grows
<1> USE DEF Inv
<1>1. ASSUME UNCHANGED graph
      PROVE  GraphOK' /\ Grows
  BY <1>1 DEF graph, GraphOK, Grows
<1>2. ASSUME concept' \in [Node -> Concept \cup {None}],
             \A n \in Stored : concept'[n] = concept[n], UNCHANGED edges
      PROVE  GraphOK' /\ Grows
  <2>1. \A e \in edges : e[2] \in Node /\ e[3] \in Node
    BY DEF GraphOK
  <2> QED BY <1>2, <2>1 DEF GraphOK, Grows, Stored
<1>3. ASSUME UNCHANGED concept, edges \subseteq edges',
             edges' \subseteq edges \cup (Relations \X Stored \X Stored)
      PROVE  GraphOK' /\ Grows
  BY <1>3 DEF GraphOK, Grows, Stored
<1>4. ASSUME NEW t \in Tasks, CreateConcept(t)
      PROVE  GraphOK' /\ Grows
  <2>1. CASE UNCHANGED concept
    BY <1>1, <1>4, <2>1 DEF CreateConcept, graph
  <2>2. CASE concept' = Created(Current(t).name, proposal[t].category, Current(t).canonical)
    <3>1. pc[t] \in {"check", "create"} /\ UNCHANGED edges
      BY <1>4 DEF CreateConcept
    <3>2. /\ Current(t).name \in Names /\ Current(t).canonical \in {TRUE, FALSE}
          /\ proposal[t].category \in Types
      BY <3>1, CurrentStep, ConceptAssumption
    <3> QED BY <1>2, <2>2, <3>1, <3>2, CreateWrites
  <2> QED BY <1>4, <2>1, <2>2 DEF CreateConcept
<1>5. ASSUME NEW t \in Tasks, Relate(t)
      PROVE  GraphOK' /\ Grows
  <2>1. CASE UNCHANGED edges
    BY <1>1, <1>5, <2>1 DEF Relate, graph
  <2>2. CASE /\ Relation(proposal[t]) \in Relations
             /\ edges' = Linked(Relation(proposal[t]), proposal[t].term,
                               RelatedTo(proposal[t]))
    <3>1. edges' \subseteq edges \cup (Relations \X Stored \X Stored)
      BY <2>2 DEF Linked, Called
    <3>2. edges \subseteq edges'
      BY <2>2 DEF Linked
    <3>3. UNCHANGED concept
      BY <1>5 DEF Relate
    <3> QED BY <1>3, <3>1, <3>2, <3>3
  <2> QED BY <1>5, <2>1, <2>2 DEF Relate, Relations
<1>6. CASE MigrateSkills \/ MigrateCategories
  <2>1. UNCHANGED edges
    BY <1>6 DEF MigrateSkills, MigrateCategories
  <2> QED BY <1>2, <1>6, <2>1, MergeWrites
<1>7. CASE MigrateSynonyms
  <2>1. UNCHANGED concept /\ edges \subseteq edges'
    BY <1>7 DEF MigrateSynonyms
  <2>2. \A e \in SynonymEdges : e = <<"SAME_AS", e[2], e[3]>>
    BY DEF SynonymEdges
  <2>3. edges' \subseteq edges \cup (Relations \X Stored \X Stored)
    BY <1>7, <2>2 DEF MigrateSynonyms, Relations
  <2> QED BY <1>3, <2>1, <2>3
<1>8. CASE MigrateHierarchy
  <2>1. UNCHANGED concept /\ edges \subseteq edges'
    BY <1>8 DEF MigrateHierarchy
  <2>2. edges' \subseteq edges \cup (Relations \X Stored \X Stored)
    BY <1>8 DEF MigrateHierarchy, Relations, Exactly
  <2> QED BY <1>3, <2>1, <2>2
<1>9. CASE \/ \E t \in Tasks : Begin(t) \/ Check(t) \/ Stop(t)
           \/ StartMigration \/ FailMigration \/ UNCHANGED vars
  BY <1>1, <1>9 DEF Begin, Check, Stop, StartMigration, FailMigration, vars, graph
<1> QED BY <1>4, <1>5, <1>6, <1>7, <1>8, <1>9 DEF Next, Apply, Migrate

\* The label of a step of a plan fits the step.
LEMMA LabelFits ==
  ASSUME ConceptAssumption, NEW q \in Proposals, ~Incomplete(q),
         NEW i \in 1 .. Len(Plan(q)) + 1
  PROVE  Fits(StepLabel(q, i), i, q) /\ StepLabel(q, i) \in Busy
<1>1. Len(Plan(q)) \in 1 .. 2
  BY PlanShape
<1>4. i \in 0 .. 3
  <2>1. \A n \in 1 .. 2 : \A j \in 1 .. n + 1 : j \in 0 .. 3
    OBVIOUS
  <2>2. i \in 1 .. Len(Plan(q)) + 1
    OBVIOUS
  <2> QED BY <1>1, <2>1, <2>2
<1>2. CASE i > Len(Plan(q))
  <2>1. StepLabel(q, i) = "relate" /\ i = Len(Plan(q)) + 1
    BY <1>1, <1>2 DEF StepLabel
  <2>2. Fits("relate", i, q)
    BY <1>1, <1>4, <2>1 DEF Fits, Begun, Busy
  <2> QED BY <2>1, <2>2 DEF Busy
<1>3. CASE ~(i > Len(Plan(q)))
  <2>1. StepLabel(q, i) \in {"check", "create"} /\ i \in 1 .. Len(Plan(q))
    BY <1>1, <1>3 DEF StepLabel
  <2>2. Fits("check", i, q) /\ Fits("create", i, q)
    BY <1>1, <1>4, <2>1 DEF Fits, Begun, Busy
  <2> QED BY <2>1, <2>2 DEF Busy
<1> QED BY <1>2, <1>3

\* One request that moves where it fits leaves the others where they are.
LEMMA Moves ==
  ASSUME Placed, NEW t \in Tasks, NEW l, NEW i, NEW q, Fits(l, i, q),
         proposal' = [proposal EXCEPT ![t] = q],
         at' = [at EXCEPT ![t] = i], pc' = [pc EXCEPT ![t] = l]
  PROVE  Placed'
<1>1. l \in Begun \cup {"idle", "error"} /\ i \in 0 .. 3 /\ q \in Proposals
  BY DEF Fits
<1>2. /\ proposal' \in [Tasks -> Proposals \cup {None}]
      /\ pc' \in [Tasks -> Begun \cup {"idle", "error"}]
      /\ at' \in [Tasks -> 0 .. 3]
  BY <1>1 DEF Placed
<1>3. ASSUME NEW s \in Tasks, pc'[s] # "idle"
      PROVE  Fits(pc'[s], at'[s], proposal'[s])
  <2>1. CASE s = t
    BY <2>1 DEF Placed
  <2>2. CASE s # t
    BY <1>3, <2>2 DEF Placed
  <2> QED BY <2>1, <2>2
<1>4. \A s \in Tasks : pc'[s] # "idle" => Fits(pc'[s], at'[s], proposal'[s])
  BY <1>3
<1> QED BY <1>2, <1>4 DEF Placed, Fits

\* Begin moves a request to the first step of its plan.
LEMMA BeginMoves ==
  ASSUME Placed, ConceptAssumption, NEW t \in Tasks, Begin(t)
  PROVE  Placed'
<1>1. PICK q \in Proposals :
        /\ proposal' = [proposal EXCEPT ![t] = q]
        /\ at' = [at EXCEPT ![t] = 1]
        /\ pc' = [pc EXCEPT ![t] = IF Incomplete(q) THEN "error" ELSE StepLabel(q, 1)]
  BY DEF Begin, Goto
<1>2. CASE Incomplete(q)
  <2>1. Fits("error", 1, q)
    BY DEF Fits, Begun, Busy
  <2> QED BY <1>1, <1>2, <2>1, Moves
<1>3. CASE ~Incomplete(q)
  <2>1. Fits(StepLabel(q, 1), 1, q)
    BY <1>3, LabelFits, PlanShape
  <2> QED BY <1>1, <1>3, <2>1, Moves
<1> QED BY <1>2, <1>3

\* A step of a request that has begun keeps its proposal.
LEMMA ApplyMoves ==
  ASSUME Placed, ConceptAssumption, NEW t \in Tasks, Apply(t) \/ Stop(t)
  PROVE  Placed'
<1> DEFINE q == proposal[t]
           i == at[t]
<1>1. pc[t] \in Busy /\ UNCHANGED proposal
  BY DEF Apply, Stop, Check, CreateConcept, Relate, Busy
<1>2. Fits(pc[t], i, q) /\ q \in Proposals /\ ~Incomplete(q)
  BY <1>1 DEF Placed, Fits, Begun, Busy
<1>3. Len(Plan(q)) \in 1 .. 2
  BY <1>2, PlanShape, ConceptAssumption
<1>4. proposal' = [proposal EXCEPT ![t] = q]
  BY <1>1 DEF Placed
<1>5. ASSUME pc[t] \in {"check", "create"}, NextStep(t)
      PROVE  Placed'
  <2>1. i + 1 \in 1 .. Len(Plan(q)) + 1
    BY <1>2, <1>3, <1>5 DEF Fits
  <2>2. Fits(StepLabel(q, i + 1), i + 1, q)
    BY <1>2, <2>1, LabelFits
  <2>3. at' = [at EXCEPT ![t] = i + 1] /\ pc' = [pc EXCEPT ![t] = StepLabel(q, i + 1)]
    BY <1>5 DEF NextStep, Goto
  <2> QED BY <1>4, <2>2, <2>3, Moves
<1>6. ASSUME NEW l, Fits(l, i, q), Goto(t, l), UNCHANGED at
      PROVE  Placed'
  <2>1. at' = [at EXCEPT ![t] = i]
    BY <1>6 DEF Placed
  <2> QED BY <1>4, <1>6, <2>1, Moves DEF Goto
<1>7. CASE Check(t)
  <2>1. Fits("create", i, q)
    BY <1>2, <1>7 DEF Check, Fits, Begun, Busy
  <2> QED BY <1>5, <1>6, <1>7, <2>1 DEF Check
<1>8. CASE CreateConcept(t)
  <2>1. Fits("error", i, q)
    BY <1>2, <1>8 DEF CreateConcept, Fits, Begun, Busy
  <2> QED BY <1>5, <1>6, <1>8, <2>1 DEF CreateConcept
<1>9. CASE Relate(t)
  <2>1. Fits("applied", i, q) /\ Fits("refused", i, q)
    BY <1>2, <1>9 DEF Relate, Fits, Begun, Busy
  <2> QED BY <1>6, <1>9, <2>1 DEF Relate
<1>10. CASE Stop(t)
  <2>1. Fits("stopped", i, q)
    BY <1>2, <1>10 DEF Stop, Fits, Begun, Busy
  <2> QED BY <1>6, <1>10, <2>1 DEF Stop
<1> QED BY <1>7, <1>8, <1>9, <1>10 DEF Apply

\* Every step keeps every request in its place.
LEMMA PlacedStep ==
  ASSUME Inv, ConceptAssumption, [Next]_vars
  PROVE  Placed'
<1>1. CASE UNCHANGED writers
  BY <1>1 DEF writers, Inv, Placed, Fits
<1>2. Migrate \/ UNCHANGED vars => UNCHANGED writers
  BY DEF Migrate, StartMigration, MigrateSkills, MigrateSynonyms,
         MigrateCategories, MigrateHierarchy, FailMigration, vars, writers
<1>3. CASE \E t \in Tasks : Begin(t) \/ Apply(t) \/ Stop(t)
  BY <1>3, BeginMoves, ApplyMoves DEF Inv
<1> QED BY <1>1, <1>2, <1>3 DEF Next

\* What a request has made sure of stays so, and each step adds its own.
LEMMA PreparedStep ==
  ASSUME Inv, ConceptAssumption, [Next]_vars
  PROVE  Prepared'
<1>1. Stored \subseteq Stored'
  BY GraphStep DEF Inv, Grows, Stored
<1>2. SUFFICES ASSUME NEW t \in Tasks, pc'[t] \in Begun,
                      NEW i \in 1 .. at'[t] - 1
               PROVE  \E n \in Stored' : Fold[n[1]] = Fold[Plan(proposal'[t])[i].name]
  BY DEF Prepared
<1>3. CASE /\ pc[t] \in Begun /\ proposal'[t] = proposal[t]
           /\ at'[t] = at[t]
  BY <1>1, <1>2, <1>3 DEF Inv, Prepared
<1>4. CASE \E s \in Tasks : Begin(s)
  <2>1. PICK s \in Tasks : Begin(s)
    BY <1>4
  <2>2. CASE s = t
    <3>1. at'[t] = 1
      BY <2>1, <2>2 DEF Begin, Inv, Placed
    <3> QED BY <1>2, <3>1
  <2>3. CASE s # t
    <3>1. pc'[t] = pc[t] /\ proposal'[t] = proposal[t] /\ at'[t] = at[t]
      BY <2>1, <2>3 DEF Begin, Goto, Inv, Placed
    <3> QED BY <1>2, <1>3, <3>1
  <2> QED BY <2>2, <2>3
<1>5. CASE \E s \in Tasks : Apply(s) \/ Stop(s)
  <2>1. PICK s \in Tasks : Apply(s) \/ Stop(s)
    BY <1>5
  <2>2. CASE s # t
    <3>1. pc'[t] = pc[t] /\ proposal'[t] = proposal[t] /\ at'[t] = at[t]
      BY <2>1, <2>2 DEF Apply, Stop, Check, CreateConcept, Relate, NextStep, Goto,
                        Inv, Placed
    <3> QED BY <1>2, <1>3, <3>1
  <2>3. CASE s = t
    <3>1. pc[t] \in Begun /\ UNCHANGED proposal
      BY <2>1, <2>3 DEF Apply, Stop, Check, CreateConcept, Relate, Begun, Busy
    <3>2. CASE UNCHANGED at
      BY <1>3, <3>1, <3>2
    <3>3. CASE ~UNCHANGED at
      <4>1. pc[t] \in {"check", "create"} /\ NextStep(t)
        BY <2>1, <2>3, <3>3 DEF Apply, Stop, Check, CreateConcept, Relate
      <4>2. at'[t] = at[t] + 1 /\ at[t] \in 0 .. 3
        BY <4>1 DEF NextStep, Inv, Placed
      <4>3. CASE i \in 1 .. at[t] - 1
        BY <1>1, <3>1, <4>3 DEF Inv, Prepared
      <4>4. CASE i = at[t]
        <5>1. Current(t) = Plan(proposal'[t])[i] /\ Current(t).name \in Names
          BY <3>1, <4>1, <4>4, CurrentStep DEF Inv, Current
        <5>2. CASE Check(t)
          <6>1. \E n \in Stored : Fold[n[1]] = Fold[Current(t).name]
            BY <3>3, <5>2 DEF Check, Called
          <6> QED BY <1>1, <5>1, <6>1
        <5>3. CASE CreateConcept(t)
          <6>1. concept' = Created(Current(t).name, proposal[t].category,
                                  Current(t).canonical)
            BY <3>3, <5>3 DEF CreateConcept
          <6>2. /\ Current(t).canonical \in {TRUE, FALSE}
                /\ proposal[t].category \in Types
            BY <4>1, CurrentStep DEF Inv
          <6> HIDE DEF Current
          <6>3. \E n \in Stored' : Fold[n[1]] = Fold[Current(t).name]
            BY <5>1, <6>1, <6>2, CreateWrites DEF Inv
          <6> QED BY <5>1, <6>3
        <5> QED BY <2>1, <2>3, <3>3, <5>2, <5>3 DEF Apply, Stop, Relate
      <4> QED BY <1>2, <4>2, <4>3, <4>4
    <3> QED BY <3>2, <3>3
  <2> QED BY <2>2, <2>3
<1>6. CASE Migrate \/ UNCHANGED vars
  <2>1. UNCHANGED writers
    BY <1>6 DEF Migrate, StartMigration, MigrateSkills, MigrateSynonyms,
         MigrateCategories, MigrateHierarchy, FailMigration, vars, writers
  <2> QED BY <1>2, <1>3, <2>1 DEF writers
<1> QED BY <1>4, <1>5, <1>6 DEF Next

-----------------------------------------------------------------------------
(* The theorems                                                             *)

\* The inductive invariant holds at the start, is kept by every step, and so
\* always holds.
LEMMA InvInit == ConceptAssumption /\ Init => Inv
<1> SUFFICES ASSUME ConceptAssumption, Init PROVE Inv
  OBVIOUS
<1>1. GraphOK
  BY DEF Init, GraphOK
<1>2. Placed /\ Prepared
  BY DEF Init, Placed, Prepared, Begun, Busy
<1> QED BY <1>1, <1>2 DEF Inv

LEMMA InvStep == ConceptAssumption /\ Inv /\ [Next]_vars => Inv'
BY GraphStep, PlacedStep, PreparedStep DEF Inv

LEMMA InvAlways == Spec => []Inv
BY ConceptAssumption, InvInit, InvStep, PTL DEF Spec

\* The counters of runs and failures and the place of the migration.
Counted ==
  /\ mig \in Migrating \cup {"idle", "done", "failed"}
  /\ runs \in 0 .. MaxRuns /\ failures \in 0 .. MaxFailures

\* No run and no failure beyond the bounds.
LEMMA CountedAlways == Spec => []Counted
<1>1. Init => Counted
  BY ConceptAssumption DEF Init, Counted
<1>2. ASSUME Counted, [Next]_vars PROVE Counted'
  <2>1. failures' \in {failures, failures + 1} /\ (failures' # failures => failures < MaxFailures)
    BY <1>2 DEF Next, Migrate, Apply, Begin, Check, CreateConcept, Relate, Stop, Failure,
       StartMigration, MigrateSkills, MigrateSynonyms, MigrateCategories,
       MigrateHierarchy, FailMigration, vars
  <2>2. runs' \in {runs, runs + 1} /\ (runs' # runs => runs < MaxRuns)
    BY <1>2 DEF Next, Migrate, Apply, Begin, Check, CreateConcept, Relate, Stop,
       StartMigration, MigrateSkills, MigrateSynonyms, MigrateCategories,
       MigrateHierarchy, FailMigration, vars
  <2>3. mig' \in Migrating \cup {"idle", "done", "failed"}
    BY <1>2 DEF Counted, Next, Migrate, Apply, Begin, Check, CreateConcept, Relate, Stop,
       StartMigration, MigrateSkills, MigrateSynonyms, MigrateCategories,
       MigrateHierarchy, FailMigration, vars, Migrating
  <2> QED BY <1>2, <2>1, <2>2, <2>3, ConceptAssumption DEF Counted
<1> QED BY <1>1, <1>2, PTL DEF Spec

\* Concepts, relations, requests and the migration stay within what the code
\* can put in them, whatever the files and the proposals.
THEOREM TypeCorrect == Spec => []TypeOK
<1>1. Inv /\ Counted => TypeOK
  BY DEF Inv, Counted, GraphOK, Placed, TypeOK, Begun, Busy
<1> QED BY <1>1, InvAlways, CountedAlways, PTL

\* No approval and no run of the migration takes a concept or a relation away
\* or changes a concept.
THEOREM ConceptsStay == Spec => ConceptsKept
<1>1. Inv /\ [Next]_vars =>
        [(\A n \in Stored : concept'[n] = concept[n]) /\ edges \subseteq edges']_vars
  BY GraphStep DEF Grows
<1> QED BY <1>1, InvAlways, PTL DEF Spec, ConceptsKept

AddsFiles ==
  \A n \in Node :
    \/ concept'[n] = concept[n]
    \/ n \notin Stored /\ concept'[n].source = "yaml"

AddsOne ==
  \E m \in Node :
    /\ \A n \in Stored : Fold[n[1]] # Fold[m[1]]
    /\ \A n \in Node : n # m => concept'[n] = concept[n]

\* A step changes no concept, adds concepts of the files, or adds one concept
\* of a name that had none.
LEMMA NewConcepts ==
  ASSUME Inv, ConceptAssumption, [Next]_vars
  PROVE  UNCHANGED concept \/ AddsFiles \/ AddsOne
<1>1. CASE \E t \in Tasks : CreateConcept(t)
  <2>1. PICK t \in Tasks : CreateConcept(t)
    BY <1>1
  <2>2. CASE UNCHANGED concept
    BY <2>2
  <2>3. CASE concept' = Created(Current(t).name, proposal[t].category,
                                Current(t).canonical)
    <3>1. /\ Current(t).name \in Names /\ Current(t).canonical \in {TRUE, FALSE}
          /\ proposal[t].category \in Types
      BY <2>1, CurrentStep DEF Inv, CreateConcept
    <3> DEFINE m == <<Current(t).name, proposal[t].category>>
    <3>2. m \in Node /\ m[1] = Current(t).name
      BY <3>1 DEF Node
    <3>3. CASE Called(Current(t).name) # {}
      BY <2>3, <3>3 DEF Created
    <3>4. CASE Called(Current(t).name) = {}
      <4>1. concept' = [concept EXCEPT ![m] = [canonical |-> Current(t).canonical,
                                               source |-> "proposal"]]
        BY <2>3, <3>4 DEF Created
      <4>2. \A n \in Stored : Fold[n[1]] # Fold[m[1]]
        BY <3>2, <3>4 DEF Called
      <4>3. \A n \in Node : n # m => concept'[n] = concept[n]
        BY <4>1 DEF Inv, GraphOK
      <4> QED BY <3>2, <4>2, <4>3 DEF AddsOne
    <3> QED BY <3>3, <3>4
  <2> QED BY <2>1, <2>2, <2>3 DEF CreateConcept
<1>2. CASE MigrateSkills \/ MigrateCategories
  <2>1. AddsFiles
    <3>1. GraphOK
      BY DEF Inv
    <3>2. \A n \in Node : \/ concept'[n] = concept[n]
                        \/ /\ n \notin Stored /\ concept'[n] # None
                           /\ concept'[n].source = "yaml"
      BY <1>2, <3>1, MergeWrites
    <3> QED BY <3>2 DEF AddsFiles
  <2> QED BY <2>1
<1>3. CASE \/ \E t \in Tasks : Begin(t) \/ Check(t) \/ Relate(t) \/ Stop(t)
           \/ StartMigration \/ FailMigration \/ MigrateSynonyms
           \/ MigrateHierarchy \/ UNCHANGED vars
  BY <1>3 DEF Begin, Check, Relate, Stop, StartMigration, FailMigration,
              MigrateSynonyms, MigrateHierarchy, vars, graph
<1> QED BY <1>1, <1>2, <1>3 DEF Next, Apply, Migrate

\* Applying proposals never gives a name a second concept: of two concepts of
\* one name the migration made at least one.
THEOREM NameOnce == Spec => []ProposalsNameOnce
<1>1. Init => ProposalsNameOnce
  BY DEF Init, ProposalsNameOnce, Stored
<1>2. ASSUME Inv, ProposalsNameOnce, [Next]_vars
      PROVE  ProposalsNameOnce'
  <2>1. CASE UNCHANGED concept
    BY <1>2, <2>1 DEF ProposalsNameOnce, Stored
  <2>2. CASE AddsFiles
    BY <1>2, <2>2 DEF ProposalsNameOnce, Stored, AddsFiles
  <2>3. CASE AddsOne
    <3>1. PICK m \in Node : /\ \A n \in Stored : Fold[n[1]] # Fold[m[1]]
                            /\ \A n \in Node : n # m => concept'[n] = concept[n]
      BY <2>3 DEF AddsOne
    <3>2. \A n \in Stored' : n # m => n \in Stored /\ concept'[n] = concept[n]
      BY <3>1 DEF Stored
    <3>3. \A n \in Stored' : n # m => Fold[n[1]] # Fold[m[1]]
      BY <3>1, <3>2
    <3>4. ASSUME NEW a \in Stored', NEW b \in Stored', Fold[a[1]] = Fold[b[1]],
                 concept'[a].source = "proposal", concept'[b].source = "proposal"
          PROVE  a = b
      <4>1. CASE a = m
        BY <3>3, <3>4, <4>1
      <4>2. CASE b = m
        BY <3>3, <3>4, <4>2
      <4>3. CASE a # m /\ b # m
        BY <1>2, <3>2, <3>4, <4>3 DEF ProposalsNameOnce
      <4> QED BY <4>1, <4>2, <4>3
    <3> QED BY <3>4 DEF ProposalsNameOnce
  <2>4. UNCHANGED concept \/ AddsFiles \/ AddsOne
    BY <1>2, NewConcepts, ConceptAssumption
  <2> QED BY <2>1, <2>2, <2>3, <2>4
<1> QED BY <1>1, <1>2, InvAlways, PTL DEF Spec

\* A request that reports its proposal as applied has stored its relation.
THEOREM AppliedLinked == Spec => []AppliedIsLinked
<1>1. Init => AppliedIsLinked
  BY DEF Init, AppliedIsLinked
<1>2. ASSUME Inv, AppliedIsLinked, [Next]_vars
      PROVE  AppliedIsLinked'
  <2>0. Inv' /\ Grows
    BY <1>2, InvStep, GraphStep, ConceptAssumption
  <2>1. SUFFICES ASSUME NEW t \in Tasks, pc'[t] = "applied"
                 PROVE  /\ \E a \in Stored' : Fold[a[1]] = Fold[proposal'[t].term]
                        /\ Relation(proposal'[t]) # None =>
                             \E a, b \in Stored' :
                               /\ Fold[a[1]] = Fold[proposal'[t].term]
                               /\ Fold[b[1]] = Fold[RelatedTo(proposal'[t])]
                               /\ <<Relation(proposal'[t]), a, b>> \in edges'
    BY DEF AppliedIsLinked, Called
  <2>2. \E a \in Stored' : Fold[a[1]] = Fold[proposal'[t].term]
    <3>1. Fits("applied", at'[t], proposal'[t])
      BY <2>0, <2>1 DEF Inv, Placed
    <3>2. /\ proposal'[t] \in Proposals /\ ~Incomplete(proposal'[t])
          /\ at'[t] = Len(Plan(proposal'[t])) + 1
      BY <3>1 DEF Fits, Begun
    <3>3. Len(Plan(proposal'[t])) \in 1 .. 2
      BY <3>2, PlanShape, ConceptAssumption
    <3>4. PICK i \in 1 .. Len(Plan(proposal'[t])) :
            Plan(proposal'[t])[i].name = proposal'[t].term
      BY <3>2, PlanShape, ConceptAssumption
    <3>5. i \in 1 .. at'[t] - 1
      BY <3>2, <3>3
    <3> QED BY <2>0, <2>1, <3>4, <3>5 DEF Inv, Prepared, Begun
  <2>3. CASE pc[t] = "applied" /\ proposal'[t] = proposal[t]
    BY <1>2, <2>0, <2>2, <2>3 DEF AppliedIsLinked, Called, Grows, Stored
  <2>4. CASE Relate(t)
    <3>1. UNCHANGED <<concept, proposal>>
      BY <2>4 DEF Relate
    <3>2. CASE Relation(proposal[t]) = None
      BY <2>2, <3>1, <3>2
    <3>3. CASE Relation(proposal[t]) # None
      <4>1. /\ edges' = Linked(Relation(proposal[t]), proposal[t].term,
                              RelatedTo(proposal[t]))
            /\ Called(proposal[t].term) # {} /\ Called(RelatedTo(proposal[t])) # {}
        BY <1>2, <2>1, <2>4, <3>3 DEF Relate, Goto, Inv, Placed
      <4>2. PICK a \in Called(proposal[t].term), b \in Called(RelatedTo(proposal[t])) :
              <<Relation(proposal[t]), a, b>> \in edges'
        BY <4>1 DEF Linked
      <4>3. /\ a \in Stored' /\ b \in Stored'
            /\ Fold[a[1]] = Fold[proposal[t].term]
            /\ Fold[b[1]] = Fold[RelatedTo(proposal[t])]
        BY <3>1 DEF Called, Stored
      <4> QED BY <2>2, <3>1, <4>2, <4>3
    <3> QED BY <3>2, <3>3
  <2>5. Relate(t) \/ (pc[t] = "applied" /\ proposal'[t] = proposal[t])
    <3>1. CASE Migrate \/ UNCHANGED vars
      BY <2>1, <3>1 DEF Migrate, StartMigration, MigrateSkills, MigrateSynonyms,
         MigrateCategories, MigrateHierarchy, FailMigration, vars, writers
    <3>2. ASSUME NEW s \in Tasks, Begin(s) \/ Apply(s) \/ Stop(s)
          PROVE  Relate(t) \/ (pc[t] = "applied" /\ proposal'[t] = proposal[t])
      <4>1. CASE s # t
        BY <1>2, <2>1, <3>2, <4>1 DEF Begin, Apply, Stop, Check, CreateConcept, Relate,
           NextStep, Goto, Inv, Placed
      <4>2. CASE s = t
        <5>1. CASE Relate(t)
          BY <5>1
        <5>2. CASE Stop(t)
          BY <1>2, <2>1, <5>2 DEF Stop, Goto, Inv, Placed
        <5>3. CASE Begin(t)
          BY <1>2, <2>1, <5>3 DEF Begin, Goto, StepLabel, Inv, Placed
        <5>4. CASE Check(t) \/ CreateConcept(t)
          BY <1>2, <2>1, <5>4 DEF Check, CreateConcept, NextStep, Goto, StepLabel,
             Inv, Placed
        <5> QED BY <3>2, <4>2, <5>1, <5>2, <5>3, <5>4 DEF Apply
      <4> QED BY <4>1, <4>2
    <3> QED BY <1>2, <3>1, <3>2 DEF Next
  <2> QED BY <2>3, <2>4, <2>5
<1> QED BY <1>1, <1>2, InvAlways, PTL DEF Spec

\* What the statements of the migration that have run have stored.
Files == SkillNodes \cup CategoryNodes
TreeStored ==
  \A r \in Hierarchy : \A a, b \in Files :
    a[1] = r[1] /\ b[1] = r[2] => <<"IS_A", a, b>> \in edges

Migrated ==
  /\ mig \in {"same_as", "categories", "is_a", "done"} => SkillNodes \subseteq Stored
  /\ mig \in {"categories", "is_a", "done"} => SynonymEdges \subseteq edges
  /\ mig \in {"is_a", "done"} => CategoryNodes \subseteq Stored
  /\ mig = "done" => TreeStored

\* Both ends of a synonym of the files are skills of the files.
LEMMA SynonymEnds ==
  \A e \in SynonymEdges : e[2] \in SkillNodes /\ e[3] \in SkillNodes
<1> SUFFICES ASSUME NEW i \in DOMAIN Groups, NEW a \in Range(Groups[i].aliases)
             PROVE  <<a, "skill">> \in SkillNodes
                    /\ <<Groups[i].canonical, "skill">> \in SkillNodes
  BY DEF SynonymEdges, GroupSet, Range
<1>1. a \in Mentioned(i) /\ Groups[i].canonical \in Mentioned(i)
  BY DEF Mentioned
<1> QED BY <1>1 DEF SkillNodes, Skills

\* Each statement of the migration adds its part and nothing takes one away.
LEMMA MigratedStep ==
  ASSUME Inv, Migrated, ConceptAssumption, FilesAssumption, [Next]_vars
  PROVE  Migrated'
<1>1. Stored \subseteq Stored' /\ edges \subseteq edges'
  BY GraphStep DEF Inv, Grows, Stored
<1>2. CASE UNCHANGED mig \/ mig' \in {"skills", "failed"}
  BY <1>1, <1>2 DEF Migrated, TreeStored
<1>3. CASE MigrateSkills
  <2>1. \A n \in SkillNodes : n \in Stored'
    <3>1. \A n \in Node : n \in SkillNodes \ Stored =>
            concept'[n] = [canonical |-> n[1] \in Canonicals, source |-> "yaml"]
      BY <1>3 DEF MigrateSkills, Merged
    <3>2. \A n \in Node : [canonical |-> n[1] \in Canonicals, source |-> "yaml"] # None
      <4>1. \A n \in Node :
              [canonical |-> n[1] \in Canonicals, source |-> "yaml"] \in Concept
        BY DEF Concept
      <4> QED BY <4>1, FilesAssumption
    <3> QED BY <1>1, <3>1, <3>2, FilesAssumption DEF Stored
  <2> QED BY <1>3, <2>1 DEF MigrateSkills, Migrated
<1>4. CASE MigrateSynonyms
  <2>1. SkillNodes \subseteq Stored /\ SkillNodes \subseteq Stored'
    BY <1>1, <1>4 DEF MigrateSynonyms, Migrated
  <2>2. SynonymEdges \subseteq edges'
    BY <1>4, <2>1, SynonymEnds DEF MigrateSynonyms
  <2> QED BY <1>4, <2>1, <2>2 DEF MigrateSynonyms, Migrated
<1>5. CASE MigrateCategories
  <2>1. \A n \in CategoryNodes : n \in Stored'
    <3>1. \A n \in Node : n \in CategoryNodes \ Stored =>
            concept'[n] = [canonical |-> n[1] \in Names, source |-> "yaml"]
      BY <1>5 DEF MigrateCategories, Merged
    <3>2. \A n \in Node : [canonical |-> n[1] \in Names, source |-> "yaml"] # None
      <4>1. \A n \in Node : [canonical |-> n[1] \in Names, source |-> "yaml"] \in Concept
        BY DEF Concept
      <4> QED BY <4>1, FilesAssumption
    <3> QED BY <1>1, <3>1, <3>2, FilesAssumption DEF Stored
  <2>2. SkillNodes \subseteq Stored' /\ SynonymEdges \subseteq edges'
    BY <1>1, <1>5 DEF MigrateCategories, Migrated
  <2> QED BY <1>5, <2>1, <2>2 DEF MigrateCategories, Migrated
<1>6. CASE MigrateHierarchy
  <2>1. Files \subseteq Stored /\ Files \subseteq Stored'
    BY <1>1, <1>6 DEF MigrateHierarchy, Migrated, Files
  <2>2. ASSUME NEW r \in Hierarchy, NEW a \in Files, NEW b \in Files,
               a[1] = r[1], b[1] = r[2]
        PROVE  <<"IS_A", a, b>> \in edges'
    <3>1. a \in Exactly(r[1]) /\ b \in Exactly(r[2])
      BY <2>1, <2>2 DEF Exactly
    <3> QED BY <1>6, <3>1 DEF MigrateHierarchy
  <2>3. TreeStored'
    BY <2>2 DEF TreeStored
  <2>4. SynonymEdges \subseteq edges'
    BY <1>1, <1>6 DEF MigrateHierarchy, Migrated
  <2> QED BY <1>6, <2>1, <2>3, <2>4 DEF MigrateHierarchy, Migrated, Files
<1>7. CASE \/ \E t \in Tasks : Begin(t) \/ Apply(t) \/ Stop(t)
           \/ StartMigration \/ FailMigration \/ UNCHANGED vars
  BY <1>2, <1>7 DEF Begin, Apply, Check, CreateConcept, Relate, Stop, StartMigration,
                    FailMigration, vars
<1> QED BY <1>3, <1>4, <1>5, <1>6, <1>7 DEF Next, Migrate

\* A migration that has come to its end, however often it was cut off before,
\* has stored all of the files.
THEOREM MigrationStores == Spec => []MigratedIsStored
<1>1. Init => Migrated
  BY DEF Init, Migrated
<1>2. Migrated => MigratedIsStored
  BY DEF Migrated, MigratedIsStored, TreeStored, Files
<1>3. Inv /\ Migrated /\ [Next]_vars => Migrated'
  BY MigratedStep, ConceptAssumption, FilesAssumption
<1> QED BY <1>1, <1>2, <1>3, InvAlways, PTL DEF Spec

-----------------------------------------------------------------------------
(* Aliases                                                                  *)

Alias == [canonical |-> FALSE, source |-> "proposal"]
Linking(t, n) ==
  /\ pc[t] \in {"relate", "refused", "stopped"}
  /\ proposal[t].kind = "synonym" /\ Fold[proposal[t].term] = Fold[n[1]]
HasCause(n) == \/ \E e \in edges : e[1] = "SAME_AS" /\ e[2] = n
               \/ \E t \in Tasks : Linking(t, n)

\* The concept of a synonym keeps its cause: the request that is linking it
\* ends by linking it, by failing or by being cut off.
LEMMA CauseStays ==
  ASSUME Inv, ConceptAssumption, [Next]_vars, NEW n \in Stored, HasCause(n)
  PROVE  HasCause(n)'
<1>1. edges \subseteq edges'
  BY GraphStep DEF Inv, Grows
<1>2. CASE \E e \in edges : e[1] = "SAME_AS" /\ e[2] = n
  BY <1>1, <1>2 DEF HasCause
<1>3. CASE \E t \in Tasks : Linking(t, n)
  <2>1. PICK t \in Tasks : Linking(t, n)
    BY <1>3
  <2>2. CASE UNCHANGED <<pc, proposal>>
    BY <2>1, <2>2 DEF Linking, HasCause
  <2>3. ASSUME NEW s \in Tasks, s # t, Begin(s) \/ Apply(s) \/ Stop(s)
        PROVE  Linking(t, n)'
    <3>1. pc'[t] = pc[t] /\ proposal'[t] = proposal[t]
      BY <2>3 DEF Begin, Apply, Stop, Check, CreateConcept, Relate, NextStep, Goto,
         Inv, Placed
    <3> QED BY <2>1, <3>1 DEF Linking
  <2>4. CASE Stop(t)
    <3>1. pc'[t] = "stopped" /\ UNCHANGED proposal
      BY <2>4 DEF Stop, Goto, Inv, Placed
    <3> QED BY <2>1, <3>1 DEF Linking, HasCause
  <2>5. CASE Relate(t)
    <3>1. UNCHANGED proposal /\ Relation(proposal[t]) = "SAME_AS"
      BY <2>1, <2>5 DEF Relate, Linking, Relation
    <3>2. CASE pc'[t] = "refused"
      BY <2>1, <3>1, <3>2 DEF Linking, HasCause
    <3>3. CASE pc'[t] # "refused"
      <4>1. /\ edges' = Linked("SAME_AS", proposal[t].term, RelatedTo(proposal[t]))
            /\ Called(RelatedTo(proposal[t])) # {}
        BY <2>5, <3>1, <3>3 DEF Relate, Goto, Inv, Placed
      <4>2. n \in Called(proposal[t].term)
        BY <2>1 DEF Linking, Called
      <4>3. PICK b \in Called(RelatedTo(proposal[t])) : <<"SAME_AS", n, b>> \in edges'
        BY <4>1, <4>2 DEF Linked
      <4> QED BY <4>3 DEF HasCause
    <3> QED BY <3>2, <3>3
  <2>6. ~Begin(t) /\ ~Check(t) /\ ~CreateConcept(t)
    BY <2>1 DEF Linking, Begin, Check, CreateConcept
  <2>7. CASE Migrate \/ UNCHANGED vars
    BY <2>2, <2>7 DEF Migrate, StartMigration, MigrateSkills, MigrateSynonyms,
       MigrateCategories, MigrateHierarchy, FailMigration, vars, writers
  <2>8. CASE \E s \in Tasks : Begin(s) \/ Apply(s) \/ Stop(s)
    BY <2>3, <2>4, <2>5, <2>6, <2>8 DEF Apply, HasCause
  <2> QED BY <2>7, <2>8 DEF Next
<1> QED BY <1>2, <1>3 DEF HasCause

\* The concept of a synonym is created by the last step of its plan, so the
\* request goes on to link it.
LEMMA NewAlias ==
  ASSUME Inv, ConceptAssumption, [Next]_vars, NEW n \in Node,
         concept'[n] = Alias, concept[n] # Alias
  PROVE  HasCause(n)'
<1>1. CASE MigrateSkills \/ MigrateCategories
  <2>1. Alias.source # "yaml"
    BY DEF Alias
  <2>2. AddsFiles
    <3>1. GraphOK
      BY DEF Inv
    <3>2. \A m \in Node : \/ concept'[m] = concept[m]
                        \/ /\ m \notin Stored /\ concept'[m] # None
                           /\ concept'[m].source = "yaml"
      BY <1>1, <3>1, MergeWrites
    <3> QED BY <3>2 DEF AddsFiles
  <2> QED BY <2>1, <2>2 DEF AddsFiles
<1>2. CASE \E t \in Tasks : CreateConcept(t)
  <2>1. PICK t \in Tasks : CreateConcept(t)
    BY <1>2
  <2>2. concept' = Created(Current(t).name, proposal[t].category, Current(t).canonical)
        /\ NextStep(t) /\ UNCHANGED proposal /\ pc[t] = "create"
    BY <2>1 DEF CreateConcept
  <2>3. /\ proposal[t] \in Proposals /\ at[t] \in 1 .. Len(Plan(proposal[t]))
        /\ Current(t) = Plan(proposal[t])[at[t]]
    BY <2>2, CurrentStep DEF Inv
  <2>4. /\ n = <<Current(t).name, proposal[t].category>>
        /\ concept'[n] = [canonical |-> Current(t).canonical, source |-> "proposal"]
    <3>1. Called(Current(t).name) = {}
      BY <2>2 DEF Created
    <3>2. concept' = [concept EXCEPT ![<<Current(t).name, proposal[t].category>>] =
                        [canonical |-> Current(t).canonical, source |-> "proposal"]]
      BY <2>2, <3>1 DEF Created
    <3> QED BY <3>2 DEF Inv, GraphOK
  <2>5. Current(t).canonical = FALSE
    BY <2>4 DEF Alias
  <2>6. ~Incomplete(proposal[t])
    BY <2>2 DEF Inv, Placed, Fits, Begun, Busy
  <2>7. proposal[t].kind = "synonym" /\ at[t] = 2
    BY <2>3, <2>5, <2>6, PlanShape
  <2>8. Len(Plan(proposal[t])) = 2 /\ Current(t).name = proposal[t].term
    <3>1. Len(Plan(proposal[t])) = 2 /\ Plan(proposal[t])[2].name = proposal[t].term
      BY <2>3, <2>6, <2>7, PlanShape
    <3> QED BY <2>3, <2>7, <3>1
  <2>9. pc'[t] = "relate"
    BY <2>2, <2>7, <2>8 DEF NextStep, Goto, StepLabel, Inv, Placed
  <2>10. n[1] = proposal[t].term
    BY <2>4, <2>8
  <2> QED BY <2>2, <2>7, <2>9, <2>10 DEF HasCause, Linking
<1>3. CASE \/ \E t \in Tasks : Begin(t) \/ Check(t) \/ Relate(t) \/ Stop(t)
           \/ StartMigration \/ FailMigration \/ MigrateSynonyms
           \/ MigrateHierarchy \/ UNCHANGED vars
  BY <1>3 DEF Begin, Check, Relate, Stop, StartMigration, FailMigration,
              MigrateSynonyms, MigrateHierarchy, vars, graph
<1> QED BY <1>1, <1>2, <1>3 DEF Next, Apply, Migrate

\* An approved synonym that is not linked is explained by its request.
THEOREM LoneAliasExplained == Spec => []LoneAliasHasCause
<1> DEFINE Explained == \A n \in Stored : concept[n] = Alias => HasCause(n)
<1>1. Init => Explained
  BY DEF Init, Stored
<1>2. ASSUME Inv, Explained, [Next]_vars
      PROVE  Explained'
  <2>1. ASSUME NEW n \in Node, concept'[n] = Alias
        PROVE  HasCause(n)'
    <3>1. CASE concept[n] = Alias
      <4>1. n \in Stored
        <5>1. Alias \in Concept
          BY DEF Alias, Concept
        <5> QED BY <3>1, <5>1, FilesAssumption DEF Stored
      <4> QED BY <1>2, <3>1, <4>1, CauseStays, ConceptAssumption
    <3>2. CASE concept[n] # Alias
      BY <1>2, <2>1, <3>2, NewAlias, ConceptAssumption
    <3> QED BY <3>1, <3>2
  <2> QED BY <2>1 DEF Stored
<1>3. Explained => LoneAliasHasCause
  BY DEF LoneAliasHasCause, HasCause, Linking, Alias
<1> HIDE DEF Explained
<1> QED BY <1>1, <1>2, <1>3, InvAlways, PTL DEF Spec

\* Requests and migrations, however they interleave and are cut off, leave the
\* concepts as the two of them ask for.
THEOREM ConceptsAreSound == Spec => []ConceptsSound
<1>1. TypeOK /\ ProposalsNameOnce /\ LoneAliasHasCause /\ MigratedIsStored
        => ConceptsSound
  BY DEF ConceptsSound
<1> QED
  BY <1>1, TypeCorrect, NameOnce, LoneAliasExplained, MigrationStores, PTL
-----------------------------------------------------------------------------
(* Questions that read                                                       *)

\* A step of a reader, of an operator or of the registry changes nothing of the
\* graph and its writers.
LEMMA ReadersWatch ==
  ASSUME [ReadersNext]_allVars
  PROVE  /\ [Next]_vars
         /\ \/ UNCHANGED <<loaders, due, reading>>
            \/ \E r \in Readers : Read(r)
            \/ EditFiles
            \/ \E t \in Tasks : Refresh(t)
<1>1. \A r \in Readers : Read(r) => UNCHANGED vars
  BY DEF Read, StartRead, FindCanonical, FindGroup, FindSynonyms, FindChildren, AskYaml
<1>2. EditFiles \/ (\E t \in Tasks : Refresh(t)) => UNCHANGED vars
  BY DEF EditFiles, Refresh
<1>3. UNCHANGED allVars => UNCHANGED vars /\ UNCHANGED <<loaders, due, reading>>
  BY DEF allVars
<1> QED BY <1>1, <1>2, <1>3 DEF ReadersNext

\* So all that is proved of the writers holds beside any number of readers.
THEOREM ReadersOnlyRead == ReadersSpec => Spec
<1>1. ReadersInit => Init
  BY DEF ReadersInit
<1>2. [ReadersNext]_allVars => [Next]_vars
  BY ReadersWatch
<1> QED BY <1>1, <1>2, PTL DEF ReadersSpec, Spec

\* Beside any number of readers, operators and refreshes the concepts are what
\* requests and migrations ask for, stay as they are, and what a request has
\* reported as applied is linked.
THEOREM SoundBesideReaders ==
  ReadersSpec => []ConceptsSound /\ []AppliedIsLinked /\ ConceptsKept
BY ReadersOnlyRead, ConceptsAreSound, AppliedLinked, ConceptsStay, PTL

-----------------------------------------------------------------------------
(* Loaders                                                                   *)

LoadersOK ==
  /\ mode \in Modes /\ file \in 0 .. MaxEdits /\ asOf \in 0 .. file
  /\ cache \in [Instances -> (0 .. file) \cup {None}]
  /\ holder \in [{"pipeline", "registry"} -> Instances]
  /\ mode # "yaml" => holder["registry"] = holder["pipeline"]
  /\ due \subseteq Tasks

\* Outside yaml mode what the pipeline's loader has read is no older than the
\* last refresh that reported success.
Renewed ==
  mode # "yaml" /\ cache[holder["pipeline"]] # None => cache[holder["pipeline"]] >= asOf

LEMMA LeastOf == \A places \in SUBSET Instances : places # {} => Min(places) \in places
<1> SUFFICES ASSUME NEW places \in SUBSET Instances, places # {}
             PROVE  Min(places) \in places
  OBVIOUS
<1>1. \E i \in places : \A j \in places : i <= j
  <2>1. CASE 1 \in places
    BY <2>1 DEF Instances
  <2>2. CASE 1 \notin places /\ 2 \in places
    BY <2>2 DEF Instances
  <2>3. CASE 1 \notin places /\ 2 \notin places
    <3>1. \A i \in places : i = 3
      BY <2>3 DEF Instances
    <3> QED BY <3>1
  <2> QED BY <2>1, <2>2, <2>3
<1> QED BY <1>1 DEF Min

\* Two instances are held, so a third is left for a refresh to make.
LEMMA UnusedIsFree ==
  ASSUME LoadersOK
  PROVE  Unused \in Instances /\ Unused # holder["pipeline"] /\ Unused # holder["registry"]
<1> DEFINE free == {i \in Instances : i \notin Range(holder)}
<1>1. Range(holder) = {holder["pipeline"], holder["registry"]}
  BY DEF LoadersOK, Range
<1>2. free # {}
  <2>1. \A i, j \in Instances : \E k \in Instances : k # i /\ k # j
    BY DEF Instances
  <2> QED BY <1>1, <2>1 DEF LoadersOK
<1>3. Min(free) \in free
  BY <1>2, LeastOf
<1> QED BY <1>1, <1>3 DEF Unused

LEMMA LoadersStep ==
  ASSUME LoadersOK, Renewed, [ReadersNext]_allVars
  PROVE  LoadersOK' /\ Renewed'
<1>1. CASE UNCHANGED <<loaders, due>>
  BY <1>1 DEF LoadersOK, Renewed, loaders
<1>2. CASE \E r \in Readers : AskYaml(r)
  <2>1. /\ UNCHANGED <<mode, file, holder, asOf, due>> /\ cache' = Loaded(holder["pipeline"])
        /\ holder["pipeline"] \in Instances
    BY <1>2 DEF AskYaml, LoadersOK
  <2>2. \A i \in Instances :
          cache'[i] = cache[i] \/ (cache[i] = None /\ cache'[i] = file)
    BY <2>1 DEF Loaded, LoadersOK
  <2>3. cache' \in [Instances -> (0 .. file) \cup {None}]
    BY <2>1, <2>2, ReaderAssumption DEF Loaded, LoadersOK
  <2>4. LoadersOK'
    BY <2>1, <2>3 DEF LoadersOK
  <2>5. file >= asOf
    BY DEF LoadersOK
  <2>6. Renewed'
    BY <2>1, <2>2, <2>5 DEF Renewed, LoadersOK
  <2> QED BY <2>4, <2>6
<1>3. CASE EditFiles
  <2>1. /\ UNCHANGED <<mode, holder, asOf, due, cache>> /\ file' = file + 1 /\ file < MaxEdits
    BY <1>3 DEF EditFiles, reading
  <2>2. file' \in 0 .. MaxEdits /\ asOf \in 0 .. file' /\ 0 .. file \subseteq 0 .. file'
    BY <2>1, ReaderAssumption DEF LoadersOK
  <2>3. LoadersOK'
    BY <2>1, <2>2 DEF LoadersOK
  <2> QED BY <2>1, <2>3 DEF Renewed
<1>4. ASSUME NEW t \in Tasks, Refresh(t)
      PROVE  LoadersOK' /\ Renewed'
  <2>1. UNCHANGED <<mode, file>> /\ asOf' = file /\ due' \subseteq Tasks /\ file \in 0 .. file
    BY <1>4 DEF Refresh, LoadersOK
  <2>2. CASE mode = "yaml"
    <3>1. /\ holder' = [holder EXCEPT !["registry"] = Unused]
          /\ cache' = [cache EXCEPT ![Unused] = None]
      BY <1>4, <2>2 DEF Refresh, RefreshYaml
    <3>2. Unused \in Instances
      BY UnusedIsFree
    <3> HIDE DEF Unused
    <3>3. /\ holder' \in [{"pipeline", "registry"} -> Instances] /\ holder'["registry"] = Unused
          /\ cache' \in [Instances -> (0 .. file) \cup {None}] /\ cache'[Unused] = None
      BY <3>1, <3>2 DEF LoadersOK
    <3> QED BY <2>1, <2>2, <3>3 DEF LoadersOK, Renewed
  <2>3. CASE mode # "yaml"
    <3>1. UNCHANGED holder /\ cache' = [cache EXCEPT ![holder["registry"]] = None]
      BY <1>4, <2>3 DEF Refresh, RefreshHybrid
    <3>2. /\ cache' \in [Instances -> (0 .. file) \cup {None}]
          /\ cache'[holder["registry"]] = None
      BY <3>1 DEF LoadersOK
    <3> QED BY <2>1, <2>3, <3>1, <3>2 DEF LoadersOK, Renewed
  <2> QED BY <2>2, <2>3
<1>5. \A r \in Readers : Read(r) => UNCHANGED <<loaders, due>> \/ AskYaml(r)
  BY DEF Read, StartRead, FindCanonical, FindGroup, FindSynonyms, FindChildren, NoLoader
<1> QED BY <1>1, <1>2, <1>3, <1>4, <1>5, ReadersWatch

LEMMA LoadersAlways == ReadersSpec => [](LoadersOK /\ Renewed)
<1>1. ReadersInit => LoadersOK /\ Renewed
  <2> SUFFICES ASSUME ReadersInit PROVE LoadersOK /\ Renewed
    OBVIOUS
  <2>1. /\ mode \in Modes /\ file = 0 /\ asOf = 0 /\ due = Tasks
        /\ cache = [i \in Instances |-> None]
        /\ holder["pipeline"] = 1 /\ holder["registry"] = 1
        /\ holder \in [{"pipeline", "registry"} -> Instances]
    BY DEF ReadersInit, Instances
  <2>2. cache \in [Instances -> (0 .. file) \cup {None}] /\ file \in 0 .. MaxEdits /\ asOf \in 0 .. file
    BY <2>1, ReaderAssumption
  <2>3. LoadersOK
    BY <2>1, <2>2 DEF LoadersOK
  <2> QED BY <2>1, <2>3 DEF Renewed, Instances
<1> QED BY <1>1, LoadersStep, PTL DEF ReadersSpec

\* Where the versions of the expansions come from.
VersionTypes ==
  version \in [Readers -> (0 .. file) \cup {None}] /\ since \in [Readers -> 0 .. asOf]

\* A step that is none of the pipeline's leaves the versions; what it has read
\* stays or, outside yaml mode, is forgotten.
LEMMA VersionsStay ==
  ASSUME LoadersOK, VersionTypes, ReadIsFresh, UNCHANGED <<version, since, mode>>,
         file' >= file, file' \in Nat, asOf' >= asOf, asOf' \in Nat,
         mode = "yaml" => cache'[holder'["pipeline"]] = cache[holder["pipeline"]]
  PROVE  VersionTypes' /\ ReadIsFresh'
<1>1. file \in Nat /\ asOf \in Nat
  BY ReaderAssumption DEF LoadersOK
<1>2. 0 .. file \subseteq 0 .. file' /\ 0 .. asOf \subseteq 0 .. asOf'
  BY <1>1
<1> QED BY <1>2 DEF VersionTypes, ReadIsFresh

LEMMA VersionsStep ==
  ASSUME LoadersOK, Renewed, VersionTypes, ReadIsFresh, [ReadersNext]_allVars
  PROVE  VersionTypes' /\ ReadIsFresh'
<1>0. file \in Nat /\ asOf \in 0 .. file /\ asOf <= file /\ asOf \in Nat
  BY ReaderAssumption DEF LoadersOK
<1>1. CASE UNCHANGED <<loaders, version, since>>
  BY <1>0, <1>1, VersionsStay DEF loaders
<1>2. CASE EditFiles
  <2>1. UNCHANGED <<mode, holder, asOf, cache, version, since>> /\ file' = file + 1
    BY <1>2 DEF EditFiles, reading, observed
  <2> QED BY <1>0, <2>1, VersionsStay
<1>3. ASSUME NEW t \in Tasks, Refresh(t)
      PROVE  VersionTypes' /\ ReadIsFresh'
  <2>1. UNCHANGED <<mode, file, version, since>> /\ asOf' = file
    BY <1>3 DEF Refresh, reading, observed
  <2>2. mode = "yaml" => cache'[holder'["pipeline"]] = cache[holder["pipeline"]]
    <3> SUFFICES ASSUME mode = "yaml"
                 PROVE  cache'[holder'["pipeline"]] = cache[holder["pipeline"]]
      OBVIOUS
    <3>1. /\ holder' = [holder EXCEPT !["registry"] = Unused]
          /\ cache' = [cache EXCEPT ![Unused] = None]
      BY <1>3 DEF Refresh, RefreshYaml
    <3>2. Unused # holder["pipeline"] /\ holder["pipeline"] \in Instances
      BY UnusedIsFree DEF LoadersOK
    <3> HIDE DEF Unused
    <3>3. holder'["pipeline"] = holder["pipeline"]
      BY <3>1 DEF LoadersOK
    <3> QED BY <3>1, <3>2, <3>3 DEF LoadersOK
  <2> QED BY <1>0, <2>1, <2>2, VersionsStay
<1>4. ASSUME NEW r \in Readers, StartRead(r)
      PROVE  VersionTypes' /\ ReadIsFresh'
  <2>1. /\ version' = [version EXCEPT ![r] = None] /\ since' = [since EXCEPT ![r] = asOf]
        /\ UNCHANGED <<mode, file, cache, holder, asOf>>
    BY <1>4 DEF StartRead, NoLoader, loaders
  <2>2. asOf \in 0 .. asOf
    BY <1>0
  <2>3. VersionTypes'
    BY <2>1, <2>2 DEF VersionTypes
  <2>4. \A x \in Readers : version'[x] # None => version'[x] = version[x] /\ since'[x] = since[x]
    BY <2>1 DEF VersionTypes
  <2> QED BY <2>1, <2>3, <2>4 DEF ReadIsFresh
<1>5. ASSUME NEW r \in Readers, AskYaml(r)
      PROVE  VersionTypes' /\ ReadIsFresh'
  <2>1. PICK i \in Instances : i = holder["pipeline"]
    BY DEF LoadersOK
  <2>2. /\ cache' = Loaded(i) /\ version' = [version EXCEPT ![r] = Loaded(i)[i]]
        /\ UNCHANGED <<mode, file, holder, asOf, since>>
    BY <1>5, <2>1 DEF AskYaml
  <2>3. PICK v : v = Loaded(i)[i]
    OBVIOUS
  <2>4. /\ v = IF cache[i] = None THEN file ELSE cache[i]
        /\ v \in 0 .. file
    BY <1>0, <2>1, <2>3 DEF Loaded, LoadersOK
  <2>5. cache'[i] = v /\ version' = [version EXCEPT ![r] = v]
    BY <2>2, <2>3
  <2>6. VersionTypes'
    BY <2>2, <2>4, <2>5 DEF VersionTypes
  <2>7. mode # "yaml" => v >= since[r]
    BY <1>0, <2>1, <2>4 DEF Renewed, VersionTypes
  <2>8. ASSUME NEW x \in Readers, version'[x] # None
        PROVE  IF mode = "yaml" THEN v = version'[x] ELSE version'[x] >= since[x]
    <3>1. CASE x = r
      BY <2>5, <2>7, <3>1 DEF VersionTypes
    <3>2. CASE x # r
      <4>1. version'[x] = version[x]
        BY <2>5, <3>2 DEF VersionTypes
      <4>2. IF mode = "yaml" THEN cache[i] = version[x] ELSE version[x] >= since[x]
        BY <2>1, <2>8, <4>1 DEF ReadIsFresh
      <4> QED BY <2>4, <2>8, <4>1, <4>2
    <3> QED BY <3>1, <3>2
  <2>9. holder'["pipeline"] = i
    BY <2>1, <2>2
  <2> QED BY <2>2, <2>5, <2>6, <2>8, <2>9 DEF ReadIsFresh
<1>6. \A r \in Readers : Read(r) =>
        UNCHANGED <<loaders, version, since>> \/ StartRead(r) \/ AskYaml(r)
  BY DEF Read, FindCanonical, FindGroup, FindSynonyms, FindChildren, NoLoader, observed
<1> QED
  BY <1>1, <1>2, <1>3, <1>4, <1>5, <1>6, ReadersWatch DEF reading, observed

LEMMA VersionsAlways == ReadersSpec => [](VersionTypes /\ ReadIsFresh)
<1>1. ReadersInit => VersionTypes /\ ReadIsFresh
  BY DEF ReadersInit, VersionTypes, ReadIsFresh
<1>2. LoadersOK /\ Renewed /\ VersionTypes /\ ReadIsFresh /\ [ReadersNext]_allVars
        => VersionTypes' /\ ReadIsFresh'
  BY VersionsStep
<1> QED BY <1>1, <1>2, LoadersAlways, PTL DEF ReadersSpec

-----------------------------------------------------------------------------
(* What an expansion is made of                                              *)

\* The concepts one to five synonym steps from a term and those below.
Ring1(t) == Synonymous(Called(t))
Ring2(t) == Synonymous(Ring1(t))
Ring3(t) == Synonymous(Ring2(t))
Ring4(t) == Synonymous(Ring3(t))
Ring5(t) == Synonymous(Ring4(t))
Below1(t) == Kinds(Ring2(t))
Below2(t) == Kinds(Below1(t))
Below3(t) == Kinds(Below2(t))

LEMMA RelativesAre ==
  ASSUME NEW t
  PROVE  Relatives(t) = {n[1] : n \in Ring5(t) \cup Below1(t) \cup Below2(t) \cup Below3(t)}
BY DEF Relatives, Ring1, Ring2, Ring3, Ring4, Ring5, Below1, Below2, Below3

\* One synonym step reaches the concepts themselves, those of their names and
\* those beside them.
LEMMA OneStep ==
  ASSUME GraphOK, NEW ns \in SUBSET Stored
  PROVE  /\ Synonymous(ns) \in SUBSET Stored
         /\ ns \subseteq Synonymous(ns)
         /\ \A n \in ns : Called(n[1]) \subseteq Synonymous(ns)
         /\ \A e \in edges : e[1] = "SAME_AS" =>
              /\ e[2] \in ns => e[3] \in Synonymous(ns)
              /\ e[3] \in ns => e[2] \in Synonymous(ns)
<1>1. \A e \in edges : e[2] \in Stored /\ e[3] \in Stored
  BY DEF GraphOK, Stored
<1>2. Ends("SAME_AS", 2, ns) = {e[3] : e \in {e \in edges : e[1] = "SAME_AS" /\ e[2] \in ns}}
  BY DEF Ends
<1>3. Ends("SAME_AS", 3, ns) = {e[2] : e \in {e \in edges : e[1] = "SAME_AS" /\ e[3] \in ns}}
  BY DEF Ends
<1>4. Synonymous(ns) = {n \in Stored : Fold[n[1]] \in {Fold[m[1]] : m \in ns}}
                         \cup Ends("SAME_AS", 2, ns) \cup Ends("SAME_AS", 3, ns)
  BY DEF Synonymous
<1> QED BY <1>1, <1>2, <1>3, <1>4 DEF Called

LEMMA RingsAre ==
  ASSUME GraphOK, NEW t
  PROVE  /\ Called(t) \in SUBSET Stored /\ Ring1(t) \in SUBSET Stored
         /\ Ring2(t) \in SUBSET Stored /\ Ring3(t) \in SUBSET Stored
         /\ Ring4(t) \in SUBSET Stored
         /\ Called(t) \subseteq Ring1(t) /\ Ring1(t) \subseteq Ring2(t)
         /\ Ring2(t) \subseteq Ring3(t) /\ Ring3(t) \subseteq Ring4(t)
         /\ Ring4(t) \subseteq Ring5(t)
<1>0. Called(t) \in SUBSET Stored
  BY DEF Called
<1>1. Ring1(t) \in SUBSET Stored /\ Called(t) \subseteq Ring1(t)
  BY <1>0, OneStep DEF Ring1
<1>2. Ring2(t) \in SUBSET Stored /\ Ring1(t) \subseteq Ring2(t)
  BY <1>1, OneStep DEF Ring2
<1>3. Ring3(t) \in SUBSET Stored /\ Ring2(t) \subseteq Ring3(t)
  BY <1>2, OneStep DEF Ring3
<1>4. Ring4(t) \in SUBSET Stored /\ Ring3(t) \subseteq Ring4(t)
  BY <1>3, OneStep DEF Ring4
<1>5. Ring4(t) \subseteq Ring5(t)
  BY <1>4, OneStep DEF Ring5
<1> QED BY <1>0, <1>1, <1>2, <1>3, <1>4, <1>5

\* What is related stays so while the graph grows.
LEMMA RelativesStay ==
  ASSUME GraphOK, Grows, NEW t
  PROVE  /\ Ring1(t) \subseteq Ring1(t)' /\ Ring3(t) \subseteq Ring3(t)'
         /\ Relatives(t) \subseteq Relatives(t)'
<1>0. /\ \A n \in Stored : n \in Stored'
      /\ \A e \in edges : e \in edges'
  BY DEF Grows, Stored
<1>1. Called(t) \subseteq Called(t)'
  BY <1>0 DEF Called
<1>2. Ring1(t) \subseteq Ring1(t)'
  <2> HIDE DEF Called
  <2> QED BY <1>0, <1>1 DEF Ring1, Synonymous, Ends
<1>3. Ring2(t) \subseteq Ring2(t)'
  BY <1>0, <1>2 DEF Ring2, Synonymous, Ends
<1>4. Ring3(t) \subseteq Ring3(t)'
  BY <1>0, <1>3 DEF Ring3, Synonymous, Ends
<1>5. Ring4(t) \subseteq Ring4(t)'
  BY <1>0, <1>4 DEF Ring4, Synonymous, Ends
<1>6. Ring5(t) \subseteq Ring5(t)'
  BY <1>0, <1>5 DEF Ring5, Synonymous, Ends
<1>7. Below1(t) \subseteq Below1(t)'
  BY <1>0, <1>3 DEF Below1, Kinds, Ends
<1>8. Below2(t) \subseteq Below2(t)'
  BY <1>0, <1>7 DEF Below2, Kinds, Ends
<1>9. Below3(t) \subseteq Below3(t)'
  BY <1>0, <1>8 DEF Below3, Kinds, Ends
<1>10. Relatives(t)' = {n[1] : n \in Ring5(t)' \cup Below1(t)' \cup Below2(t)' \cup Below3(t)'}
  BY DEF Relatives, Ring1, Ring2, Ring3, Ring4, Ring5, Below1, Below2, Below3
<1> QED BY <1>2, <1>4, <1>6, <1>7, <1>8, <1>9, <1>10, RelativesAre

\* A canonical name is the term, or the name of a skill of the term or of one
\* that is its synonym.
LEMMA CanonicalIs ==
  ASSUME GraphOK, NEW t, NEW c \in CanonicalAnswers(t)
  PROVE  \/ c = t
         \/ \E n \in Called(t) : c = n[1]
         \/ \E e \in edges : e[1] = "SAME_AS" /\ e[2] \in Called(t) /\ c = e[3][1]
<1>1. SkillsCalled(t) \subseteq Called(t)
  BY DEF SkillsCalled
<1>2. CASE c # t
  <2>1. PICK n \in SkillsCalled(t) : c \in CanonicalRows(n)
    BY <1>2 DEF CanonicalAnswers
  <2>2. CASE \E e \in edges : e[1] = "SAME_AS" /\ e[2] = n /\ c = e[3][1]
    BY <1>1, <2>2
  <2>3. CASE c = n[1]
    BY <1>1, <2>3
  <2>4. CASE c = None
    <3>1. c \in {t} \/ \E r \in UNION {CanonicalRows(m) : m \in SkillsCalled(t)} :
                          c = IF r = None THEN t ELSE r
      BY DEF CanonicalAnswers
    <3> QED BY <1>2, <2>4, <3>1
  <2> QED BY <2>1, <2>2, <2>3, <2>4 DEF CanonicalRows
<1> QED BY <1>2

\* The name of t itself or of a concept in ns.
Of(c, t, ns) == c = t \/ \E n \in ns : c = n[1]

\* Each query of an expansion goes one or two steps further.
LEMMA CanonicalNear ==
  ASSUME GraphOK, NEW t, NEW c \in CanonicalAnswers(t) \cup {t}
  PROVE  Of(c, t, Ring1(t))
<1>1. Called(t) \in SUBSET Stored /\ Called(t) \subseteq Ring1(t)
  BY RingsAre
<1>2. \A e \in edges : e[1] = "SAME_AS" /\ e[2] \in Called(t) => e[3] \in Ring1(t)
  BY <1>1, OneStep DEF Ring1
<1>3. \/ c = t
      \/ \E n \in Called(t) : c = n[1]
      \/ \E e \in edges : e[1] = "SAME_AS" /\ e[2] \in Called(t) /\ c = e[3][1]
  BY CanonicalIs
<1> QED BY <1>1, <1>2, <1>3 DEF Of

LEMMA CalledNear ==
  ASSUME GraphOK, NEW t, NEW c, Of(c, t, Ring1(t))
  PROVE  Called(c) \subseteq Ring2(t)
<1>1. \A n \in Ring1(t) : Called(n[1]) \subseteq Ring2(t)
  BY RingsAre, OneStep DEF Ring2
<1>2. Called(t) \subseteq Ring2(t)
  BY RingsAre
<1> QED BY <1>1, <1>2 DEF Of

LEMMA GroupNear ==
  ASSUME GraphOK, NEW t, NEW c, Of(c, t, Ring1(t)), NEW g \in CanonicalAnswers(c) \cup {c}
  PROVE  Of(g, t, Ring3(t))
<1>1. Called(c) \subseteq Ring2(t)
  BY CalledNear
<1>2. Ring2(t) \in SUBSET Stored /\ Ring1(t) \subseteq Ring3(t) /\ Ring2(t) \subseteq Ring3(t)
  BY RingsAre
<1>3. \A e \in edges : e[1] = "SAME_AS" /\ e[2] \in Ring2(t) => e[3] \in Ring3(t)
  BY <1>2, OneStep DEF Ring3
<1>4. \/ g = c
      \/ \E n \in Called(c) : g = n[1]
      \/ \E e \in edges : e[1] = "SAME_AS" /\ e[2] \in Called(c) /\ g = e[3][1]
  BY CanonicalIs
<1>5. CASE g = c
  BY <1>2, <1>5 DEF Of
<1> QED BY <1>1, <1>2, <1>3, <1>4, <1>5 DEF Of

LEMMA SynonymsNear ==
  ASSUME GraphOK, NEW t, NEW g, Of(g, t, Ring3(t)), NEW found \in SynonymAnswers(g)
  PROVE  \A name \in found : Of(name, t, Ring5(t))
<1>1. \A n \in Ring3(t) : Called(n[1]) \subseteq Ring4(t)
  BY RingsAre, OneStep DEF Ring4
<1>2. /\ Called(t) \subseteq Ring4(t) /\ Ring4(t) \in SUBSET Stored
      /\ Ring4(t) \subseteq Ring5(t)
  BY RingsAre
<1>3. Called(g) \subseteq Ring4(t)
  BY <1>1, <1>2 DEF Of
<1>4. \A e \in edges : e[1] = "SAME_AS" =>
        /\ e[2] \in Ring4(t) => e[3] \in Ring5(t)
        /\ e[3] \in Ring4(t) => e[2] \in Ring5(t)
  BY <1>2, OneStep DEF Ring5
<1>5. PICK n \in SkillsCalled(g) : found = {n[1]} \cup {m[1] : m \in Beside(n)}
  BY DEF SynonymAnswers
<1>6. n \in Ring4(t)
  BY <1>3, <1>5 DEF SkillsCalled
<1>7. \A m \in Beside(n) : m \in Ring5(t)
  <2> SUFFICES ASSUME NEW m \in Beside(n) PROVE m \in Ring5(t)
    OBVIOUS
  <2>1. PICK e \in edges : e[1] = "SAME_AS" /\ <<e[2], e[3]>> \in {<<m, n>>, <<n, m>>}
    BY DEF Beside
  <2>2. (e[2] = m /\ e[3] = n) \/ (e[2] = n /\ e[3] = m)
    BY <2>1
  <2> QED BY <1>4, <1>6, <2>1, <2>2
<1> QED BY <1>2, <1>5, <1>6, <1>7 DEF Of

LEMMA ChildrenNear ==
  ASSUME GraphOK, NEW t, NEW c, Of(c, t, Ring1(t))
  PROVE  \A name \in Children(c) : name \in Relatives(t)
<1>1. Called(c) \subseteq Ring2(t)
  BY CalledNear
<1>2. \A ns, ms : ns \subseteq ms => Below(ns) \subseteq Kinds(ms)
  BY DEF Below, Kinds, Ends
<1>3. Below(Called(c)) \subseteq Below1(t)
  BY <1>1, <1>2 DEF Below1
<1>4. Below(Below(Called(c))) \subseteq Below2(t)
  BY <1>2, <1>3 DEF Below2
<1>5. Below(Below(Below(Called(c)))) \subseteq Below3(t)
  BY <1>2, <1>4 DEF Below3
<1> QED BY <1>3, <1>4, <1>5, RelativesAre DEF Children

\* Names are appended, some of those found and no more than the total allows.
LEMMA ExtendedIs ==
  ASSUME NEW seen \in SUBSET Names, NEW found \in SUBSET Names, NEW most,
         NEW s \in Extended(seen, found, most)
  PROVE  /\ seen \subseteq s /\ s \subseteq seen \cup found
         /\ Cardinality(seen) <= Config.total => Cardinality(s) <= Config.total
<1>1. PICK p \in SUBSET found :
        \E x \in SUBSET (p \ seen) :
          /\ s = seen \cup x
          /\ Cardinality(x) = Min({Config.total - Cardinality(seen), Cardinality(p \ seen)})
  BY DEF Extended
<1>2. PICK x \in SUBSET (p \ seen) :
        /\ s = seen \cup x
        /\ Cardinality(x) = Min({Config.total - Cardinality(seen), Cardinality(p \ seen)})
  BY <1>1
<1>3. IsFiniteSet(seen) /\ IsFiniteSet(x) /\ IsFiniteSet(p \ seen)
  <2>1. seen \subseteq Names /\ x \subseteq Names /\ p \ seen \subseteq Names
    OBVIOUS
  <2> QED BY <2>1, ReaderAssumption, FS_Subset
<1>4. /\ Cardinality(seen) \in Nat /\ Cardinality(x) \in Nat /\ Cardinality(p \ seen) \in Nat
      /\ Config.total \in Nat
  BY <1>3, FS_CardinalityType, ReaderAssumption
<1>5. \A a, b \in Int : Min({a, b}) <= a
  <2> SUFFICES ASSUME NEW a \in Int, NEW b \in Int PROVE Min({a, b}) <= a
    OBVIOUS
  <2>1. \E k \in {a, b} : \A j \in {a, b} : k <= j
    OBVIOUS
  <2> QED BY <2>1 DEF Min
<1>6. Cardinality(x) <= Config.total - Cardinality(seen)
  <2>1. Config.total - Cardinality(seen) \in Int /\ Cardinality(p \ seen) \in Int
    BY <1>4
  <2>2. Min({Config.total - Cardinality(seen), Cardinality(p \ seen)})
          <= Config.total - Cardinality(seen)
    BY <1>5, <2>1, Zenon
  <2> QED BY <1>2, <2>2
<1>7. Cardinality(s) = Cardinality(seen) + Cardinality(x)
  <2>1. seen \cap x = {}
    OBVIOUS
  <2>2. Cardinality(seen \cup x) = Cardinality(seen) + Cardinality(x) - Cardinality(seen \cap x)
    BY <1>3, FS_Union
  <2>3. Cardinality(seen \cap x) = 0
    BY <2>1, FS_EmptySet
  <2> QED BY <1>2, <1>4, <2>2, <2>3
<1> QED BY <1>2, <1>4, <1>6, <1>7

\* What holds of a question about t at each of its steps: its names so far are
\* related to t and the names it asks about next are near it.
TermOK(r, t) ==
  /\ t \in names[r] /\ Cardinality(names[r]) <= Config.total
  /\ \A name \in names[r] : name = t \/ name \in FileExpand[t] \/ name \in Relatives(t)
  /\ rpc[r] \in {"group", "synonyms", "children"} =>
       canon[r] \in Names /\ Of(canon[r], t, Ring1(t))
  /\ rpc[r] = "synonyms" => Of(group[r], t, Ring3(t))
  /\ mode = "hybrid" /\ rpc[r] = "done" /\ names[r] = {t} => FileExpand[t] = {t}

ReaderOK(r) == rpc[r] # "idle" => \E t \in Terms : t = term[r] /\ TermOK(r, t)

ReadingTypes ==
  /\ rpc \in [Readers -> {"idle", "canonical", "group", "synonyms", "children",
                          "yaml", "done"}]
  /\ term \in [Readers -> Terms \cup {None}]
  /\ canon \in [Readers -> Names \cup {None}]
  /\ group \in [Readers -> Names \cup {None}]
  /\ names \in [Readers -> SUBSET Names]

At(r) == <<rpc[r], term[r], canon[r], group[r], names[r]>>

\* The graph only grows beside a question that does nothing.
LEMMA ReaderStays ==
  ASSUME GraphOK, Grows, UNCHANGED mode, NEW r \in Readers, ReaderOK(r), UNCHANGED At(r)
  PROVE  ReaderOK(r)'
<1>1. /\ rpc'[r] = rpc[r] /\ term'[r] = term[r] /\ canon'[r] = canon[r]
      /\ group'[r] = group[r] /\ names'[r] = names[r]
  BY DEF At
<1>2. CASE rpc[r] # "idle"
  <2>1. PICK t \in Terms : t = term[r] /\ TermOK(r, t)
    BY <1>2 DEF ReaderOK
  <2>2. /\ Ring1(t) \subseteq Ring1(t)' /\ Ring3(t) \subseteq Ring3(t)'
        /\ Relatives(t) \subseteq Relatives(t)'
    BY RelativesStay
  <2>3. TermOK(r, t)'
    BY <1>1, <2>1, <2>2 DEF TermOK, Of
  <2> QED BY <1>1, <2>1, <2>3 DEF ReaderOK
<1> QED BY <1>1, <1>2 DEF ReaderOK

\* What the graph answers are names.
LEMMA AnswersAreNames ==
  ASSUME GraphOK, NEW t \in Names
  PROVE  /\ CanonicalAnswers(t) \subseteq Names /\ Children(t) \subseteq Names
         /\ SynonymAnswers(t) \subseteq SUBSET Names
<1>1. \A n \in Node : n[1] \in Names
  BY DEF Node
<1>2. \A n \in Stored : n \in Node
  BY DEF Stored
<1>3. \A e \in edges : e[2] \in Node /\ e[3] \in Node
  BY DEF GraphOK
<1>4. CanonicalAnswers(t) \subseteq Names
  BY <1>1, <1>2, <1>3, CanonicalIs DEF Called
<1>5. \A ns : Below(ns) \subseteq Node
  BY <1>3 DEF Below
<1>6. Children(t) \subseteq Names
  BY <1>1, <1>5 DEF Children
<1>7. ASSUME NEW found \in SynonymAnswers(t)
      PROVE  found \subseteq Names
  <2>1. PICK n \in SkillsCalled(t) : found = {n[1]} \cup {m[1] : m \in Beside(n)}
    BY DEF SynonymAnswers
  <2>2. n \in Stored /\ \A m \in Beside(n) : m \in Stored
    BY <2>1 DEF SkillsCalled, Called, Beside
  <2> QED BY <1>1, <1>2, <2>1, <2>2
<1> QED BY <1>4, <1>6, <1>7

\* What is added in a step is related to the term.
LEMMA AddedIs ==
  ASSUME NEW t \in Terms, NEW r \in Readers, names[r] \in SUBSET Names, TermOK(r, t),
         NEW found \in SUBSET Names, \A name \in found : name = t \/ name \in Relatives(t),
         NEW most, NEW s \in Extended(names[r], found, most)
  PROVE  /\ t \in s /\ Cardinality(s) <= Config.total /\ s \in SUBSET Names
         /\ \A name \in s : name = t \/ name \in FileExpand[t] \/ name \in Relatives(t)
<1>1. /\ names[r] \subseteq s /\ s \subseteq names[r] \cup found
      /\ Cardinality(names[r]) <= Config.total => Cardinality(s) <= Config.total
  BY ExtendedIs
<1> QED BY <1>1 DEF TermOK

LEMMA NearIsRelated ==
  ASSUME GraphOK, NEW t, NEW c, Of(c, t, Ring1(t)) \/ Of(c, t, Ring5(t))
  PROVE  c = t \/ c \in Relatives(t)
<1>1. Ring1(t) \subseteq Ring5(t)
  BY RingsAre
<1> QED BY <1>1, RelativesAre DEF Of

\* A query moves one question and leaves the others.
LEMMA OneReads ==
  ASSUME ReadingTypes, NEW r \in Readers, Read(r)
  PROVE  /\ ReadingTypes' => \A x \in Readers : x # r => UNCHANGED At(x)
         /\ UNCHANGED mode /\ UNCHANGED vars
<1>1. UNCHANGED mode /\ UNCHANGED vars
  BY DEF Read, StartRead, FindCanonical, FindGroup, FindSynonyms, FindChildren, AskYaml,
         NoLoader, loaders
<1>2. ASSUME NEW x \in Readers, x # r
      PROVE  /\ rpc'[x] = rpc[x] /\ term'[x] = term[x] /\ canon'[x] = canon[x]
             /\ group'[x] = group[x] /\ names'[x] = names[x]
  BY <1>2 DEF Read, StartRead, FindCanonical, FindGroup, FindSynonyms, FindChildren, AskYaml,
         RGoto, ReadingTypes
<1> QED BY <1>1, <1>2 DEF At

\* StartRead: the term alone.
LEMMA StartReads ==
  ASSUME GraphOK, ReadingTypes, NEW r \in Readers, StartRead(r)
  PROVE  ReadingTypes' /\ ReaderOK(r)'
<1>1. PICK t \in Terms : term' = [term EXCEPT ![r] = t] /\ names' = [names EXCEPT ![r] = {t}]
  BY DEF StartRead
<1>2. t \in Names
  BY ReaderAssumption
<1>3. PICK l \in {"yaml", "canonical"} : rpc' = [rpc EXCEPT ![r] = l]
  BY DEF StartRead, RGoto
<1>4. canon' = [canon EXCEPT ![r] = None] /\ group' = [group EXCEPT ![r] = None]
  BY DEF StartRead
<1>5. ReadingTypes'
  BY <1>1, <1>2, <1>3, <1>4 DEF ReadingTypes
<1>6. term'[r] = t /\ names'[r] = {t} /\ rpc'[r] = l
  BY <1>1, <1>3 DEF ReadingTypes
<1>7. Cardinality({t}) <= Config.total
  <2>1. Config.total \in Nat \ {0}
    BY ReaderAssumption
  <2>2. Cardinality({t}) = 1
    BY FS_Singleton
  <2> QED BY <2>1, <2>2
<1>8. TermOK(r, t)'
  BY <1>3, <1>6, <1>7 DEF TermOK
<1> QED BY <1>5, <1>6, <1>8 DEF ReaderOK

\* FindCanonical: the term or the name of a concept at most a step away.
LEMMA CanonicalFound ==
  ASSUME GraphOK, ReadingTypes, NEW r \in Readers, ReaderOK(r), FindCanonical(r)
  PROVE  ReadingTypes' /\ ReaderOK(r)'
<1>1. rpc[r] = "canonical" /\ UNCHANGED <<term, group>> /\ UNCHANGED vars
      /\ rpc' = [rpc EXCEPT ![r] = "group"]
  BY DEF FindCanonical, RGoto
<1>2. PICK t \in Terms : t = term[r] /\ TermOK(r, t)
  BY <1>1 DEF ReaderOK
<1>3. PICK c \in CanonicalAnswers(t) \cup {t} :
        /\ canon' = [canon EXCEPT ![r] = c]
        /\ \E s \in Extended(names[r], {c}, 1) : names' = [names EXCEPT ![r] = s]
  BY <1>2 DEF FindCanonical
<1>0. PICK found : found = {c}
  OBVIOUS
<1>m. PICK most : most = 1
  OBVIOUS
<1>4. PICK s \in Extended(names[r], found, most) : names' = [names EXCEPT ![r] = s]
  BY <1>0, <1>3, <1>m
<1>5. t \in Names /\ c \in Names
  BY AnswersAreNames, ReaderAssumption
<1>6. Of(c, t, Ring1(t))
  BY CanonicalNear
<1>7. found \in SUBSET Names /\ names[r] \in SUBSET Names
      /\ \A name \in found : name = t \/ name \in Relatives(t)
  BY <1>0, <1>5, <1>6, NearIsRelated DEF ReadingTypes
<1>8. /\ t \in s /\ Cardinality(s) <= Config.total /\ s \in SUBSET Names
      /\ \A name \in s : name = t \/ name \in FileExpand[t] \/ name \in Relatives(t)
  BY <1>2, <1>7, AddedIs
<1>9. ReadingTypes'
  BY <1>1, <1>3, <1>4, <1>5, <1>8 DEF ReadingTypes
<1>10. rpc'[r] = "group" /\ term'[r] = t /\ canon'[r] = c /\ names'[r] = s
  BY <1>1, <1>2, <1>3, <1>4 DEF ReadingTypes
<1>11. Grows
  BY <1>1 DEF Grows, vars
<1>12. Ring1(t) \subseteq Ring1(t)' /\ Relatives(t) \subseteq Relatives(t)'
  BY <1>11, RelativesStay
<1>13. TermOK(r, t)'
  BY <1>5, <1>6, <1>8, <1>10, <1>12 DEF TermOK, Of
<1> QED BY <1>9, <1>10, <1>13 DEF ReaderOK

\* FindGroup: the canonical name of the canonical name.
LEMMA GroupFound ==
  ASSUME GraphOK, ReadingTypes, NEW r \in Readers, ReaderOK(r), FindGroup(r)
  PROVE  ReadingTypes' /\ ReaderOK(r)'
<1>1. rpc[r] = "group" /\ UNCHANGED <<term, canon, names>> /\ UNCHANGED vars
      /\ rpc' = [rpc EXCEPT ![r] = "synonyms"]
  BY DEF FindGroup, RGoto
<1>2. PICK t \in Terms : t = term[r] /\ TermOK(r, t)
  BY <1>1 DEF ReaderOK
<1>3. PICK c \in Names : c = canon[r] /\ Of(c, t, Ring1(t))
  BY <1>1, <1>2 DEF TermOK
<1>4. PICK g \in CanonicalAnswers(c) \cup {c} : group' = [group EXCEPT ![r] = g]
  BY <1>3 DEF FindGroup
<1>5. g \in Names
  BY AnswersAreNames
<1>6. Of(g, t, Ring3(t))
  BY <1>3, GroupNear
<1>7. ReadingTypes'
  BY <1>1, <1>4, <1>5 DEF ReadingTypes
<1>8. rpc'[r] = "synonyms" /\ term'[r] = t /\ canon'[r] = c /\ group'[r] = g /\ names'[r] = names[r]
  BY <1>1, <1>2, <1>3, <1>4 DEF ReadingTypes
<1>9. Grows
  BY <1>1 DEF Grows, vars
<1>10. /\ Ring1(t) \subseteq Ring1(t)' /\ Ring3(t) \subseteq Ring3(t)'
       /\ Relatives(t) \subseteq Relatives(t)'
  BY <1>9, RelativesStay
<1>11. TermOK(r, t)'
  BY <1>2, <1>3, <1>6, <1>8, <1>10 DEF TermOK, Of
<1> QED BY <1>7, <1>8, <1>11 DEF ReaderOK

\* FindSynonyms: names beside the group, or the canonical name alone.
LEMMA SynonymsFound ==
  ASSUME GraphOK, ReadingTypes, NEW r \in Readers, ReaderOK(r), FindSynonyms(r)
  PROVE  ReadingTypes' /\ ReaderOK(r)'
<1>1. rpc[r] = "synonyms" /\ UNCHANGED <<term, canon, group>> /\ UNCHANGED vars
      /\ rpc' = [rpc EXCEPT ![r] = "children"]
  BY DEF FindSynonyms, RGoto
<1>2. PICK t \in Terms : t = term[r] /\ TermOK(r, t)
  BY <1>1 DEF ReaderOK
<1>3. PICK c \in Names : c = canon[r] /\ Of(c, t, Ring1(t))
  BY <1>1, <1>2 DEF TermOK
<1>4. PICK g \in Names \cup {None} : g = group[r] /\ Of(g, t, Ring3(t))
  BY <1>1, <1>2 DEF TermOK, ReadingTypes
<1>5. PICK found \in SynonymAnswers(g) \cup {{c}} :
        \E s \in Extended(names[r], found, Config.synonyms) : names' = [names EXCEPT ![r] = s]
  BY <1>3, <1>4 DEF FindSynonyms
<1>6. PICK s \in Extended(names[r], found, Config.synonyms) : names' = [names EXCEPT ![r] = s]
  BY <1>5
<1>7. t \in Names
  BY ReaderAssumption
<1>8. found \in SUBSET Names /\ \A name \in found : name = t \/ name \in Relatives(t)
  <2>1. CASE found = {c}
    BY <1>3, <2>1, NearIsRelated
  <2>2. CASE found \in SynonymAnswers(g)
    <3>1. \A name \in found : Of(name, t, Ring5(t))
      BY <1>4, <2>2, SynonymsNear
    <3>2. \A name \in found : name = t \/ name \in Relatives(t)
      BY <3>1, NearIsRelated
    <3>3. \A n \in Stored : n[1] \in Names
      BY DEF Stored, Node
    <3>4. \A name \in found : name \in Names
      <4>1. PICK n \in SkillsCalled(g) : found = {n[1]} \cup {m[1] : m \in Beside(n)}
        BY <2>2 DEF SynonymAnswers
      <4>2. n \in Stored /\ \A m \in Beside(n) : m \in Stored
        BY <4>1 DEF SkillsCalled, Called, Beside
      <4> QED BY <3>3, <4>1, <4>2
    <3> QED BY <3>2, <3>4
  <2> QED BY <2>1, <2>2
<1>9. names[r] \in SUBSET Names
  BY DEF ReadingTypes
<1>10. /\ t \in s /\ Cardinality(s) <= Config.total /\ s \in SUBSET Names
       /\ \A name \in s : name = t \/ name \in FileExpand[t] \/ name \in Relatives(t)
  BY <1>2, <1>8, <1>9, AddedIs
<1>11. ReadingTypes'
  BY <1>1, <1>6, <1>10 DEF ReadingTypes
<1>12. rpc'[r] = "children" /\ term'[r] = t /\ canon'[r] = c /\ names'[r] = s
  BY <1>1, <1>2, <1>3, <1>6 DEF ReadingTypes
<1>13. Grows
  BY <1>1 DEF Grows, vars
<1>14. Ring1(t) \subseteq Ring1(t)' /\ Relatives(t) \subseteq Relatives(t)'
  BY <1>13, RelativesStay
<1>15. TermOK(r, t)'
  BY <1>3, <1>10, <1>12, <1>14 DEF TermOK, Of
<1> QED BY <1>11, <1>12, <1>15 DEF ReaderOK

\* FindChildren: names below the canonical name; the hybrid loader goes on to
\* the files with the term alone.
LEMMA ChildrenFound ==
  ASSUME GraphOK, ReadingTypes, NEW r \in Readers, ReaderOK(r), FindChildren(r)
  PROVE  ReadingTypes' /\ ReaderOK(r)'
<1>1. rpc[r] = "children" /\ UNCHANGED <<term, canon, group>> /\ UNCHANGED vars /\ UNCHANGED mode
  BY DEF FindChildren, NoLoader, loaders
<1>2. PICK t \in Terms : t = term[r] /\ TermOK(r, t)
  BY <1>1 DEF ReaderOK
<1>3. PICK c \in Names : c = canon[r] /\ Of(c, t, Ring1(t))
  BY <1>1, <1>2 DEF TermOK
<1>m. PICK most : most = Config.children
  OBVIOUS
<1>4. PICK found : found \in {Children(c), {}} /\
        \E s \in Extended(names[r], found, most) :
          names' = [names EXCEPT ![r] = s] /\ rpc' = [rpc EXCEPT ![r] = AfterGraph(s)]
  BY <1>3, <1>m DEF FindChildren, RGoto
<1>5. PICK s \in Extended(names[r], found, most) :
        names' = [names EXCEPT ![r] = s] /\ rpc' = [rpc EXCEPT ![r] = AfterGraph(s)]
  BY <1>4
<1>6. found \in SUBSET Names /\ \A name \in found : name = t \/ name \in Relatives(t)
  <2>1. CASE found = {}
    BY <2>1
  <2>2. CASE found = Children(c)
    BY <1>3, <2>2, ChildrenNear, AnswersAreNames
  <2> QED BY <1>4, <2>1, <2>2
<1>7. names[r] \in SUBSET Names
  BY DEF ReadingTypes
<1>8. /\ t \in s /\ Cardinality(s) <= Config.total /\ s \in SUBSET Names
      /\ \A name \in s : name = t \/ name \in FileExpand[t] \/ name \in Relatives(t)
  BY <1>2, <1>6, <1>7, AddedIs
<1>9. AfterGraph(s) \in {"yaml", "done"}
      /\ (mode = "hybrid" /\ AfterGraph(s) = "done" => Cardinality(s) # 1)
  BY DEF AfterGraph
<1> HIDE DEF AfterGraph
<1>10. ReadingTypes'
  BY <1>1, <1>5, <1>8, <1>9 DEF ReadingTypes
<1>11. rpc'[r] = AfterGraph(s) /\ term'[r] = t /\ names'[r] = s
  BY <1>1, <1>2, <1>5 DEF ReadingTypes
<1>12. Grows
  BY <1>1 DEF Grows, vars
<1>13. Relatives(t) \subseteq Relatives(t)'
  BY <1>12, RelativesStay
<1>14. s = {t} => Cardinality(s) = 1
  BY FS_Singleton
<1>15. TermOK(r, t)'
  BY <1>1, <1>8, <1>9, <1>11, <1>13, <1>14 DEF TermOK
<1> QED BY <1>10, <1>11, <1>15 DEF ReaderOK

\* A list's elements before which there are fewer than total different ones are
\* at most total, the first one among them.
LEMMA FirstsAreFew ==
  ASSUME NEW all \in Seq(Names), all # <<>>, NEW total \in Nat \ {0},
         NEW first, first = {i \in DOMAIN all : Cardinality({all[j] : j \in 1 .. i - 1}) < total}
  PROVE  /\ all[1] \in {all[i] : i \in first} /\ {all[i] : i \in first} \subseteq Names
         /\ Cardinality({all[i] : i \in first}) <= total
<1> DEFINE Before(i) == {all[j] : j \in 1 .. i - 1}
           Others == (1 .. Len(all) + 1) \ first
<1>1. /\ DOMAIN all = 1 .. Len(all) /\ Len(all) \in Nat /\ 1 \in 1 .. Len(all)
      /\ \A i \in 1 .. Len(all) : all[i] \in Names
  OBVIOUS
<1>2. /\ first \subseteq 1 .. Len(all)
      /\ \A i \in 1 .. Len(all) : i \in first <=> Cardinality(Before(i)) < total
  BY <1>1
<1>3. ASSUME NEW i \in 1 .. Len(all) + 1, NEW k \in 1 .. i
      PROVE  /\ IsFiniteSet(Before(i)) /\ Cardinality(Before(i)) \in Nat
             /\ Cardinality(Before(k)) \in Nat
             /\ Cardinality(Before(k)) <= Cardinality(Before(i))
  <2>1. Before(i) \subseteq Names /\ Before(k) \subseteq Before(i)
    BY <1>1
  <2> HIDE DEF Before
  <2>2. IsFiniteSet(Before(i))
    BY <2>1, ReaderAssumption, FS_Subset
  <2>3. IsFiniteSet(Before(k)) /\ Cardinality(Before(k)) <= Cardinality(Before(i))
    BY <2>1, <2>2, FS_Subset
  <2> QED BY <2>2, <2>3, FS_CardinalityType
<1>4. 1 \in first
  <2>1. Before(1) = {}
    OBVIOUS
  <2> HIDE DEF Before
  <2>2. Cardinality(Before(1)) = 0
    BY <2>1, FS_EmptySet
  <2> QED BY <1>1, <1>2, <2>2
<1>5. PICK k \in Others : \A i \in Others : k <= i
  <2> DEFINE R == {ss \in Nat \X Nat : ss[1] < ss[2]}
  <2>1. IsWellFoundedOn(R, Nat)
    BY NatLessThanWellFounded DEF OpToRel
  <2>2. Others \subseteq Nat /\ Len(all) + 1 \in Others
    BY <1>1, <1>2
  <2> HIDE DEF R, Others
  <2>3. PICK m \in Others : \A i \in Others : <<i, m>> \notin R
    BY <2>1, <2>2, WFMin
  <2>4. \A i \in Others : ~(i < m)
    BY <2>2, <2>3 DEF R
  <2> QED BY <2>2, <2>4
<1> PICK n : n = Len(all)
  OBVIOUS
<1>6. /\ k \in 2 .. n + 1 /\ k \notin first /\ k - 1 \in first
      /\ \A i \in 1 .. k - 1 : i \in first
  <2>1. k \in 1 .. n + 1 /\ k \notin first /\ k # 1 /\ n \in Nat
    BY <1>1, <1>4, <1>5
  <2>2. ASSUME NEW i \in 1 .. k - 1 PROVE i \in first
    <3>1. i \in 1 .. n + 1 /\ ~(k <= i)
      BY <2>1
    <3> QED BY <1>5, <3>1
  <2>3. k \in 2 .. n + 1 /\ k - 1 \in 1 .. k - 1
    BY <2>1
  <2> QED BY <2>1, <2>2, <2>3
<1>7. \A i \in first : i \in 1 .. k - 1
  <2> SUFFICES ASSUME NEW i \in first, k < i PROVE FALSE
    <3>1. \A i \in first : i \in Int /\ i >= 1 /\ i # k
      BY <1>1, <1>2, <1>6
    <3>2. \A i \in Int : i >= 1 /\ i # k /\ ~(k < i) => i \in 1 .. k - 1
      BY <1>1, <1>6
    <3> QED BY <3>1, <3>2
  <2>1. i \in 1 .. Len(all) /\ k \in 1 .. Len(all) /\ k \in 1 .. i
    BY <1>1, <1>2, <1>6
  <2>2. /\ Cardinality(Before(k)) \in Nat /\ Cardinality(Before(i)) \in Nat
        /\ Cardinality(Before(k)) <= Cardinality(Before(i))
    <3> HIDE DEF Before
    <3> QED BY <1>1, <1>3, <2>1
  <2> HIDE DEF Before
  <2>3. Cardinality(Before(i)) < total /\ ~(Cardinality(Before(k)) < total)
    BY <1>2, <1>6, <2>1
  <2> PICK c, d : c = Cardinality(Before(k)) /\ d = Cardinality(Before(i))
    OBVIOUS
  <2>4. c \in Nat /\ d \in Nat /\ c <= d /\ d < total /\ ~(c < total)
    BY <2>2, <2>3
  <2> QED BY <2>4
<1>8. {all[i] : i \in first} = Before(k - 1) \cup {all[k - 1]}
  <2>1. first = 1 .. k - 1
    BY <1>6, <1>7
  <2>2. 1 .. k - 1 = (1 .. (k - 1) - 1) \cup {k - 1}
    BY <1>1, <1>6
  <2>3. {all[i] : i \in first} = {all[i] : i \in (1 .. (k - 1) - 1) \cup {k - 1}}
    BY <2>1, <2>2
  <2> QED BY <2>3
<1>9. /\ IsFiniteSet(Before(k - 1)) /\ Cardinality(Before(k - 1)) \in Nat
      /\ Cardinality(Before(k - 1)) < total
  <2>1. k - 1 \in 1 .. Len(all) /\ k - 1 \in 1 .. Len(all) + 1 /\ k - 1 \in 1 .. k - 1
    BY <1>1, <1>6
  <2> HIDE DEF Before
  <2> QED BY <1>2, <1>3, <1>6, <2>1
<1>10. Cardinality({all[i] : i \in first}) <= total
  <2> HIDE DEF Before
  <2>1. Cardinality(Before(k - 1) \cup {all[k - 1]}) \in
          {Cardinality(Before(k - 1)), Cardinality(Before(k - 1)) + 1}
    BY <1>9, FS_AddElement
  <2> PICK c, d : /\ c = Cardinality(Before(k - 1))
                  /\ d = Cardinality(Before(k - 1) \cup {all[k - 1]})
    OBVIOUS
  <2>2. c \in Nat /\ c < total /\ d \in {c, c + 1}
    BY <1>9, <2>1
  <2>3. d <= total
    BY <2>2
  <2> QED BY <1>8, <2>3
<1> QED BY <1>1, <1>2, <1>4, <1>10

\* The files' expansion of a term has the term, names, and not too many.
LEMMA FilesExpand ==
  ASSUME NEW t \in Names
  PROVE  /\ t \in FileExpand[t] /\ FileExpand[t] \subseteq Names
         /\ Cardinality(FileExpand[t]) <= Config.total
<1> PICK synonyms, children : /\ synonyms = YamlSynonyms(t)
                              /\ children = YamlChildren(YamlCanonical(t))
  OBVIOUS
<1>1. synonyms \in Seq(Names) /\ children \in Seq(Names)
  BY ListsAssumption
<1>2. Config.synonyms \in Nat /\ Config.children \in Nat /\ Config.total \in Nat \ {0}
  BY ReaderAssumption
<1>3. \A s \in Seq(Names), n \in Nat : FirstOf(s, n) \in Seq(Names)
  <2> SUFFICES ASSUME NEW s \in Seq(Names), NEW n \in Nat PROVE FirstOf(s, n) \in Seq(Names)
    OBVIOUS
  <2>1. Len(s) \in Nat
    OBVIOUS
  <2>2. Min({n, Len(s)}) \in 0 .. Len(s)
    BY <2>1 DEF Min
  <2>3. \A m \in 0 .. Len(s) : SubSeq(s, 1, m) \in Seq(Names)
    BY <2>1
  <2> QED BY <2>2, <2>3 DEF FirstOf
<1> PICK all : all = <<t>> \o FirstOf(synonyms, Config.synonyms)
                           \o FirstOf(children, Config.children)
  OBVIOUS
<1>4. all \in Seq(Names) /\ all # <<>> /\ all[1] = t
  <2> PICK a, b : a = FirstOf(synonyms, Config.synonyms) /\ b = FirstOf(children, Config.children)
    OBVIOUS
  <2>1. a \in Seq(Names) /\ b \in Seq(Names)
    BY <1>1, <1>2, <1>3
  <2>2. all = <<t>> \o a \o b
    OBVIOUS
  <2> QED BY <2>1, <2>2
<1>5. FileExpand[t] = {all[i] : i \in {i \in DOMAIN all :
                         Cardinality({all[j] : j \in 1 .. i - 1}) < Config.total}}
  <2>1. FileExpand[t] = YamlExpand(t, Config)
    BY DEF FileExpand
  <2> QED BY <2>1 DEF YamlExpand
<1> QED BY <1>2, <1>4, <1>5, FirstsAreFew

\* AskYaml: what the files relate to the term.
LEMMA YamlAsked ==
  ASSUME GraphOK, ReadingTypes, NEW r \in Readers, ReaderOK(r), AskYaml(r)
  PROVE  ReadingTypes' /\ ReaderOK(r)'
<1>1. rpc[r] = "yaml" /\ UNCHANGED <<term, canon, group>> /\ UNCHANGED mode
      /\ rpc' = [rpc EXCEPT ![r] = "done"]
      /\ names' = [names EXCEPT ![r] = FileExpand[term[r]]]
  BY DEF AskYaml, RGoto
<1>2. PICK t \in Terms : t = term[r] /\ TermOK(r, t)
  BY <1>1 DEF ReaderOK
<1>3. /\ t \in FileExpand[t] /\ FileExpand[t] \subseteq Names
      /\ Cardinality(FileExpand[t]) <= Config.total
  BY <1>2, ReaderAssumption, FilesExpand
<1> HIDE DEF FileExpand
<1>4. ReadingTypes'
  BY <1>1, <1>2, <1>3 DEF ReadingTypes
<1>5. rpc'[r] = "done" /\ term'[r] = t /\ names'[r] = FileExpand[t]
  BY <1>1, <1>2 DEF ReadingTypes
<1>6. TermOK(r, t)'
  BY <1>3, <1>5 DEF TermOK
<1> QED BY <1>4, <1>5, <1>6 DEF ReaderOK

ReadingOK == ReadingTypes /\ \A r \in Readers : ReaderOK(r)

LEMMA ReadingStep ==
  ASSUME Inv, ReadingOK, [ReadersNext]_allVars
  PROVE  ReadingOK'
<1>1. GraphOK /\ Grows
  BY GraphStep, ReadersWatch DEF Inv
<1>2. CASE UNCHANGED <<mode, reading>>
  <2>1. ReadingTypes' /\ UNCHANGED mode /\ \A r \in Readers : UNCHANGED At(r)
    BY <1>2 DEF ReadingOK, ReadingTypes, reading, At
  <2> QED BY <1>1, <2>1, ReaderStays DEF ReadingOK
<1>3. ASSUME NEW r \in Readers, Read(r)
      PROVE  ReadingOK'
  <2>1. ReadingTypes' /\ ReaderOK(r)'
    BY <1>1, <1>3, StartReads, CanonicalFound, GroupFound, SynonymsFound, ChildrenFound,
       YamlAsked DEF Read, ReadingOK
  <2>2. UNCHANGED mode /\ \A x \in Readers : x # r => UNCHANGED At(x)
    BY <1>3, <2>1, OneReads DEF ReadingOK
  <2>3. ASSUME NEW x \in Readers, x # r
        PROVE  ReaderOK(x)'
    BY <1>1, <2>2, <2>3, ReaderStays DEF ReadingOK
  <2> QED BY <2>1, <2>3 DEF ReadingOK
<1>4. UNCHANGED <<loaders, due, reading>> => UNCHANGED <<mode, reading>>
  BY DEF loaders
<1>5. EditFiles \/ (\E t \in Tasks : Refresh(t)) => UNCHANGED <<mode, reading>>
  BY DEF EditFiles, Refresh
<1> QED BY <1>2, <1>3, <1>4, <1>5, ReadersWatch

LEMMA ReadingAlways == ReadersSpec => []ReadingOK
<1>1. ReadersInit => ReadingOK
  BY DEF ReadersInit, ReadingOK, ReadingTypes, ReaderOK
<1>2. ReadersSpec => []Inv
  BY ReadersOnlyRead, InvAlways, PTL
<1>3. Inv /\ ReadingOK /\ [ReadersNext]_allVars => ReadingOK'
  BY ReadingStep
<1> QED BY <1>1, <1>2, <1>3, PTL DEF ReadersSpec

\* However the writers change the graph between its queries, an expansion is
\* related to its term, within the total, empty only when the files are, and, when
\* the files answer it, as new as the last refresh reported before it began - in
\* yaml mode as old as the pipeline's first.
THEOREM ReadsAreSound == ReadersSpec => []ReadsSound
<1>1. LoadersOK /\ ReadingOK /\ VersionTypes => ReadersTypeOK
  BY DEF LoadersOK, ReadingOK, ReadingTypes, VersionTypes, ReadersTypeOK
<1>2. ASSUME ReadingOK
      PROVE  ReadIsRelated /\ ReadWithinLimits /\ FallbackHelps
  <2>1. ASSUME NEW r \in Readers, rpc[r] = "done"
        PROVE  /\ names[r] \ ({term[r]} \cup FileExpand[term[r]]) \subseteq Relatives(term[r])
               /\ term[r] \in names[r] /\ Cardinality(names[r]) <= Config.total
               /\ mode = "hybrid" /\ names[r] = {term[r]} => FileExpand[term[r]] = {term[r]}
    <3>1. PICK t \in Terms : t = term[r] /\ TermOK(r, t)
      BY <1>2, <2>1 DEF ReadingOK, ReaderOK
    <3> QED BY <2>1, <3>1 DEF TermOK
  <2> QED BY <2>1 DEF ReadIsRelated, ReadWithinLimits, FallbackHelps
<1>3. LoadersOK /\ ReadingOK /\ VersionTypes /\ ReadIsFresh => ReadsSound
  BY <1>1, <1>2 DEF ReadsSound
<1> QED BY <1>3, LoadersAlways, ReadingAlways, VersionsAlways, PTL

-----------------------------------------------------------------------------
(* Canonical names                                                           *)

\* No request has come further than its first step.
Early == \A t \in Tasks : at[t] <= 1

\* Until then the graph holds nothing but what the migration takes from the
\* files: skills with the flag of their entry, and the synonyms of the entries.
OnlyFiles ==
  /\ \A n \in Stored : n \in Files
  /\ \A n \in Stored : n \in SkillNodes => (concept[n].canonical <=> n[1] \in Canonicals)
  /\ \A e \in edges : e[1] = "SAME_AS" => e \in SynonymEdges

Unwritten ==
  /\ \A t \in Tasks : pc[t] = "idle" => at[t] = 0
  /\ Early => OnlyFiles

\* A category has no node of type skill.
LEMMA SkillsApart ==
  /\ \A n \in CategoryNodes : n[2] # "skill"
  /\ \A n \in SkillNodes : n[2] = "skill" /\ n[1] \in Skills /\ n = <<n[1], "skill">>
BY DEF CategoryNodes, SkillNodes

\* A request that writes has come further, and one does not come back.
LEMMA EarlyStep ==
  ASSUME Inv, Unwritten, ConceptAssumption, [Next]_vars
  PROVE  /\ \A t \in Tasks : pc'[t] = "idle" => at'[t] = 0
         /\ Early' => Early
         /\ Early' => UNCHANGED graph \/ Migrate
<1>0. /\ pc \in [Tasks -> Begun \cup {"idle", "error"}] /\ at \in [Tasks -> 0 .. 3]
      /\ \A t \in Tasks : pc[t] # "idle" => Fits(pc[t], at[t], proposal[t])
  BY DEF Inv, Placed
<1>1. CASE UNCHANGED <<pc, at>>
  <2>1. CASE UNCHANGED vars
    BY <1>1, <2>1 DEF Unwritten, Early, vars, graph
  <2>2. CASE Migrate
    BY <1>1, <2>2 DEF Unwritten, Early
  <2>3. CASE \E t \in Tasks : Begin(t) \/ Apply(t) \/ Stop(t)
    <3>1. PICK t \in Tasks : Begin(t) \/ Apply(t) \/ Stop(t)
      BY <2>3
    <3>2. pc'[t] # pc[t] \/ at'[t] # at[t]
      BY <1>0, <3>1 DEF Begin, Apply, Stop, Check, CreateConcept, Relate, NextStep, Goto, StepLabel
    <3> QED BY <1>1, <3>2
  <2> QED BY <2>1, <2>2, <2>3 DEF Next
<1>2. ASSUME NEW t \in Tasks, NEW l, NEW i \in 0 .. 4, l # "idle",
             pc' = [pc EXCEPT ![t] = l], at' = [at EXCEPT ![t] = i], at[t] <= i
      PROVE  /\ \A s \in Tasks : pc'[s] = "idle" => at'[s] = 0
             /\ Early' => Early /\ i <= 1
  <2>1. /\ pc'[t] = l /\ at'[t] = i
        /\ \A s \in Tasks : s # t => pc'[s] = pc[s] /\ at'[s] = at[s]
    BY <1>0, <1>2
  <2>2. \A s \in Tasks : pc'[s] = "idle" => at'[s] = 0
    BY <1>2, <2>1 DEF Unwritten
  <2>3. ASSUME Early', NEW s \in Tasks
        PROVE  at[s] <= 1 /\ i <= 1
    <3>1. at'[s] <= 1 /\ at'[t] <= 1
      BY <2>3 DEF Early
    <3>2. at[t] \in Int /\ i \in Int
      BY <1>0
    <3> QED BY <1>2, <2>1, <3>1, <3>2
  <2>4. Early' => Early /\ i <= 1
    BY <1>2, <2>3 DEF Early
  <2> QED BY <2>2, <2>4
<1>3. ASSUME NEW t \in Tasks, Begin(t)
      PROVE  /\ \A s \in Tasks : pc'[s] = "idle" => at'[s] = 0
             /\ Early' => Early /\ UNCHANGED graph
  <2>1. PICK l : l # "idle" /\ pc' = [pc EXCEPT ![t] = l] /\ at' = [at EXCEPT ![t] = 1]
    BY <1>3 DEF Begin, Goto, StepLabel
  <2>2. at[t] <= 1 /\ UNCHANGED graph
    BY <1>3 DEF Begin, Unwritten
  <2>3. PICK i \in 0 .. 4 : i = 1
    OBVIOUS
  <2>4. at[t] <= i /\ at' = [at EXCEPT ![t] = i]
    BY <2>1, <2>2, <2>3
  <2> QED BY <1>2, <2>1, <2>2, <2>4
<1>4. ASSUME NEW t \in Tasks, Apply(t) \/ Stop(t)
      PROVE  /\ \A s \in Tasks : pc'[s] = "idle" => at'[s] = 0
             /\ Early' => Early /\ UNCHANGED graph
  <2>1. pc[t] \in Busy /\ Fits(pc[t], at[t], proposal[t]) /\ at[t] \in 1 .. 3
    BY <1>0, <1>4 DEF Apply, Stop, Check, CreateConcept, Relate, Busy, Fits, Begun
  <2>2. PICK l : l # "idle" /\ pc' = [pc EXCEPT ![t] = l]
    BY <1>4 DEF Apply, Stop, Check, CreateConcept, Relate, NextStep, Goto, StepLabel
  <2>3. CASE UNCHANGED at /\ UNCHANGED graph
    <3>1. at' = [at EXCEPT ![t] = at[t]]
      BY <1>0, <2>3
    <3>2. PICK i \in 0 .. 4 : i = at[t]
      BY <2>1
    <3>3. at[t] <= i /\ at' = [at EXCEPT ![t] = i]
      BY <2>1, <3>1, <3>2
    <3> QED BY <1>2, <2>2, <2>3, <3>3
  <2>4. CASE at' = [at EXCEPT ![t] = at[t] + 1]
    <3>1. at[t] + 1 \in 0 .. 4 /\ at[t] <= at[t] + 1 /\ ~(at[t] + 1 <= 1)
      BY <2>1
    <3>2. PICK i : i = at[t] + 1
      OBVIOUS
    <3> QED BY <1>2, <2>2, <2>4, <3>1, <3>2
  <2>5. CASE Relate(t)
    <3>1. at[t] = Len(Plan(proposal[t])) + 1
      BY <2>1, <2>5 DEF Relate, Fits
    <3>2. Len(Plan(proposal[t])) \in 1 .. 2
      <4>1. proposal[t] \in Proposals /\ ~Incomplete(proposal[t])
        BY <2>1 DEF Fits, Begun
      <4> QED BY <4>1, PlanShape
    <3>3. UNCHANGED at
      BY <2>5 DEF Relate
    <3>4. ~(at[t] <= 1) /\ at' = [at EXCEPT ![t] = at[t]] /\ at[t] \in 0 .. 4 /\ at[t] <= at[t]
      BY <1>0, <2>1, <3>1, <3>2, <3>3
    <3>5. PICK i : i = at[t]
      OBVIOUS
    <3> QED BY <1>2, <2>2, <3>4, <3>5
  <2> QED BY <1>4, <2>3, <2>4, <2>5 DEF Apply, Stop, Check, CreateConcept, NextStep, graph
<1>5. Migrate \/ UNCHANGED vars => UNCHANGED <<pc, at>>
  BY DEF Migrate, StartMigration, MigrateSkills, MigrateSynonyms,
         MigrateCategories, MigrateHierarchy, FailMigration, vars, writers
<1> QED BY <1>1, <1>3, <1>4, <1>5 DEF Next

\* What each statement of the migration takes from the files.
LEMMA MigrationTakes ==
  ASSUME GraphOK, OnlyFiles, UNCHANGED graph \/ Migrate
  PROVE  OnlyFiles'
<1>1. CASE UNCHANGED graph
  BY <1>1 DEF graph, OnlyFiles, Stored
<1>2. ASSUME NEW new \in {SkillNodes, CategoryNodes}, NEW canonical,
             concept' = Merged(new, canonical), UNCHANGED edges,
             new = SkillNodes => canonical = Canonicals
      PROVE  OnlyFiles'
  <2>1. \A n \in Node : concept'[n] = IF n \in new \ Stored
                  THEN [canonical |-> n[1] \in canonical, source |-> "yaml"] ELSE concept[n]
    BY <1>2 DEF Merged
  <2>2. \A n \in Stored' : n \in Node /\ ((n \in Stored /\ concept'[n] = concept[n]) \/ n \in new \ Stored)
    BY <2>1 DEF Stored
  <2>3. \A n \in Stored' : n \in Files
    BY <1>2, <2>2 DEF OnlyFiles, Files
  <2>4. ASSUME NEW n \in Stored', n \in SkillNodes
        PROVE  concept'[n].canonical <=> n[1] \in Canonicals
    <3>1. CASE n \in Stored
      BY <2>1, <2>2, <2>4, <3>1 DEF OnlyFiles
    <3>2. CASE n \in new \ Stored
      <4>1. new = SkillNodes
        BY <1>2, <2>4, <3>2, SkillsApart
      <4>2. concept'[n] = [canonical |-> n[1] \in Canonicals, source |-> "yaml"]
        BY <1>2, <2>1, <2>2, <3>2, <4>1
      <4>3. PICK b : b = (n[1] \in Canonicals)
        OBVIOUS
      <4>4. concept'[n].canonical = b
        BY <4>2, <4>3
      <4>5. concept'[n].canonical <=> b
        BY <4>4, Zenon
      <4>6. b <=> n[1] \in Canonicals
        BY <4>3, Zenon
      <4> QED BY <4>5, <4>6, Zenon
    <3> QED BY <2>2, <3>1, <3>2
  <2>5. \A e \in edges' : e[1] = "SAME_AS" => e \in SynonymEdges
    BY <1>2 DEF OnlyFiles
  <2> QED BY <2>3, <2>4, <2>5 DEF OnlyFiles, Files, SkillNodes, CategoryNodes, SynonymEdges, Canonicals
<1>3. CASE MigrateSkills
  BY <1>2, <1>3 DEF MigrateSkills
<1>4. CASE MigrateCategories
  <2>1. SkillNodes # CategoryNodes \/ CategoryNodes = {}
    BY SkillsApart
  <2>2. CASE CategoryNodes = {}
    <3>1. UNCHANGED concept
      BY <1>4, <2>2 DEF MigrateCategories, Merged, GraphOK
    <3> QED BY <1>1, <1>4, <3>1 DEF MigrateCategories, graph
  <2> QED BY <1>2, <1>4, <2>1, <2>2 DEF MigrateCategories
<1>5. CASE MigrateSynonyms
  BY <1>5 DEF MigrateSynonyms, OnlyFiles, Stored
<1>6. CASE MigrateHierarchy
  <2>1. UNCHANGED concept /\ \A e \in edges' : e[1] = "SAME_AS" => e \in edges
    BY <1>6 DEF MigrateHierarchy
  <2> QED BY <2>1 DEF OnlyFiles, Stored
<1>7. CASE StartMigration \/ FailMigration
  BY <1>1, <1>7 DEF StartMigration, FailMigration
<1> QED BY <1>1, <1>3, <1>4, <1>5, <1>6, <1>7 DEF Migrate

LEMMA UnwrittenAlways == Spec => []Unwritten
<1>1. Init => Unwritten
  BY DEF Init, Unwritten, OnlyFiles, Stored
<1>2. ASSUME Inv, Unwritten, [Next]_vars
      PROVE  Unwritten'
  <2>1. (\A t \in Tasks : pc'[t] = "idle" => at'[t] = 0) /\ (Early' => OnlyFiles')
    BY <1>2, EarlyStep, MigrationTakes, ConceptAssumption DEF Inv, Unwritten
  <2> QED BY <2>1 DEF Unwritten
<1> QED BY <1>1, <1>2, InvAlways, PTL DEF Spec

\* The files give a clear name that an entry has that entry's canonical name.
LEMMA FilesSay ==
  ASSUME NEW t \in Clear, NEW i \in Entries(t)
  PROVE  /\ i \in DOMAIN Groups /\ Entries(t) = {i}
         /\ Groups[i].canonical \in Canonicals
         /\ FileCanonical[t] = Groups[i].canonical
<1> DEFINE c == Groups[i].canonical
<1>1. /\ Entries(t) = {i} /\ Entries(c) = {i} /\ t \in Names
      /\ Knowing(t) # {} \/ t = c
  BY DEF Clear
<1>2. i \in DOMAIN Groups /\ DOMAIN Groups \subseteq Int
  <2>1. DOMAIN Groups = 1 .. Len(Groups)
    BY ReaderAssumption
  <2> QED BY <2>1 DEF Entries
<1>3. c \in Canonicals
  <2>1. c \in Mentioned(i) /\ c \in Skills
    BY <1>2 DEF Mentioned, Skills
  <2>2. ASSUME NEW j \in DOMAIN Groups, c \in Mentioned(j)
        PROVE  i <= j
    <3>1. j \in Entries(c)
      BY <2>2 DEF Entries
    <3> QED BY <1>1, <1>2, <3>1
  <2> QED BY <1>2, <2>1, <2>2 DEF Canonicals
<1>4. Knowing(t) \subseteq {i}
  BY <1>1 DEF Knowing, Entries
<1>5. YamlCanonical(t) = c
  <2>1. CASE Knowing(t) = {}
    BY <1>1, <2>1 DEF YamlCanonical
  <2>2. CASE Knowing(t) = {i}
    <3>1. Max({i}) = i
      BY <1>2 DEF Max
    <3> QED BY <2>2, <3>1 DEF YamlCanonical
  <2> QED BY <1>4, <2>1, <2>2
<1> QED BY <1>1, <1>2, <1>3, <1>5 DEF FileCanonical

\* A skill of a name in the graph, and what it is a synonym of, are of an entry
\* that has the name.
LEMMA SkillsOfEntries ==
  ASSUME GraphOK, OnlyFiles, NEW t, NEW n \in SkillsCalled(t)
  PROVE  /\ n \in SkillNodes /\ n = <<n[1], "skill">>
         /\ concept[n].canonical <=> n[1] \in Canonicals
         /\ \E i \in Entries(t) : n[1] \in Mentioned(i)
         /\ \A j \in DOMAIN Groups : n[1] \in Mentioned(j) => j \in Entries(t)
<1>1. n \in Stored /\ Fold[n[1]] = Fold[t] /\ n[2] = "skill"
  BY DEF SkillsCalled, Called
<1>2. n \in SkillNodes /\ n[1] \in Skills /\ n = <<n[1], "skill">>
  BY <1>1, SkillsApart DEF OnlyFiles, Files
<1>3. \A j \in DOMAIN Groups : n[1] \in Mentioned(j) => j \in Entries(t)
  BY <1>1 DEF Entries
<1>4. \E j \in DOMAIN Groups : n[1] \in Mentioned(j)
  BY <1>2 DEF Skills
<1> QED BY <1>1, <1>2, <1>3, <1>4 DEF OnlyFiles

\* The rows the graph has for a skill of a clear name
LEMMA RowsOfEntries ==
  ASSUME GraphOK, OnlyFiles, NEW t \in Clear, NEW n \in SkillsCalled(t)
  PROVE  /\ CanonicalRows(n) \subseteq {FileCanonical[t], None}
         /\ SynonymEdges \subseteq edges => CanonicalRows(n) = {FileCanonical[t]}
<1>1. PICK i \in Entries(t) : n[1] \in Mentioned(i)
  BY SkillsOfEntries
<1> DEFINE c == Groups[i].canonical
           targets == {e[3] : e \in {e \in edges : e[1] = "SAME_AS" /\ e[2] = n}}
           canonical == {m \in targets : concept[m].canonical}
<1>2. i \in DOMAIN Groups /\ Entries(t) = {i} /\ c \in Canonicals /\ FileCanonical[t] = c
  BY FilesSay
<1>3. /\ n = <<n[1], "skill">> /\ (concept[n].canonical <=> n[1] \in Canonicals)
      /\ \A j \in DOMAIN Groups : n[1] \in Mentioned(j) => j = i
  BY <1>2, SkillsOfEntries
<1>4. \A m \in targets : m = <<c, "skill">> /\ n[1] \in Range(Groups[i].aliases)
  <2>1. SUFFICES ASSUME NEW e \in edges, e[1] = "SAME_AS", e[2] = n
                 PROVE  e[3] = <<c, "skill">> /\ n[1] \in Range(Groups[i].aliases)
    OBVIOUS
  <2>2. e \in SynonymEdges
    BY <2>1 DEF OnlyFiles
  <2>3. PICK j \in DOMAIN Groups : \E a \in Range(Groups[j].aliases) :
          e = <<"SAME_AS", <<a, "skill">>, <<Groups[j].canonical, "skill">>>>
    BY <2>2 DEF SynonymEdges, GroupSet, Range
  <2>4. n[1] \in Range(Groups[j].aliases) /\ e[3] = <<Groups[j].canonical, "skill">>
    BY <2>1, <2>3
  <2>5. j = i
    BY <1>3, <2>3, <2>4 DEF Mentioned
  <2> QED BY <2>3, <2>4, <2>5
<1>5. n[1] \in Canonicals => n[1] = c
  BY <1>3 DEF Canonicals, Mentioned
<1>6. CanonicalRows(n) = IF canonical # {} THEN {m[1] : m \in canonical}
                         ELSE IF concept[n].canonical THEN {n[1]} ELSE {None}
  BY DEF CanonicalRows
<1>7. canonical # {} => CanonicalRows(n) = {c}
  <2>1. \A m \in canonical : m[1] = c
    BY <1>4
  <2> HIDE DEF canonical
  <2> QED BY <1>6, <2>1
<1>8. canonical = {} => CanonicalRows(n) = IF concept[n].canonical THEN {n[1]} ELSE {None}
  BY <1>6
<1>9. ASSUME SynonymEdges \subseteq edges, canonical = {}
      PROVE  concept[n].canonical
  <2>1. n[1] \notin Range(Groups[i].aliases)
    <3>1. SUFFICES ASSUME n[1] \in Range(Groups[i].aliases)
                   PROVE  FALSE
      OBVIOUS
    <3> DEFINE m == <<c, "skill">>
               e == <<"SAME_AS", n, m>>
    <3>2. e \in SynonymEdges
      BY <1>2, <1>3, <3>1 DEF SynonymEdges, GroupSet, Range
    <3>3. e \in edges /\ e[1] = "SAME_AS" /\ e[2] = n /\ e[3] = m
      BY <1>9, <3>2
    <3>4. m \in targets
      BY <3>3
    <3>5. m \in Stored
      BY <3>3 DEF GraphOK, Stored
    <3>6. m \in SkillNodes
      BY <3>2, <3>3, SynonymEnds
    <3>7. concept[m].canonical <=> m[1] \in Canonicals
      BY <3>5, <3>6 DEF OnlyFiles
    <3>8. concept[m].canonical
      BY <1>2, <3>7
    <3> QED BY <1>9, <3>4, <3>8
  <2>2. n[1] = c
    BY <1>1, <2>1 DEF Mentioned
  <2> QED BY <1>2, <1>3, <2>2
<1> HIDE DEF canonical, c
<1>10. CanonicalRows(n) \subseteq {c, None}
  <2>1. CASE canonical = {} /\ concept[n].canonical
    BY <1>3, <1>5, <1>8, <2>1
  <2>2. CASE canonical = {} /\ ~concept[n].canonical
    BY <1>8, <2>2
  <2> QED BY <1>7, <2>1, <2>2
<1>11. ASSUME SynonymEdges \subseteq edges
       PROVE  CanonicalRows(n) = {c}
  <2>1. CASE canonical = {}
    <3>1. concept[n].canonical /\ n[1] = c
      BY <1>3, <1>5, <1>9, <1>11, <2>1
    <3> QED BY <1>8, <2>1, <3>1
  <2> QED BY <1>7, <2>1
<1> QED BY <1>2, <1>10, <1>11 DEF c

\* A clear name is answered with itself or with the file's canonical name, and
\* with that one once all synonyms of the files are in the graph.
LEMMA ClearAnswers ==
  ASSUME GraphOK, OnlyFiles, NEW t \in Clear
  PROVE  /\ CanonicalAnswers(t) # {}
         /\ \A c \in CanonicalAnswers(t) : c = t \/ c = FileCanonical[t]
         /\ SynonymEdges \subseteq edges /\ SkillsCalled(t) # {} =>
              CanonicalAnswers(t) = {FileCanonical[t]}
<1> DEFINE rows == UNION {CanonicalRows(n) : n \in SkillsCalled(t)}
<1>1. CanonicalAnswers(t) = IF rows = {} THEN {t} ELSE {IF r = None THEN t ELSE r : r \in rows}
  BY DEF CanonicalAnswers
<1>2. rows \subseteq {FileCanonical[t], None}
  BY RowsOfEntries
<1>3. ASSUME SynonymEdges \subseteq edges, SkillsCalled(t) # {}
      PROVE  CanonicalAnswers(t) = {FileCanonical[t]}
  <2>1. rows = {FileCanonical[t]}
    BY <1>3, RowsOfEntries
  <2>2. FileCanonical[t] # None
    <3>1. PICK n \in SkillsCalled(t) : TRUE
      BY <1>3
    <3>2. PICK i \in Entries(t) : n[1] \in Mentioned(i)
      BY SkillsOfEntries
    <3>3. FileCanonical[t] \in Canonicals
      BY <3>2, FilesSay
    <3>4. \A c \in Canonicals : c \in Names
      <4>1. \A c \in Canonicals : <<c, "skill">> \in Node
        BY FilesAssumption DEF Canonicals, SkillNodes
      <4> QED BY <4>1 DEF Node
    <3> QED BY <3>3, <3>4, ConceptAssumption
  <2> HIDE DEF rows
  <2> QED BY <1>1, <2>1, <2>2
<1> HIDE DEF rows
<1>4. CanonicalAnswers(t) # {}
  BY <1>1
<1>5. \A c \in CanonicalAnswers(t) : c = t \/ c = FileCanonical[t]
  BY <1>1, <1>2
<1> QED BY <1>3, <1>4, <1>5

\* Whatever is cut off, and whatever the files and the names are, the loaders
\* agree on the canonical name of a clear name.
THEOREM CanonicalNamesAgree == ReadersSpec => []CanonicalSteady
<1>1. ASSUME Inv, Unwritten, MigratedIsStored
      PROVE  CanonicalSteady
  <2>1. Untouched => OnlyFiles
    BY <1>1 DEF Untouched, Early, Unwritten
  <2>2. GraphOK
    BY <1>1 DEF Inv
  <2>3. CanonicalAgrees
    <3>1. mig = "done" => SynonymEdges \subseteq edges
      BY <1>1 DEF MigratedIsStored
    <3> QED BY <2>1, <2>2, <3>1, ClearAnswers DEF CanonicalAgrees
  <2>4. HybridCanonicalSteady
    <3>1. ASSUME Untouched, NEW t \in Clear
          PROVE  HybridCanonical(t) = {FileCanonical[t]}
      <4>1. /\ CanonicalAnswers(t) # {}
            /\ \A c \in CanonicalAnswers(t) : c = t \/ c = FileCanonical[t]
        BY <2>1, <2>2, <3>1, ClearAnswers
      <4> QED BY <4>1 DEF HybridCanonical
    <3> QED BY <3>1 DEF HybridCanonicalSteady
  <2> QED BY <2>3, <2>4 DEF CanonicalSteady
<1> QED BY <1>1, ReadersOnlyRead, InvAlways, UnwrittenAlways, MigrationStores, PTL

=============================================================================
