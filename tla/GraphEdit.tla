------------------------------ MODULE GraphEdit ------------------------------
(***************************************************************************)
(* Administrators edit the graph: nodes are created, renamed and deleted,   *)
(* edges are drawn and deleted (services/graph_edit_service.py and          *)
(* repositories/neo4j_graph_crud_repository.py).  A request makes one       *)
(* database call after the other and works on copies between them; each     *)
(* call is one Cypher statement and one step here.                          *)
(*                                                                         *)
(* Properties other than the name are left out: no check depends on them.   *)
(***************************************************************************)
EXTENDS Integers, FiniteSets

CONSTANTS
  Ids,          \* element ids; Neo4j gives the id of a deleted node out again
  Labels,       \* ALLOWED_LABELS
  Names,        \* stripped names
  LowerCase,    \* toLower on names
  Combinations, \* VALID_RELATIONSHIP_COMBINATIONS
  Graph,        \* the nodes and the edges there are at the start
  Tasks,        \* requests, each used once
  None          \* no node, no name

ASSUME ConstantsAssumption ==
  /\ LowerCase \in [Names -> Names]
  /\ \A r \in DOMAIN Combinations : Combinations[r] \subseteq Labels \X Labels
  /\ None \notin Names /\ None \notin Labels /\ None \notin Ids

Nodes == [label : Labels, name : Names]
Edges == Ids \X (DOMAIN Combinations) \X Ids

\* The graph at the start keeps to the schema and has no name twice.
ASSUME GraphAssumption ==
  LET n == Graph.nodes IN
  /\ None \notin Nodes /\ None \notin Edges
  /\ n \in [Ids -> Nodes \cup {None}]
  /\ Graph.edges \subseteq Edges
  /\ \A e \in Graph.edges :
       /\ n[e[1]] # None /\ n[e[3]] # None
       /\ <<n[e[1]].label, n[e[3]].label>> \in Combinations[e[2]]
  /\ \A i, j \in Ids :
       i # j /\ n[i] # None /\ n[j] # None /\ n[i].label = n[j].label
         => LowerCase[n[i].name] # LowerCase[n[j].name]

VARIABLES
  node,        \* the nodes, None for a free id
  edges,       \* the edges <<source, type, target>>
  pc,          \* where each request is
  ask,         \* what it asks for
  found,       \* its copies of the nodes it has read
  renamed,     \* observed: nodes that got their name by a rename
  freed,       \* observed: ids whose node was deleted
  overlapped,  \* observed: two requests have been open at the same time
  met          \* observed: see Meet

vars == <<node, edges, pc, ask, found, renamed, freed, overlapped, met>>
observed == <<renamed, freed>>

-----------------------------------------------------------------------------

Present == {i \in Ids : node[i] # None}

SameName(m, n) == LowerCase[m] = LowerCase[n]

\* The nodes of a label that have a name, whatever its case.
Named(label, name) ==
  {i \in Present : node[i].label = label /\ SameName(node[i].name, name)}

Touching(i) == {e \in edges : i \in {e[1], e[3]}}

Open == {"check", "create", "find", "unique", "rename", "source", "target",
         "merge"}

Goto(t, l) == pc' = [pc EXCEPT ![t] = l]

\* Both ends are kept in the place of the source.
KeepMutant(t, k, r) == found' = [found EXCEPT ![t].source = r]

Keep(t, k, r) == found' = [found EXCEPT ![t][k] = r]

Asks == [label : Labels \cup {None}, name : Names \cup {None},
         id : Ids \cup {None}, force : BOOLEAN, edge : Edges \cup {None}]

Copies == [source : Nodes \cup {None}, target : Nodes \cup {None}]

NoRequest ==
  [label |-> None, name |-> None, id |-> None, force |-> FALSE, edge |-> None]

\* A request arrives.
Arrive(t, l, request) ==
  /\ pc[t] = "idle"
  /\ Goto(t, l)
  /\ ask' = [ask EXCEPT ![t] = request]
  /\ overlapped' = (overlapped \/ \E u \in Tasks : pc[u] \in Open)

\* The label in which a request wants its name: a create's own, a rename's the
\* label of the copy.
Wanted(a, f) == {l \in Labels : /\ a.name # None
                                /\ l = a.label \/ (f # None /\ l = f.label)}

\* Observed: the requests during which the name they want has been taken.
Meet ==
  met' = met \cup
    {t \in Tasks : \E i \in Ids, l \in Wanted(ask'[t], found'[t].source) :
       /\ pc'[t] \in Open
       /\ node'[i] # None
       /\ node'[i].label = l
       /\ SameName(node'[i].name, ask'[t].name)}

-----------------------------------------------------------------------------
(* create_node                                                              *)

AskCreate(t, label, name) ==
  /\ Arrive(t, "check", [NoRequest EXCEPT !.label = label, !.name = name])
  /\ UNCHANGED <<node, edges, found, observed>>

\* Names of other labels count too.
TakenMutant(label, name) ==
  \E l \in Labels : Named(l, name) # {}

\* check_duplicate_node
Taken(label, name) == Named(label, name) # {}

CheckDuplicate(t) ==
  /\ pc[t] = "check"
  /\ Goto(t, IF Taken(ask[t].label, ask[t].name) THEN "conflict"
                                                 ELSE "create")
  /\ UNCHANGED <<node, edges, ask, found, observed, overlapped>>

\* The early check is relied on.
StillFreeMutant(label, name) == TRUE

StillFree(label, name) == Named(label, name) = {}

\* create_node_generic: the name is looked for again in the same statement.
Create(t, i) ==
  LET a == ask[t] IN
  /\ pc[t] = "create"
  /\ StillFree(a.label, a.name)
  /\ i \notin Present
  /\ node' = [node EXCEPT ![i] = [label |-> a.label, name |-> a.name]]
  /\ renamed' = renamed \ {i}
  /\ Goto(t, "created")
  /\ UNCHANGED <<edges, ask, found, freed, overlapped>>

CreateNothing(t) ==
  /\ pc[t] = "create"
  /\ ~StillFree(ask[t].label, ask[t].name)
  /\ Goto(t, "conflict")
  /\ UNCHANGED <<node, edges, ask, found, observed, overlapped>>

-----------------------------------------------------------------------------
(* update_node with a name                                                  *)

AskRename(t, i, name) ==
  /\ Arrive(t, "find", [NoRequest EXCEPT !.id = i, !.name = name])
  /\ UNCHANGED <<node, edges, found, observed>>

\* The new name is not looked for.
NeedsCheckMutant(n, name) == FALSE

\* A rename that only changes the case of a name is not checked.
NeedsCheck(n, name) == ~SameName(n.name, name)

FindRenamed(t) ==
  LET n == node[ask[t].id] IN
  /\ pc[t] = "find"
  /\ IF n = None THEN Goto(t, "not_found") /\ UNCHANGED found
     ELSE /\ Keep(t, "source", n)
          /\ Goto(t, IF NeedsCheck(n, ask[t].name) THEN "unique" ELSE "rename")
  /\ UNCHANGED <<node, edges, ask, observed, overlapped>>

\* _validate_name_update, with the label of the copy
CheckRename(t) ==
  /\ pc[t] = "unique"
  /\ Goto(t, IF Taken(found[t].source.label, ask[t].name) THEN "conflict"
                                                          ELSE "rename")
  /\ UNCHANGED <<node, edges, ask, found, observed, overlapped>>

\* update_node_properties: the name is written without another look.
Rename(t) ==
  LET i == ask[t].id IN
  /\ pc[t] = "rename"
  /\ IF i \in Present
     THEN /\ node' = [node EXCEPT ![i].name = ask[t].name]
          /\ renamed' = renamed \cup {i}
          /\ Goto(t, "updated")
     ELSE /\ Goto(t, "not_found")
          /\ UNCHANGED <<node, renamed>>
  /\ UNCHANGED <<edges, ask, found, freed, overlapped>>

-----------------------------------------------------------------------------
(* delete_node                                                              *)

\* Edges are not counted.
UnconnectedMutant(i) == TRUE

Unconnected(i) == Touching(i) = {}

\* delete_node_atomic.  Without force the subquery of a connected node returns
\* no row, the statement none either, and the answer is that there is no such
\* node.
Delete(t, i, force) ==
  LET gone == i \in Present /\ (force \/ Unconnected(i)) IN
  /\ Arrive(t, IF gone THEN "deleted" ELSE "not_found",
            [NoRequest EXCEPT !.id = i, !.force = force])
  /\ node' = IF gone THEN [node EXCEPT ![i] = None] ELSE node
  /\ edges' = IF gone THEN edges \ Touching(i) ELSE edges
  /\ freed' = IF gone THEN freed \cup {i} ELSE freed
  /\ UNCHANGED <<found, renamed>>

-----------------------------------------------------------------------------
(* create_edge, delete_edge                                                 *)

AskEdge(t, s, type, d) ==
  /\ Arrive(t, "source", [NoRequest EXCEPT !.edge = <<s, type, d>>])
  /\ UNCHANGED <<node, edges, found, observed>>

\* The two find_entity_by_id: step l reads the node at one end of the edge.
FindEnd(t, l, k, next) ==
  LET n == node[ask[t].edge[k]] IN
  /\ pc[t] = l
  /\ IF n = None THEN Goto(t, "not_found") /\ UNCHANGED found
                 ELSE Goto(t, next) /\ Keep(t, l, n)
  /\ UNCHANGED <<node, edges, ask, observed, overlapped>>

\* The direction is ignored.
ValidMutant(source, type, target) ==
  Combinations[type] \cap {<<source.label, target.label>>,
                           <<target.label, source.label>>} # {}

Valid(source, type, target) ==
  <<source.label, target.label>> \in Combinations[type]

\* The labels of the copies are checked, then create_relationship_generic
\* matches both ends by their ids and merges the edge.
MergeEdge(t) ==
  LET e == ask[t].edge IN
  /\ pc[t] = "merge"
  /\ Valid(found[t].source, e[2], found[t].target)
  /\ IF {e[1], e[3]} \subseteq Present
     THEN Goto(t, "created") /\ edges' = edges \cup {e}
     ELSE Goto(t, "not_found") /\ UNCHANGED edges
  /\ UNCHANGED <<node, ask, found, observed, overlapped>>

RefuseEdge(t) ==
  /\ pc[t] = "merge"
  /\ ~Valid(found[t].source, ask[t].edge[2], found[t].target)
  /\ Goto(t, "invalid")
  /\ UNCHANGED <<node, edges, ask, found, observed, overlapped>>

DeleteEdge(t, e) ==
  /\ Arrive(t, "deleted", [NoRequest EXCEPT !.edge = e])
  /\ edges' = edges \ {e}
  /\ UNCHANGED <<node, found, observed>>

\* A database call fails.
Fail(t) ==
  /\ pc[t] \in Open
  /\ Goto(t, "error")
  /\ UNCHANGED <<node, edges, ask, found, observed, overlapped>>

-----------------------------------------------------------------------------

Init ==
  /\ node = Graph.nodes
  /\ edges = Graph.edges
  /\ pc = [t \in Tasks |-> "idle"]
  /\ ask = [t \in Tasks |-> NoRequest]
  /\ found = [t \in Tasks |-> [source |-> None, target |-> None]]
  /\ renamed = {}
  /\ freed = {}
  /\ overlapped = FALSE
  /\ met = {}

Request(t) ==
  \/ \E l \in Labels, n \in Names : AskCreate(t, l, n)
  \/ \E i \in Ids, n \in Names : AskRename(t, i, n)
  \/ \E i \in Ids, force \in BOOLEAN : Delete(t, i, force)
  \/ \E i, j \in Ids, type \in DOMAIN Combinations : AskEdge(t, i, type, j)
  \/ \E e \in edges : DeleteEdge(t, e)

Step(t) ==
  \/ CheckDuplicate(t)
  \/ \E i \in Ids : Create(t, i)
  \/ CreateNothing(t)
  \/ FindRenamed(t) \/ CheckRename(t) \/ Rename(t)
  \/ FindEnd(t, "source", 1, "target") \/ FindEnd(t, "target", 3, "merge")
  \/ MergeEdge(t) \/ RefuseEdge(t)
  \/ Fail(t)

Next == (\E t \in Tasks : Request(t) \/ Step(t)) /\ Meet

Spec == Init /\ [][Next]_vars

-----------------------------------------------------------------------------
(* Properties                                                               *)

\* Nodes, edges, requests and copies have their types: an edge joins two ids, a
\* request past its reads has its copies.
TypeOK ==
  /\ node \in [Ids -> Nodes \cup {None}]
  /\ edges \subseteq Edges
  /\ pc \in [Tasks -> Open \cup {"idle", "created", "updated", "deleted",
                                 "conflict", "not_found", "invalid", "error"}]
  /\ ask \in [Tasks -> Asks]
  /\ found \in [Tasks -> Copies]
  /\ \A t \in Tasks :
       /\ pc[t] \in {"check", "create"} => ask[t].label # None
       /\ pc[t] \in {"find", "unique", "rename"} => ask[t].id # None
       /\ pc[t] \in {"check", "create", "find", "unique", "rename"} =>
            ask[t].name # None
       /\ pc[t] \in {"source", "target", "merge"} => ask[t].edge # None
       /\ pc[t] \in {"unique", "rename", "target"} => found[t].source # None
       /\ pc[t] = "merge" => found[t].source # None /\ found[t].target # None
  /\ renamed \cup freed \subseteq Ids
  /\ overlapped \in BOOLEAN
  /\ met \subseteq Tasks

Twins(i, j) == /\ i # j
               /\ node[i].label = node[j].label
               /\ SameName(node[i].name, node[j].name)

\* Two creates that race never leave two nodes of a label with one name,
\* however the early checks interleave: of two such nodes one was renamed
\* (create_node_generic looks for the name in the statement that creates the
\* node; update_node_properties does not).
TwinsOnlyByRename ==
  \A i, j \in Present : Twins(i, j) => {i, j} \cap renamed # {}

\* As long as no two requests overlap, renames and creates keep the names of a
\* label different (check_duplicate_node before either).
NamesUniqueInTurn ==
  ~overlapped => \A i, j \in Present : ~Twins(i, j)

\* An edge always has both its nodes, and joins labels its type allows,
\* although create_edge checks copies read earlier: node labels never change.
\* The one exception is an id given to another node after the copy was read.
SchemaHolds ==
  \A e \in edges :
    /\ {e[1], e[3]} \subseteq Present
    /\ \/ <<node[e[1]].label, node[e[3]].label>> \in Combinations[e[2]]
       \/ {e[1], e[3]} \cap freed # {}

\* An edge disappears only when it is deleted itself or a node of it is deleted
\* with force: an edge drawn while a deletion is on its way keeps its node
\* (delete_node_atomic counts and deletes in one statement).
EdgesLostOnlyByForce ==
  [][\A e \in edges \ edges' :
       \E t \in Tasks :
         /\ pc[t] = "idle" /\ pc'[t] = "deleted"
         /\ \/ ask'[t].edge = e
            \/ ask'[t].force /\ ask'[t].id \in {e[1], e[3]}]_vars

\* A request is refused for its name only if a node of the label had that name
\* at some moment while the request was open (GraphEditConflictError).
ConflictJustified == \A t \in Tasks : pc[t] = "conflict" => t \in met

-----------------------------------------------------------------------------
(* The invariant that makes the properties inductive                        *)

\* The copy of an end of an edge has the label the node has, as long as the id
\* was not freed.
Sound(i, n) ==
  i \in freed \/ (i \in Present /\ n # None /\ node[i].label = n.label)

\* Both copies of a create_edge request that is about to write are sound: it is
\* enough to check them, however much later (labels never change).
CopiesSound ==
  \A t \in Tasks :
    /\ pc[t] \in {"target", "merge"} =>
         Sound(ask[t].edge[1], found[t].source)
    /\ pc[t] = "merge" => Sound(ask[t].edge[3], found[t].target)

\* An open request whose name is taken has met its name.
Met ==
  \A t \in Tasks, i \in Present :
    \A l \in Wanted(ask[t], found[t].source) :
      /\ pc[t] \in Open
      /\ node[i].label = l
      /\ SameName(node[i].name, ask[t].name)
      => t \in met

\* A rename that has passed its check: the name it writes is on no other node.
Cleared(t) ==
  \A i \in Present : /\ node[i].label = found[t].source.label
                     /\ SameName(node[i].name, ask[t].name)
                     => i = ask[t].id

\* While no two requests have overlapped one at most is open, and the copy on
\* which it bases a rename is the node as it is.
InTurn ==
  ~overlapped =>
    /\ \A i, j \in Present : ~Twins(i, j)
    /\ \A t, u \in Tasks : {pc[t], pc[u]} \subseteq Open => t = u
    /\ \A t \in Tasks :
         /\ pc[t] \in {"unique", "rename"} => found[t].source = node[ask[t].id]
         /\ pc[t] = "rename" => Cleared(t)

\* Together these are inductive: a create needs no lock on the ends of its edge
\* because labels never change, and refuses only names it has met.
Inv == /\ TypeOK
       /\ TwinsOnlyByRename
       /\ SchemaHolds
       /\ CopiesSound
       /\ Met
       /\ ConflictJustified
       /\ InTurn
=============================================================================
