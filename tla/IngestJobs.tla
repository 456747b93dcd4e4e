----------------------------- MODULE IngestJobs -----------------------------
(***************************************************************************)
(* Ingestion: an uploaded file is read in batches of documents, an LLM      *)
(* extracts a graph from each document, and the graph of a batch is merged  *)
(* into Neo4j, one write transaction for each label and then one for each   *)
(* relation type (api/routes/ingest.py, api/job_store.py, ingestion/).      *)
(*                                                                         *)
(* A job is a background task of the server's event loop; jobs and an       *)
(* administrator's deletions interleave at every await.  The documents of a *)
(* batch are extracted concurrently, but nothing leaves the job before all  *)
(* of them are done, so reading and extracting a batch is one step.         *)
(***************************************************************************)
EXTENDS Integers, Sequences, FiniteSets

CONSTANTS
  Uploads,         \* the paths upload_file gives out, each used once
  Jobs,            \* the job_ids, each used once
  Documents,       \* rows of the files, up to renaming
  Rows,            \* the documents of each upload, in order
  Replies,         \* the graphs the LLM may extract from each document
  ValidRelations,  \* VALID_RELATIONS: the labels each relation type connects
  Deletable,       \* bound: the nodes an administrator may delete
  None,            \* a property the LLM did not extract
  BatchSize        \* batch_size of the requests

\* A reply lists its nodes; there are finitely many edges in it.
ASSUME ConstantsAssumption ==
  /\ Uploads # {}
  /\ Rows \in [Uploads -> Seq(Documents)]
  /\ BatchSize \in Nat \ {0}
  /\ \A d \in Documents : \A raw \in Replies[d] :
       /\ raw.nodes \in Seq({raw.nodes[i] : i \in DOMAIN raw.nodes})
       /\ IsFiniteSet(raw.edges)

VARIABLES
  file,     \* the uploaded files on disk
  job,      \* JobStore, what GET /ingest/{job_id} shows
  pc,       \* where each job's background task is
  work,     \* the task's own state
  graph,    \* the nodes and edges in Neo4j
  deleted   \* observed: the nodes an administrator has deleted

vars == <<file, job, pc, work, graph, deleted>>

-----------------------------------------------------------------------------
(* Extraction                                                               *)

\* generate_entity_id: a strong identifier alone, whichever field it comes
\* from, else every property together.
EntityId(n) == IF n.strong # None THEN <<n.label, n.strong>>
                                  ELSE <<n.label, n.name, n.rest>>

Label(id) == id[1]
Type(edge) == edge[2]
Ends(edge) == {edge[1], edge[3]}

\* id_mapping: the LLM refers to nodes by names of its own; of several nodes
\* with one name the last one counts.
Referred(raw, ref) ==
  LET named == {i \in DOMAIN raw.nodes : raw.nodes[i].ref = ref}
  IN IF named = {} THEN None
     ELSE EntityId(raw.nodes[CHOOSE i \in named : \A k \in named : k <= i])

\* Labels are not compared.
IsValidRelationMutant(src, type, tgt) == TRUE

IsValidRelation(src, type, tgt) ==
  /\ type \in DOMAIN ValidRelations
  /\ ValidRelations[type] = <<Label(src), Label(tgt)>>

\* An end that no node has is not noticed.
KeptEdgesMutant(raw) ==
  {e \in raw.edges :
     /\ e.sure
     /\ None \notin {Referred(raw, e.from), Referred(raw, e.to)} =>
          IsValidRelation(Referred(raw, e.from), e.type, Referred(raw, e.to))}

\* Edges that are unsure, lead nowhere or connect the wrong labels are dropped.
KeptEdges(raw) ==
  {e \in raw.edges : /\ e.sure
                     /\ Referred(raw, e.from) # None
                     /\ Referred(raw, e.to) # None
                     /\ IsValidRelation(Referred(raw, e.from), e.type,
                                        Referred(raw, e.to))}

\* extract: an LLM call that fails counts as a document without a graph.
NoReply == [nodes |-> <<>>, edges |-> {}]
Answers(d) == Replies[d] \cup {NoReply}

NodesOf(raw) == {EntityId(raw.nodes[i]) : i \in DOMAIN raw.nodes}

EdgesOf(raw) ==
  {<<Referred(raw, e.from), e.type, Referred(raw, e.to)>> : e \in KeptEdges(raw)}

\* merged_graph: what was extracted from all documents of a batch, counted as
\* often as it occurs.
BatchGraph(raws) ==
  [nodes |-> UNION {NodesOf(raws[i]) : i \in DOMAIN raws},
   edges |-> UNION {EdgesOf(raws[i]) : i \in DOMAIN raws},
   node_count |-> Cardinality(UNION {{i} \X DOMAIN raws[i].nodes : i \in DOMAIN raws}),
   edge_count |-> Cardinality(UNION {{i} \X KeptEdges(raws[i]) : i \in DOMAIN raws})]

BatchGraphs(docs) ==
  {BatchGraph(raws) :
     raws \in {r \in [DOMAIN docs -> UNION {Answers(d) : d \in Documents}] :
                 \A i \in DOMAIN docs : r[i] \in Answers(docs[i])}}

NoGraph == [nodes |-> {}, edges |-> {}, node_count |-> 0, edge_count |-> 0]

\* _merge_stats
Joined(g, h) ==
  [nodes |-> g.nodes \cup h.nodes,
   edges |-> g.edges \cup h.edges,
   node_count |-> g.node_count + h.node_count,
   edge_count |-> g.edge_count + h.edge_count]

\* The nodes that may be extracted, and their labels.
Node == UNION {NodesOf(raw) : raw \in UNION {Replies[d] : d \in Documents}}
Labels == {Label(n) : n \in Node}

-----------------------------------------------------------------------------
(* Requests                                                                 *)

Goto(j, l) == pc' = [pc EXCEPT ![j] = l]
Work(j, w) == work' = [work EXCEPT ![j] = w]

NoJob == [status |-> "unknown", total_nodes |-> 0, total_edges |-> 0,
          error |-> "none"]

\* The file of the task, how many documents it has read, the labels and types
\* of the batch that are still to be saved, the batch's graph, and the graphs
\* of all batches together, of which the code keeps the counts (stats).
NewWork(u) == [upload |-> u, read |-> 0, labels |-> {}, types |-> {},
               batch |-> NoGraph, found |-> NoGraph]

\* upload_file
Upload(u) ==
  /\ file[u] = "free"
  /\ file' = [file EXCEPT ![u] = "present"]
  /\ UNCHANGED <<job, pc, work, graph, deleted>>

\* A file that could not be deleted is still there.
OnDisk(u) == file[u] \in {"present", "stuck"}

\* The file is not looked for.
ExistsMutant(u) == TRUE

Exists(u) == OnDisk(u)

\* ingest: a file may be ingested by several jobs.
Ingest(j, u) ==
  /\ pc[j] = "idle"
  /\ Exists(u)
  /\ job' = [job EXCEPT ![j].status = "pending"]
  /\ Work(j, NewWork(u))
  /\ Goto(j, "queued")
  /\ UNCHANGED <<file, graph, deleted>>

-----------------------------------------------------------------------------
(* _run_ingestion_job and IngestionPipeline.run                             *)

Start(j) ==
  /\ pc[j] = "queued"
  /\ job' = [job EXCEPT ![j].status = "running"]
  /\ Goto(j, "running")
  /\ UNCHANGED <<file, work, graph, deleted>>

\* The loader opens the file when the first document is asked for, which is
\* after the database has been connected, and keeps it open.
Missing(j) == work[j].read = 0 /\ ~OnDisk(work[j].upload)

BatchSaved(w) == w.labels = {} /\ w.types = {}

Ready(j) == pc[j] = "running" /\ BatchSaved(work[j])

Unread(w) == SubSeq(Rows[w.upload], w.read + 1, Len(Rows[w.upload]))

\* Documents left over for a last, smaller batch are lost.
NextBatchMutant(w) ==
  IF Len(Unread(w)) >= BatchSize THEN SubSeq(Unread(w), 1, BatchSize)
                                 ELSE <<>>

NextBatch(w) == SubSeq(Unread(w), 1,
                       IF Len(Unread(w)) < BatchSize THEN Len(Unread(w))
                                                     ELSE BatchSize)

\* _process_batch up to the save: the batch is read and extracted.
ReadBatch(j) ==
  LET w == work[j]
      docs == NextBatch(w)
  IN /\ Ready(j) /\ ~Missing(j)
     /\ docs # <<>>
     /\ \E g \in BatchGraphs(docs) :
          Work(j, [w EXCEPT !.read = @ + Len(docs),
                            !.batch = g,
                            !.found = Joined(@, g),
                            !.labels = {Label(n) : n \in g.nodes},
                            !.types = {Type(e) : e \in g.edges}])
     /\ UNCHANGED <<file, job, pc, graph, deleted>>

\* _batch_merge_nodes, the labels in any order.
SaveNodes(j, l) ==
  LET w == work[j] IN
  /\ pc[j] = "running" /\ l \in w.labels
  /\ graph' = [graph EXCEPT !.nodes = @ \cup {n \in w.batch.nodes :
                                                Label(n) = l}]
  /\ Work(j, [w EXCEPT !.labels = @ \ {l}])
  /\ UNCHANGED <<file, job, pc, deleted>>

\* Edges wait until both ends are there.
EdgesNextWaits(w) ==
  w.labels = {} /\ \A e \in w.batch.edges : Ends(e) \subseteq graph.nodes

EdgesNext(w) == w.labels = {}

\* _batch_merge_edges: an edge whose ends are not both there is passed over.
SaveEdges(j, t) ==
  LET w == work[j] IN
  /\ pc[j] = "running" /\ t \in w.types
  /\ EdgesNext(w)
  /\ graph' = [graph EXCEPT !.edges = @ \cup
       {e \in w.batch.edges : Type(e) = t /\ Ends(e) \subseteq graph.nodes}]
  /\ Work(j, [w EXCEPT !.types = @ \ {t}])
  /\ UNCHANGED <<file, job, pc, deleted>>

\* Only a job that succeeds deletes its file.
UnlinkMutant(j, result) ==
  LET u == work[j].upload IN
  IF result.status = "completed"
  THEN \E f \in {"deleted", "stuck"} : file' = [file EXCEPT ![u] = f]
  ELSE UNCHANGED file

\* The finally clause deletes the file if it is still there and can be.
Unlink(j, result) ==
  LET u == work[j].upload IN
  IF OnDisk(u)
  THEN \E f \in {"deleted", "stuck"} : file' = [file EXCEPT ![u] = f]
  ELSE UNCHANGED file

End(j, result) ==
  /\ job' = [job EXCEPT ![j] = result]
  /\ Unlink(j, result)
  /\ Goto(j, "ended")
  /\ Work(j, [NewWork(work[j].upload) EXCEPT !.read = work[j].read,
                                            !.found = work[j].found])
  /\ UNCHANGED <<graph, deleted>>

Complete(j) ==
  /\ Ready(j) /\ ~Missing(j)
  /\ NextBatch(work[j]) = <<>>
  /\ End(j, [status |-> "completed", error |-> "none",
             total_nodes |-> work[j].found.node_count,
             total_edges |-> work[j].found.edge_count])

NotFound(j) ==
  /\ Ready(j) /\ Missing(j)
  /\ End(j, [job[j] EXCEPT !.status = "failed", !.error = "not found"])

\* The database cannot be reached, a document cannot be read, or a write
\* fails; a write that failed after it landed is a write and then a failure.
Fail(j) ==
  /\ pc[j] = "running"
  /\ End(j, [job[j] EXCEPT !.status = "failed", !.error = "other"])

-----------------------------------------------------------------------------
(* The environment                                                          *)

\* The server process is restarted: every job is forgotten and its task is
\* gone, the files and the graph stay.
Restart ==
  LET known == {j \in Jobs : job[j] # NoJob} IN
  /\ known # {}
  /\ job' = [j \in Jobs |-> NoJob]
  /\ pc' = [j \in Jobs |-> IF j \in known THEN "gone" ELSE pc[j]]
  /\ work' = [j \in Jobs |-> NewWork(work[j].upload)]
  /\ UNCHANGED <<file, graph, deleted>>

\* delete_node with force
DeleteNode(n) ==
  /\ n \in graph.nodes
  /\ graph' = [nodes |-> graph.nodes \ {n},
               edges |-> {e \in graph.edges : n \notin Ends(e)}]
  /\ deleted' = deleted \cup {n}
  /\ UNCHANGED <<file, job, pc, work>>

Rest == (\A j \in Jobs : pc[j] \notin {"queued", "running"}) /\ UNCHANGED vars

-----------------------------------------------------------------------------

Init ==
  /\ file = [u \in Uploads |-> "free"]
  /\ job = [j \in Jobs |-> NoJob]
  /\ pc = [j \in Jobs |-> "idle"]
  /\ work = [j \in Jobs |-> NewWork(CHOOSE u \in Uploads : TRUE)]
  /\ graph = [nodes |-> {}, edges |-> {}]
  /\ deleted = {}

Run(j) ==
  \/ Start(j)
  \/ ReadBatch(j)
  \/ \E l \in Labels : SaveNodes(j, l)
  \/ \E t \in DOMAIN ValidRelations : SaveEdges(j, t)
  \/ Complete(j)
  \/ NotFound(j)

Next ==
  \/ \E u \in Uploads : Upload(u)
  \/ \E j \in Jobs : \/ \E u \in Uploads : Ingest(j, u)
                     \/ Run(j)
                     \/ Fail(j)
  \/ Restart
  \/ \E n \in Deletable : DeleteNode(n)
  \/ Rest

\* The event loop runs every task, and every await of a job ends: LLM calls
\* and transactions have timeouts of their own.
Fairness == \A j \in Jobs : WF_vars(Run(j))

Spec == Init /\ [][Next]_vars
FairSpec == Spec /\ Fairness

-----------------------------------------------------------------------------
(* Properties                                                               *)

Edge == Node \X (DOMAIN ValidRelations) \X Node
Graph == [nodes: SUBSET Node, edges: SUBSET Edge,
          node_count: Nat, edge_count: Nat]

\* Files, jobs, tasks and the graph have their types; edges join nodes that
\* were extracted.
TypeOK ==
  /\ file \in [Uploads -> {"free", "present", "stuck", "deleted"}]
  /\ job \in [Jobs -> [status: {"unknown", "pending", "running", "completed",
                                "failed"},
                       total_nodes: Nat, total_edges: Nat,
                       error: {"none", "not found", "other"}]]
  /\ pc \in [Jobs -> {"idle", "queued", "running", "ended", "gone"}]
  /\ work \in [Jobs -> [upload: Uploads, read: Nat, labels: SUBSET Labels,
                        types: SUBSET DOMAIN ValidRelations,
                        batch: Graph, found: Graph]]
  /\ graph \in [nodes: SUBSET Node, edges: SUBSET Edge]
  /\ deleted \subseteq Node

Completed(j) == job[j].status = "completed"

\* A completed job has read its whole file, and everything extracted from it
\* is in the graph, except what an administrator deleted meanwhile (the order
\* of the transactions, the last smaller batch, jobs on the same data).
CompletedIsStored ==
  \A j \in Jobs : Completed(j) =>
    LET found == work[j].found IN
    /\ work[j].read = Len(Rows[work[j].upload])
    /\ found.nodes \ deleted \subseteq graph.nodes
    /\ {e \in found.edges : Ends(e) \cap deleted = {}} \subseteq graph.edges

\* What several jobs and deletions leave in the graph keeps to the schema, and
\* no edge lacks an end.
SchemaHolds ==
  \A e \in graph.edges : /\ Ends(e) \subseteq graph.nodes
                         /\ ValidRelations[Type(e)] =
                              <<Label(e[1]), Label(e[3])>>

\* A job fails for want of its file only if another job on the same file has
\* ended: ingest looks for the file long before the job opens it.
MissingOnlyIfShared ==
  \A j \in Jobs : job[j].error = "not found" =>
    \E k \in Jobs \ {j} : /\ work[k].upload = work[j].upload
                          /\ job[k].status \in {"completed", "failed"}

\* However a job ends, its file does not stay, unless it cannot be deleted.
NoFileLeft ==
  \A j \in Jobs : job[j].status \in {"completed", "failed"} =>
    file[work[j].upload] # "present"

\* What jobs, deletions and restarts leave in the graph is well formed.
GraphSound == TypeOK /\ SchemaHolds

\* A file is there as long as a job needs it and gone when its jobs ended.
FilesKeptWhileNeeded == MissingOnlyIfShared /\ NoFileLeft

\* Every job that was accepted completes or fails, or a restart forgets it.
JobsEnd ==
  \A j \in Jobs : pc[j] = "queued" ~> pc[j] \in {"ended", "gone"}

=============================================================================
