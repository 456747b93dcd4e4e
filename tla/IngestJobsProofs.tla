-------------------------- MODULE IngestJobsProofs --------------------------
(***************************************************************************)
(* What ingestion keeps for any files, any documents, whatever the LLM      *)
(* extracts from them, any number of jobs and any batch size.  The inductive *)
(* invariant says where a job's graph is while it is being saved: what was  *)
(* found is in Neo4j, or is in the batch under a label or a type that is    *)
(* still to be saved, or was deleted by an administrator.                   *)
(***************************************************************************)
EXTENDS IngestJobs, FiniteSetTheorems, SequenceTheorems,
        WellFoundedInduction, TLAPS

Idle(j) == pc[j] \in {"idle", "gone"}
Active(j) == pc[j] \in {"queued", "running"}
Over(j) == job[j].status \in {"completed", "failed"}

\* What a client is told of a job is where its task is.
StatusTold ==
  \A j \in Jobs :
    /\ Idle(j) => job[j] = NoJob
    /\ pc[j] = "queued" => job[j].status = "pending"
    /\ pc[j] = "running" => job[j].status = "running"
    /\ pc[j] = "ended" => Over(j)

\* Another job on the same file is over.
Shared(j) ==
  \E k \in Jobs \ {j} : work[k].upload = work[j].upload /\ Over(k)

FilesInv ==
  \A j \in Jobs :
    /\ Active(j) => OnDisk(work[j].upload) \/ Shared(j)
    /\ ~Idle(j) => file[work[j].upload] # "free"
    /\ job[j].error = "not found" => Shared(j)
    /\ Over(j) => file[work[j].upload] # "present"

Closed(g) == \A e \in g.edges : Ends(e) \subseteq g.nodes
Conforms(g) ==
  \A e \in g.edges : ValidRelations[Type(e)] = <<Label(e[1]), Label(e[3])>>

\* A batch is part of what was found, a graph of the schema.
WorkSound ==
  \A j \in Jobs :
    LET w == work[j] IN
    /\ w.batch.nodes \subseteq w.found.nodes
    /\ w.batch.edges \subseteq w.found.edges
    /\ Closed(w.found) /\ Conforms(w.found)
    /\ w.read <= Len(Rows[w.upload])

\* What was found and not deleted is in the graph or still to be saved.
Held(w) ==
  /\ w.found.nodes \ deleted \subseteq
       graph.nodes \cup {n \in w.batch.nodes : Label(n) \in w.labels}
  /\ {e \in w.found.edges : Ends(e) \cap deleted = {}} \subseteq
       graph.edges \cup {e \in w.batch.edges : Type(e) \in w.types}

NothingLost == \A j \in Jobs : job[j].status # "failed" => Held(work[j])

Finished ==
  \A j \in Jobs : Completed(j) =>
    BatchSaved(work[j]) /\ work[j].read = Len(Rows[work[j].upload])

IInv == /\ TypeOK /\ StatusTold /\ FilesInv /\ WorkSound /\ NothingLost
        /\ Finished /\ SchemaHolds

-----------------------------------------------------------------------------
(* Extraction                                                               *)

\* A set of natural numbers has a least one.
LEMMA LeastNumber ==
  ASSUME NEW T, T \subseteq Nat, T # {}
  PROVE  \E m \in T : \A k \in T : m <= k
<1> DEFINE R == {ss \in Nat \X Nat : ss[1] < ss[2]}
<1>1. IsWellFoundedOn(R, Nat)
  BY NatLessThanWellFounded DEF OpToRel
<1> HIDE DEF R
<1>2. PICK m \in T : \A k \in T : <<k, m>> \notin R
  BY <1>1, WFMin
<1>3. \A k \in T : ~(k < m)
  BY <1>2 DEF R
<1> QED BY <1>3

\* A set of positions in a sequence has a last one.
LEMMA LastIndex ==
  ASSUME NEW n \in Nat, NEW T, T \subseteq 1 .. n, T # {}
  PROVE  \E m \in T : \A k \in T : k <= m
<1> DEFINE U == {n - k : k \in T}
<1>1. U \subseteq Nat
  OBVIOUS
<1>2. U # {}
  OBVIOUS
<1>3. PICK u \in U : \A v \in U : u <= v
  BY <1>1, <1>2, LeastNumber
<1>4. PICK m \in T : u = n - m
  OBVIOUS
<1>5. \A k \in T : n - k \in U
  OBVIOUS
<1> QED BY <1>3, <1>4, <1>5

\* A name that is found stands for a node of the reply.
LEMMA ReferredIsNode ==
  ASSUME NEW raw, raw.nodes \in Seq({raw.nodes[i] : i \in DOMAIN raw.nodes}),
         NEW ref, Referred(raw, ref) # None
  PROVE  Referred(raw, ref) \in NodesOf(raw)
<1> DEFINE named == {i \in DOMAIN raw.nodes : raw.nodes[i].ref = ref}
           last == CHOOSE i \in named : \A k \in named : k <= i
<1>1. named # {} /\ Referred(raw, ref) = EntityId(raw.nodes[last])
  BY DEF Referred
<1>2. named \subseteq 1 .. Len(raw.nodes) /\ Len(raw.nodes) \in Nat
  OBVIOUS
<1>3. \E i \in named : \A k \in named : k <= i
  BY <1>1, <1>2, LastIndex
<1>4. last \in named
  BY <1>3
<1> QED BY <1>1, <1>4 DEF NodesOf

\* Of what the LLM extracts, what is kept is a graph of the schema.
LEMMA ReplySound ==
  ASSUME NEW d \in Documents, NEW raw \in Answers(d)
  PROVE  /\ NodesOf(raw) \subseteq Node
         /\ EdgesOf(raw) \subseteq Edge
         /\ \A e \in EdgesOf(raw) :
              /\ Ends(e) \subseteq NodesOf(raw)
              /\ ValidRelations[Type(e)] = <<Label(e[1]), Label(e[3])>>
<1>1. CASE raw \in Replies[d]
  <2>1. NodesOf(raw) \subseteq Node
    BY <1>1 DEF Node
  <2>2. raw.nodes \in Seq({raw.nodes[i] : i \in DOMAIN raw.nodes})
    BY <1>1, ConstantsAssumption
  <2>3. ASSUME NEW e \in EdgesOf(raw)
        PROVE  /\ e \in NodesOf(raw) \X (DOMAIN ValidRelations) \X NodesOf(raw)
               /\ ValidRelations[Type(e)] = <<Label(e[1]), Label(e[3])>>
    <3>1. PICK f \in KeptEdges(raw) :
            e = <<Referred(raw, f.from), f.type, Referred(raw, f.to)>>
      BY DEF EdgesOf
    <3>2. /\ Referred(raw, f.from) # None /\ Referred(raw, f.to) # None
          /\ IsValidRelation(Referred(raw, f.from), f.type, Referred(raw, f.to))
      BY DEF KeptEdges
    <3>3. /\ Referred(raw, f.from) \in NodesOf(raw)
          /\ Referred(raw, f.to) \in NodesOf(raw)
      BY <2>2, <3>2, ReferredIsNode
    <3> QED BY <3>1, <3>2, <3>3 DEF IsValidRelation, Type
  <2> QED BY <2>1, <2>3 DEF Edge, Ends
<1>2. CASE raw = NoReply
  BY <1>2 DEF NoReply, NodesOf, EdgesOf, KeptEdges
<1> QED BY <1>1, <1>2 DEF Answers

\* The items of finitely many documents can be counted.
LEMMA CountIsNatural ==
  ASSUME NEW n \in Nat, NEW f, \A i \in 1 .. n : IsFiniteSet(f[i])
  PROVE  Cardinality(UNION {{i} \X f[i] : i \in 1 .. n}) \in Nat
<1> DEFINE g == [i \in 1 .. n |-> {i} \X f[i]]
           parts == {{i} \X f[i] : i \in 1 .. n}
<1>1. IsFiniteSet(1 .. n)
  BY FS_Interval
<1>2. g \in Surjection(1 .. n, parts)
  BY DEF Surjection
<1>3. IsFiniteSet(parts)
  BY <1>1, <1>2, FS_Surjection
<1>4. \A i \in 1 .. n : IsFiniteSet({i} \X f[i])
  BY FS_Singleton, FS_Product
<1>5. IsFiniteSet(UNION parts)
  BY <1>3, <1>4, FS_UNION
<1> QED BY <1>5, FS_CardinalityType

LEMMA ReplyFinite ==
  ASSUME NEW d \in Documents, NEW raw \in Answers(d)
  PROVE  IsFiniteSet(DOMAIN raw.nodes) /\ IsFiniteSet(KeptEdges(raw))
<1>1. CASE raw \in Replies[d]
  <2>1. /\ raw.nodes \in Seq({raw.nodes[i] : i \in DOMAIN raw.nodes})
        /\ IsFiniteSet(raw.edges)
    BY <1>1, ConstantsAssumption
  <2>2. DOMAIN raw.nodes = 1 .. Len(raw.nodes) /\ Len(raw.nodes) \in Nat
    BY <2>1
  <2>3. KeptEdges(raw) \subseteq raw.edges
    BY DEF KeptEdges
  <2>4. IsFiniteSet(DOMAIN raw.nodes)
    BY <2>2, FS_Interval
  <2> QED BY <2>1, <2>3, <2>4, FS_Subset
<1>2. CASE raw = NoReply
  <2>1. DOMAIN raw.nodes = {} /\ KeptEdges(raw) = {}
    BY <1>2 DEF NoReply, KeptEdges
  <2> QED BY <2>1, FS_EmptySet
<1> QED BY <1>1, <1>2 DEF Answers

\* So is the graph of a batch.
LEMMA BatchSound ==
  ASSUME NEW docs \in Seq(Documents), NEW g \in BatchGraphs(docs)
  PROVE  g \in Graph /\ Closed(g) /\ Conforms(g)
<1>1. PICK raws : /\ DOMAIN raws = DOMAIN docs
                  /\ \A i \in DOMAIN docs : raws[i] \in Answers(docs[i])
                  /\ g = BatchGraph(raws)
  BY DEF BatchGraphs
<1>2. DOMAIN raws = 1 .. Len(docs) /\ Len(docs) \in Nat
  BY <1>1
<1>3. \A i \in DOMAIN raws : docs[i] \in Documents /\ raws[i] \in Answers(docs[i])
  BY <1>1
<1>4. /\ g.nodes = UNION {NodesOf(raws[i]) : i \in DOMAIN raws}
      /\ g.edges = UNION {EdgesOf(raws[i]) : i \in DOMAIN raws}
  BY <1>1 DEF BatchGraph
<1>5. g.nodes \subseteq Node /\ g.edges \subseteq Edge
  BY <1>3, <1>4, ReplySound
<1>6. ASSUME NEW e \in g.edges
      PROVE  /\ Ends(e) \subseteq g.nodes
             /\ ValidRelations[Type(e)] = <<Label(e[1]), Label(e[3])>>
  <2>1. PICK i \in DOMAIN raws : e \in EdgesOf(raws[i])
    BY <1>4
  <2> QED BY <2>1, <1>3, <1>4, ReplySound
<1>7. g.node_count \in Nat
  <2> DEFINE f == [i \in DOMAIN raws |-> DOMAIN raws[i].nodes]
  <2>1. \A i \in 1 .. Len(docs) : IsFiniteSet(f[i])
    BY <1>2, <1>3, ReplyFinite
  <2>2. Cardinality(UNION {{i} \X f[i] : i \in 1 .. Len(docs)}) \in Nat
    BY <2>1, <1>2, CountIsNatural
  <2>3. {{i} \X f[i] : i \in 1 .. Len(docs)} =
          {{i} \X DOMAIN raws[i].nodes : i \in DOMAIN raws}
    BY <1>2
  <2> QED BY <1>1, <2>2, <2>3 DEF BatchGraph
<1>8. g.edge_count \in Nat
  <2> DEFINE f == [i \in DOMAIN raws |-> KeptEdges(raws[i])]
  <2>1. \A i \in 1 .. Len(docs) : IsFiniteSet(f[i])
    BY <1>2, <1>3, ReplyFinite
  <2>2. Cardinality(UNION {{i} \X f[i] : i \in 1 .. Len(docs)}) \in Nat
    BY <2>1, <1>2, CountIsNatural
  <2>3. {{i} \X f[i] : i \in 1 .. Len(docs)} =
          {{i} \X KeptEdges(raws[i]) : i \in DOMAIN raws}
    BY <1>2
  <2> QED BY <1>1, <2>2, <2>3 DEF BatchGraph
<1>9. g \in Graph
  BY <1>1, <1>5, <1>7, <1>8 DEF Graph, BatchGraph
<1> QED BY <1>6, <1>9 DEF Closed, Conforms

-----------------------------------------------------------------------------
(* The steps                                                                *)

JobStatus == {"unknown", "pending", "running", "completed", "failed"}
Job == [status: JobStatus, total_nodes: Nat, total_edges: Nat,
        error: {"none", "not found", "other"}]
Task == [upload: Uploads, read: Nat, labels: SUBSET Labels,
         types: SUBSET DOMAIN ValidRelations, batch: Graph, found: Graph]

LEMMA Typed ==
  TypeOK <=> /\ file \in [Uploads -> {"free", "present", "stuck", "deleted"}]
             /\ job \in [Jobs -> Job]
             /\ pc \in [Jobs -> {"idle", "queued", "running", "ended", "gone"}]
             /\ work \in [Jobs -> Task]
             /\ graph \in [nodes: SUBSET Node, edges: SUBSET Edge]
             /\ deleted \subseteq Node
  BY DEF TypeOK, Job, JobStatus, Task

LEMMA StatusChanges ==
  ASSUME NEW r \in Job, NEW s \in JobStatus
  PROVE  LET t == [r EXCEPT !.status = s] IN
         t \in Job /\ t.status = s /\ t.error = r.error
  BY DEF Job

LEMMA NewWorkType ==
  ASSUME NEW u \in Uploads
  PROVE  /\ NewWork(u) \in Task
         /\ NewWork(u).upload = u /\ NewWork(u).read = 0
         /\ NewWork(u).found = NoGraph /\ NewWork(u).batch = NoGraph
         /\ BatchSaved(NewWork(u))
  BY DEF NewWork, NoGraph, Graph, Task, BatchSaved

LEMMA NoGraphSound ==
  /\ NoGraph \in Graph /\ NoGraph.nodes = {} /\ NoGraph.edges = {}
  /\ Closed(NoGraph) /\ Conforms(NoGraph)
  BY DEF NoGraph, Graph, Closed, Conforms

LEMMA TaskUpdates ==
  ASSUME NEW w \in Task
  PROVE  /\ \A r \in Nat : [w EXCEPT !.read = r] \in Task
         /\ \A g \in Graph : [w EXCEPT !.batch = g] \in Task
         /\ \A g \in Graph : [w EXCEPT !.found = g] \in Task
         /\ \A l \in SUBSET Labels : [w EXCEPT !.labels = l] \in Task
         /\ \A y \in SUBSET DOMAIN ValidRelations : [w EXCEPT !.types = y] \in Task
  BY DEF Task

LEMMA RowsType ==
  ASSUME NEW u \in Uploads
  PROVE  Rows[u] \in Seq(Documents) /\ Len(Rows[u]) \in Nat
  BY ConstantsAssumption

LEMMA InitInvariant == Init => IInv
<1> SUFFICES ASSUME Init PROVE IInv
  OBVIOUS
<1> DEFINE u == CHOOSE v \in Uploads : TRUE
<1>1. u \in Uploads
  BY ConstantsAssumption
<1> HIDE DEF u
<1>2. work = [j \in Jobs |-> NewWork(u)]
  BY DEF Init, u
<1>3. TypeOK
  BY <1>1, <1>2, NewWorkType DEF Init, TypeOK, Task, NoJob
<1>4. StatusTold /\ FilesInv /\ Finished
  BY DEF Init, StatusTold, FilesInv, Finished, Idle, Active, Over, Shared,
         Completed, NoJob
<1>5. WorkSound
  BY <1>1, <1>2, NewWorkType, NoGraphSound, RowsType DEF WorkSound
<1>6. NothingLost
  BY <1>1, <1>2, NewWorkType, NoGraphSound DEF NothingLost, Held
<1>7. SchemaHolds
  BY DEF Init, SchemaHolds
<1> QED BY <1>3, <1>4, <1>5, <1>6, <1>7 DEF IInv

LEMMA UploadInvariant ==
  ASSUME IInv, NEW u \in Uploads, Upload(u)
  PROVE  IInv'
<1> USE DEF IInv, Upload
<1>1. TypeOK'
  BY DEF TypeOK
<1>2. FilesInv'
  <2>1. \A v \in Uploads \ {u} : file'[v] = file[v]
    BY DEF TypeOK
  <2>2. file'[u] = "present" /\ file[u] = "free"
    BY DEF TypeOK
  <2>3. \A k \in Jobs : work[k].upload \in Uploads
    BY DEF TypeOK
  <2>4. \A k \in Jobs : Over(k) => ~Idle(k)
    BY DEF StatusTold, Over, NoJob
  <2>5. \A k \in Jobs : ~Idle(k) => work[k].upload # u
    BY <2>2 DEF FilesInv
  <2>6. \A k \in Jobs : /\ Over(k)' <=> Over(k)
                        /\ Idle(k)' <=> Idle(k)
                        /\ Active(k)' <=> Active(k)
                        /\ Shared(k) => Shared(k)'
    BY DEF Over, Idle, Active, Shared
  <2>7. \A k \in Jobs : Active(k) => ~Idle(k)
    BY DEF Active, Idle
  <2>8. ASSUME NEW k \in Jobs, Active(k)
        PROVE  OnDisk(work[k].upload)' \/ Shared(k)'
    BY <2>1, <2>3, <2>5, <2>6, <2>7, <2>8 DEF FilesInv, OnDisk
  <2> QED BY <2>1, <2>2, <2>3, <2>4, <2>5, <2>6, <2>8 DEF FilesInv
<1>3. StatusTold' /\ WorkSound' /\ NothingLost' /\ Finished' /\ SchemaHolds'
  BY DEF StatusTold, Idle, Over, WorkSound, Closed, Conforms, NothingLost, Held,
         Finished, Completed, BatchSaved, SchemaHolds
<1> QED BY <1>1, <1>2, <1>3

LEMMA IngestInvariant ==
  ASSUME IInv, NEW j \in Jobs, NEW u \in Uploads, Ingest(j, u)
  PROVE  IInv'
<1> USE DEF IInv
<1>1. /\ file' = file /\ graph' = graph /\ deleted' = deleted
      /\ pc[j] = "idle" /\ OnDisk(u)
      /\ job' = [job EXCEPT ![j].status = "pending"]
      /\ work' = [work EXCEPT ![j] = NewWork(u)]
      /\ pc' = [pc EXCEPT ![j] = "queued"]
  BY DEF Ingest, Exists, Work, Goto
<1>2. job[j] = NoJob
  BY <1>1 DEF StatusTold, Idle
<1>3. job'[j].status = "pending" /\ job'[j].error = "none" /\ pc'[j] = "queued"
  BY <1>1, <1>2, Typed DEF NoJob
<1>4. \A k \in Jobs \ {j} :
        job'[k] = job[k] /\ work'[k] = work[k] /\ pc'[k] = pc[k]
  BY <1>1 DEF TypeOK
<1>5. work'[j] = NewWork(u)
  BY <1>1 DEF TypeOK
<1>6. TypeOK'
  <2>1. [job[j] EXCEPT !.status = "pending"] \in Job
    BY Typed, StatusChanges DEF JobStatus
  <2>2. job' \in [Jobs -> Job]
    BY <1>1, <2>1, Typed
  <2>3. work' \in [Jobs -> Task]
    BY <1>1, NewWorkType, Typed
  <2> QED BY <1>1, <2>2, <2>3, Typed DEF TypeOK, Job, JobStatus, Task
<1>7. StatusTold'
  BY <1>3, <1>4 DEF StatusTold, Idle, Over
<1>8. FilesInv'
  <2>1. ~Over(j)
    BY <1>2 DEF Over, NoJob
  <2>2. \A k \in Jobs \ {j} : Shared(k) => Shared(k)'
    BY <1>4, <2>1 DEF Shared, Over
  <2>3. file[u] # "free"
    BY <1>1 DEF OnDisk
  <2>4. work'[j].upload = u
    BY <1>5, NewWorkType
  <2>5. ASSUME NEW k \in Jobs \ {j}
        PROVE  (/\ Active(k) => OnDisk(work[k].upload) \/ Shared(k)
                /\ ~Idle(k) => file[work[k].upload] # "free"
                /\ job[k].error = "not found" => Shared(k)
                /\ Over(k) => file[work[k].upload] # "present")'
    BY <1>1, <1>4, <2>2 DEF FilesInv, Active, Idle, Over, OnDisk
  <2>6. (/\ Active(j) => OnDisk(work[j].upload) \/ Shared(j)
         /\ ~Idle(j) => file[work[j].upload] # "free"
         /\ job[j].error = "not found" => Shared(j)
         /\ Over(j) => file[work[j].upload] # "present")'
    BY <1>1, <1>3, <2>3, <2>4 DEF Over, OnDisk
  <2> QED BY <2>5, <2>6 DEF FilesInv
<1>9. WorkSound'
  BY <1>4, <1>5, NewWorkType, NoGraphSound, RowsType
  DEF WorkSound, Closed, Conforms
<1>10. NothingLost'
  BY <1>1, <1>4, <1>5, NewWorkType, NoGraphSound DEF NothingLost, Held
<1>11. Finished'
  BY <1>3, <1>4 DEF Finished, Completed, BatchSaved
<1>12. SchemaHolds'
  BY <1>1 DEF SchemaHolds
<1> QED BY <1>6, <1>7, <1>8, <1>9, <1>10, <1>11, <1>12

LEMMA StartInvariant ==
  ASSUME IInv, NEW j \in Jobs, Start(j)
  PROVE  IInv'
<1> USE DEF IInv
<1>1. /\ file' = file /\ graph' = graph /\ deleted' = deleted /\ work' = work
      /\ pc[j] = "queued"
      /\ job' = [job EXCEPT ![j].status = "running"]
      /\ pc' = [pc EXCEPT ![j] = "running"]
  BY DEF Start, Goto
<1>2. job[j].status = "pending"
  BY <1>1 DEF StatusTold
<1>3. /\ job'[j].status = "running" /\ job'[j].error = job[j].error
      /\ pc'[j] = "running" /\ job' \in [Jobs -> Job]
  <2>1. LET t == [job[j] EXCEPT !.status = "running"] IN
        t \in Job /\ t.status = "running" /\ t.error = job[j].error
    BY Typed, StatusChanges DEF JobStatus
  <2> QED BY <1>1, <2>1, Typed
<1>4. \A k \in Jobs \ {j} : job'[k] = job[k] /\ pc'[k] = pc[k]
  BY <1>1 DEF TypeOK
<1>5. TypeOK'
  BY <1>1, <1>3, Typed DEF TypeOK, Job, JobStatus, Task
<1>6. StatusTold'
  BY <1>3, <1>4 DEF StatusTold, Idle, Over
<1>7. FilesInv'
  <2>1. \A k \in Jobs : Over(k) <=> Over(k)'
    BY <1>2, <1>3, <1>4 DEF Over
  <2>2. \A k \in Jobs : Shared(k) => Shared(k)'
    BY <1>1, <2>1 DEF Shared
  <2> QED
    BY <1>1, <1>3, <1>4, <2>1, <2>2 DEF FilesInv, Active, Idle, OnDisk
<1>8. WorkSound' /\ SchemaHolds'
  BY <1>1 DEF WorkSound, Closed, Conforms, SchemaHolds
<1>9. NothingLost'
  BY <1>1, <1>2, <1>4 DEF NothingLost, Held
<1>10. Finished'
  BY <1>1, <1>3, <1>4 DEF Finished, Completed, BatchSaved
<1> QED BY <1>5, <1>6, <1>7, <1>8, <1>9, <1>10

\* A task that goes on changes neither the files nor what jobs are told to be.
LEMMA GoingOn ==
  ASSUME IInv, NEW j \in Jobs, UNCHANGED <<file, job, pc, deleted>>,
         work' \in [Jobs -> Task], work'[j].upload = work[j].upload,
         \A k \in Jobs \ {j} : work'[k] = work[k]
  PROVE  StatusTold' /\ FilesInv'
<1>1. \A k \in Jobs : work'[k].upload = work[k].upload
  OBVIOUS
<1>2. StatusTold'
  BY DEF IInv, StatusTold, Idle, Over
<1>3. \A k \in Jobs : /\ Over(k)' <=> Over(k)
                      /\ Idle(k)' <=> Idle(k)
                      /\ Active(k)' <=> Active(k)
                      /\ Shared(k) => Shared(k)'
  BY <1>1 DEF Over, Idle, Active, Shared
<1> QED BY <1>1, <1>2, <1>3 DEF IInv, FilesInv, OnDisk

LEMMA JoinedSound ==
  ASSUME NEW g \in Graph, NEW h \in Graph,
         Closed(g), Conforms(g), Closed(h), Conforms(h)
  PROVE  LET b == Joined(g, h) IN
         /\ b \in Graph /\ Closed(b) /\ Conforms(b)
         /\ b.nodes = g.nodes \cup h.nodes /\ b.edges = g.edges \cup h.edges
<1> DEFINE b == Joined(g, h)
<1>1. /\ b \in Graph
      /\ b.nodes = g.nodes \cup h.nodes /\ b.edges = g.edges \cup h.edges
  BY DEF Joined, Graph
<1> HIDE DEF b
<1>2. Closed(b) /\ Conforms(b)
  BY <1>1 DEF Closed, Conforms
<1> QED BY <1>1, <1>2 DEF b

\* The next batch is not empty as long as documents are unread, and has no
\* more than are.
LEMMA NextBatchLength ==
  ASSUME NEW w \in Task, w.read <= Len(Rows[w.upload])
  PROVE  /\ NextBatch(w) \in Seq(Documents)
         /\ Len(NextBatch(w)) \in Nat
         /\ w.read + Len(NextBatch(w)) <= Len(Rows[w.upload])
         /\ NextBatch(w) = <<>> => w.read = Len(Rows[w.upload])
<1> DEFINE r == Rows[w.upload]
           u == Unread(w)
           n == IF Len(u) < BatchSize THEN Len(u) ELSE BatchSize
<1>1. r \in Seq(Documents) /\ Len(r) \in Nat /\ w.read \in Nat
  BY ConstantsAssumption DEF Task
<1>2. u \in Seq(Documents) /\ Len(u) = Len(r) - w.read
  BY <1>1, SubSeqProperties DEF Unread
<1> HIDE DEF r, u
<1>3. n \in 0 .. Len(u) /\ (n = 0 => Len(u) = 0)
  BY <1>1, <1>2, ConstantsAssumption
<1>4. NextBatch(w) = SubSeq(u, 1, n)
  BY DEF NextBatch, u
<1> HIDE DEF n
<1>5. NextBatch(w) \in Seq(Documents) /\ Len(NextBatch(w)) = n
  BY <1>2, <1>3, <1>4, SubSeqProperties
<1>6. NextBatch(w) = <<>> => n = 0
  BY <1>5
<1> QED BY <1>1, <1>2, <1>3, <1>5, <1>6 DEF r

LEMMA ReadBatchInvariant ==
  ASSUME IInv, NEW j \in Jobs, ReadBatch(j)
  PROVE  IInv'
<1> DEFINE w == work[j]
           docs == NextBatch(w)
<1> USE DEF IInv
<1>1. w \in Task /\ w.found \in Graph /\ w.read \in Nat
  BY Typed DEF Task
<1>2. w.read <= Len(Rows[w.upload]) /\ Closed(w.found) /\ Conforms(w.found)
  BY DEF WorkSound
<1>3. PICK g \in BatchGraphs(docs) :
        work' = [work EXCEPT ![j] = [w EXCEPT
                   !.read = @ + Len(docs),
                   !.batch = g,
                   !.found = Joined(@, g),
                   !.labels = {Label(n) : n \in g.nodes},
                   !.types = {Type(e) : e \in g.edges}]]
  BY DEF ReadBatch, Work
<1>4. /\ UNCHANGED <<file, job, pc, graph, deleted>>
      /\ pc[j] = "running" /\ BatchSaved(w)
  BY DEF ReadBatch, Ready
<1>5. /\ docs \in Seq(Documents) /\ Len(docs) \in Nat
      /\ w.read + Len(docs) <= Len(Rows[w.upload])
  BY <1>1, <1>2, NextBatchLength
<1>6. g \in Graph /\ Closed(g) /\ Conforms(g)
  BY <1>5, BatchSound
<1> DEFINE f == Joined(w.found, g)
<1>7. /\ f \in Graph /\ Closed(f) /\ Conforms(f)
      /\ f.nodes = w.found.nodes \cup g.nodes
      /\ f.edges = w.found.edges \cup g.edges
  BY <1>1, <1>2, <1>6, JoinedSound
<1>8. /\ {Label(n) : n \in g.nodes} \subseteq Labels
      /\ {Type(e) : e \in g.edges} \subseteq DOMAIN ValidRelations
  BY <1>6 DEF Graph, Labels, Edge, Type
<1> HIDE DEF f, docs
<1> DEFINE t == [w EXCEPT !.read = @ + Len(docs), !.batch = g, !.found = f,
                          !.labels = {Label(n) : n \in g.nodes},
                          !.types = {Type(e) : e \in g.edges}]
<1>9. /\ t \in Task /\ t.upload = w.upload /\ t.read = w.read + Len(docs)
      /\ t.batch = g /\ t.found = f
      /\ t.labels = {Label(n) : n \in g.nodes}
      /\ t.types = {Type(e) : e \in g.edges}
  <2> DEFINE r == w.read + Len(docs)
             l == {Label(n) : n \in g.nodes}
             y == {Type(e) : e \in g.edges}
  <2>1. /\ r \in Nat /\ l \in SUBSET Labels
        /\ y \in SUBSET DOMAIN ValidRelations
    BY <1>1, <1>5, <1>8
  <2>2. t = [w EXCEPT !.read = r, !.batch = g, !.found = f, !.labels = l,
                      !.types = y]
    OBVIOUS
  <2> HIDE DEF r, l, y, t, w
  <2>3. t \in Task
    BY <1>1, <1>6, <1>7, <2>1, <2>2, TaskUpdates
  <2>4. /\ t.upload = w.upload /\ t.read = r
        /\ t.batch = g /\ t.found = f /\ t.labels = l /\ t.types = y
    BY <1>1, <2>2 DEF Task
  <2> QED BY <2>3, <2>4 DEF r, l, y
<1>10. work' = [work EXCEPT ![j] = t]
  BY <1>3 DEF f
<1> HIDE DEF t, w
<1>11. /\ work' \in [Jobs -> Task] /\ work'[j] = t
       /\ \A k \in Jobs \ {j} : work'[k] = work[k]
  BY <1>9, <1>10, Typed
<1>12. TypeOK'
  BY <1>4, <1>11, Typed DEF TypeOK, Job, JobStatus, Task
<1>13. StatusTold' /\ FilesInv'
  BY <1>4, <1>9, <1>11, GoingOn DEF w
<1>14. WorkSound'
  BY <1>5, <1>7, <1>9, <1>11 DEF WorkSound
<1>15. NothingLost'
  <2>1. ASSUME NEW k \in Jobs \ {j}, job'[k].status # "failed"
        PROVE  Held(work[k])'
    BY <2>1, <1>4, <1>11 DEF NothingLost, Held
  <2>2. Held(w)
    BY <1>4 DEF NothingLost, StatusTold, w
  <2>3. w.found.nodes \ deleted \subseteq graph.nodes
    BY <1>4, <2>2 DEF Held, BatchSaved
  <2>4. {e \in w.found.edges : Ends(e) \cap deleted = {}} \subseteq graph.edges
    BY <1>4, <2>2 DEF Held, BatchSaved
  <2>5. Held(work[j])'
    BY <1>4, <1>7, <1>9, <1>11, <2>3, <2>4 DEF Held
  <2> QED BY <2>1, <2>5 DEF NothingLost
<1>16. Finished'
  BY <1>4, <1>11 DEF Finished, Completed, StatusTold
<1>17. SchemaHolds'
  BY <1>4 DEF SchemaHolds
<1> QED BY <1>12, <1>13, <1>14, <1>15, <1>16, <1>17

LEMMA SaveNodesInvariant ==
  ASSUME IInv, NEW j \in Jobs, NEW l \in Labels, SaveNodes(j, l)
  PROVE  IInv'
<1> DEFINE w == work[j]
           saved == {n \in w.batch.nodes : Label(n) = l}
           t == [w EXCEPT !.labels = w.labels \ {l}]
<1> USE DEF IInv
<1>1. /\ UNCHANGED <<file, job, pc, deleted>>
      /\ pc[j] = "running" /\ l \in w.labels
      /\ graph' = [graph EXCEPT !.nodes = @ \cup saved]
      /\ work' = [work EXCEPT ![j] = t]
  BY DEF SaveNodes, Work
<1>2. w \in Task
  BY Typed
<1>3. /\ t \in Task /\ t.upload = w.upload /\ t.read = w.read
      /\ t.batch = w.batch /\ t.found = w.found /\ t.types = w.types
      /\ t.labels = w.labels \ {l}
  BY <1>2, TaskUpdates DEF Task
<1>4. saved \subseteq Node
  BY <1>2 DEF Task, Graph
<1>5. /\ graph'.nodes = graph.nodes \cup saved /\ graph'.edges = graph.edges
      /\ graph' \in [nodes: SUBSET Node, edges: SUBSET Edge]
  BY <1>1, <1>4, Typed
<1> HIDE DEF t, w
<1>6. /\ work' \in [Jobs -> Task] /\ work'[j] = t
      /\ \A k \in Jobs \ {j} : work'[k] = work[k]
  BY <1>1, <1>3, Typed
<1>7. TypeOK'
  BY <1>1, <1>5, <1>6, Typed DEF TypeOK, Job, JobStatus, Task
<1>8. StatusTold' /\ FilesInv'
  BY <1>1, <1>3, <1>6, GoingOn DEF w
<1>9. WorkSound'
  BY <1>3, <1>6 DEF WorkSound, w
<1>10. NothingLost'
  <2>1. ASSUME NEW k \in Jobs \ {j}, job'[k].status # "failed"
        PROVE  Held(work[k])'
    BY <2>1, <1>1, <1>5, <1>6 DEF NothingLost, Held
  <2>2. Held(w)
    BY <1>1 DEF NothingLost, StatusTold, w
  <2>3. Held(work[j])'
    BY <1>1, <1>3, <1>5, <1>6, <2>2 DEF Held
  <2> QED BY <2>1, <2>3 DEF NothingLost
<1>11. Finished'
  BY <1>1, <1>6 DEF Finished, Completed, StatusTold
<1>12. SchemaHolds'
  BY <1>5 DEF SchemaHolds
<1> QED BY <1>7, <1>8, <1>9, <1>10, <1>11, <1>12

LEMMA SaveEdgesInvariant ==
  ASSUME IInv, NEW j \in Jobs, NEW y \in DOMAIN ValidRelations, SaveEdges(j, y)
  PROVE  IInv'
<1> DEFINE w == work[j]
           saved == {e \in w.batch.edges : Type(e) = y /\ Ends(e) \subseteq graph.nodes}
           t == [w EXCEPT !.types = w.types \ {y}]
<1> USE DEF IInv
<1>1. /\ UNCHANGED <<file, job, pc, deleted>>
      /\ pc[j] = "running" /\ y \in w.types /\ w.labels = {}
      /\ graph' = [graph EXCEPT !.edges = @ \cup saved]
      /\ work' = [work EXCEPT ![j] = t]
  BY DEF SaveEdges, EdgesNext, Work
<1>2. w \in Task
  BY Typed
<1>3. /\ t \in Task /\ t.upload = w.upload /\ t.read = w.read
      /\ t.batch = w.batch /\ t.found = w.found /\ t.labels = w.labels
      /\ t.types = w.types \ {y}
  BY <1>2, TaskUpdates DEF Task
<1>4. saved \subseteq Edge
  BY <1>2 DEF Task, Graph
<1>5. /\ graph'.edges = graph.edges \cup saved /\ graph'.nodes = graph.nodes
      /\ graph' \in [nodes: SUBSET Node, edges: SUBSET Edge]
  BY <1>1, <1>4, Typed
<1>6. /\ w.batch.edges \subseteq w.found.edges
      /\ Closed(w.found) /\ Conforms(w.found)
  BY DEF WorkSound
<1>7. \A e \in saved : /\ Ends(e) \subseteq graph'.nodes
                       /\ ValidRelations[Type(e)] = <<Label(e[1]), Label(e[3])>>
  BY <1>5, <1>6 DEF Conforms
<1> HIDE DEF t, w
<1>8. /\ work' \in [Jobs -> Task] /\ work'[j] = t
      /\ \A k \in Jobs \ {j} : work'[k] = work[k]
  BY <1>1, <1>3, Typed
<1>9. TypeOK'
  BY <1>1, <1>5, <1>8, Typed DEF TypeOK, Job, JobStatus, Task
<1>10. StatusTold' /\ FilesInv'
  BY <1>1, <1>3, <1>8, GoingOn DEF w
<1>11. WorkSound'
  BY <1>3, <1>8 DEF WorkSound, w
<1>12. NothingLost'
  <2>1. ASSUME NEW k \in Jobs \ {j}, job'[k].status # "failed"
        PROVE  Held(work[k])'
    BY <2>1, <1>1, <1>5, <1>8 DEF NothingLost, Held
  <2>2. Held(w)
    BY <1>1 DEF NothingLost, StatusTold, w
  \* The labels are saved: the ends of an edge are there, or were deleted.
  <2>3. w.found.nodes \ deleted \subseteq graph.nodes
    BY <1>1, <2>2 DEF Held
  <2>4. ASSUME NEW e \in w.found.edges, Ends(e) \cap deleted = {}
        PROVE  Ends(e) \subseteq graph.nodes
    BY <1>6, <2>3, <2>4 DEF Closed
  <2>5. Held(work[j])'
    BY <1>1, <1>3, <1>5, <1>8, <2>2, <2>4 DEF Held
  <2> QED BY <2>1, <2>5 DEF NothingLost
<1>13. Finished'
  BY <1>1, <1>8 DEF Finished, Completed, StatusTold
<1>14. SchemaHolds'
  BY <1>5, <1>7 DEF SchemaHolds
<1> QED BY <1>9, <1>10, <1>11, <1>12, <1>13, <1>14

\* However a job ends.
LEMMA EndInvariant ==
  ASSUME IInv, NEW j \in Jobs, pc[j] = "running", NEW result \in Job,
         result.status \in {"completed", "failed"},
         result.error = "not found" => Shared(j),
         result.status = "completed" =>
           BatchSaved(work[j]) /\ work[j].read = Len(Rows[work[j].upload]),
         End(j, result)
  PROVE  IInv'
<1> DEFINE w == work[j]
           u == w.upload
           t == [NewWork(u) EXCEPT !.read = w.read, !.found = w.found]
<1> USE DEF IInv
<1>1. /\ graph' = graph /\ deleted' = deleted
      /\ job' = [job EXCEPT ![j] = result]
      /\ pc' = [pc EXCEPT ![j] = "ended"]
      /\ work' = [work EXCEPT ![j] = t]
      /\ Unlink(j, result)
  BY DEF End, Goto, Work
<1>2. w \in Task /\ u \in Uploads /\ w.read \in Nat /\ w.found \in Graph
  BY Typed DEF Task
<1>3. /\ t \in Task /\ t.upload = u /\ t.read = w.read /\ t.found = w.found
      /\ BatchSaved(t) /\ t.batch = NoGraph
  <2>1. t \in Task
    BY <1>2, NewWorkType, TaskUpdates
  <2> QED BY <1>2, <2>1 DEF NewWork, BatchSaved
<1>4. /\ file' \in [Uploads -> {"free", "present", "stuck", "deleted"}]
      /\ file'[u] = "free" <=> file[u] = "free"
      /\ file'[u] # "present"
      /\ \A v \in Uploads \ {u} : file'[v] = file[v]
  <2>1. CASE OnDisk(u)
    BY <1>1, <1>2, <2>1, Typed DEF Unlink, OnDisk
  <2>2. CASE ~OnDisk(u)
    BY <1>1, <1>2, <2>2, Typed DEF Unlink, OnDisk
  <2> QED BY <2>1, <2>2
<1> HIDE DEF t
<1>5. /\ job' \in [Jobs -> Job] /\ job'[j] = result
      /\ work' \in [Jobs -> Task] /\ work'[j] = t /\ pc'[j] = "ended"
      /\ \A k \in Jobs \ {j} :
           job'[k] = job[k] /\ work'[k] = work[k] /\ pc'[k] = pc[k]
  BY <1>1, <1>3, Typed
<1>6. TypeOK'
  BY <1>1, <1>4, <1>5, Typed DEF TypeOK, Job, JobStatus, Task
<1>7. StatusTold'
  BY <1>5 DEF StatusTold, Idle, Over
<1>8. FilesInv'
  <2>1. \A k \in Jobs : work'[k].upload = work[k].upload
    BY <1>3, <1>5
  <2>2. \A k \in Jobs : work[k].upload \in Uploads
    BY Typed DEF Task
  <2>3. Over(j)' /\ \A k \in Jobs : Over(k) => Over(k)'
    BY <1>5 DEF Over
  <2>4. \A k \in Jobs : Shared(k) => Shared(k)'
    BY <2>1, <2>3 DEF Shared
  <2>5. \A k \in Jobs \ {j} : work[k].upload = u => Shared(k)'
    BY <2>1, <2>3 DEF Shared
  <2>6. file[u] # "free"
    BY DEF FilesInv, Idle
  <2>7. ASSUME NEW k \in Jobs \ {j}
        PROVE  (/\ Active(k) => OnDisk(work[k].upload) \/ Shared(k)
                /\ ~Idle(k) => file[work[k].upload] # "free"
                /\ job[k].error = "not found" => Shared(k)
                /\ Over(k) => file[work[k].upload] # "present")'
    <3>1. CASE work[k].upload = u
      <4>1. Shared(k)'
        BY <3>1, <2>5
      <4>2. file'[u] # "free" /\ file'[u] # "present" /\ work'[k].upload = u
        BY <1>4, <2>1, <2>6, <3>1
      <4> QED BY <4>1, <4>2
    <3>2. CASE work[k].upload # u
      <4>1. file'[work'[k].upload] = file[work[k].upload]
        BY <3>2, <1>4, <2>1, <2>2
      <4>2. job'[k] = job[k] /\ pc'[k] = pc[k]
        BY <1>5
      <4> QED BY <4>1, <4>2, <2>4 DEF FilesInv, Active, Idle, Over, OnDisk
    <3> QED BY <3>1, <3>2
  <2>8. (/\ Active(j) => OnDisk(work[j].upload) \/ Shared(j)
         /\ ~Idle(j) => file[work[j].upload] # "free"
         /\ job[j].error = "not found" => Shared(j)
         /\ Over(j) => file[work[j].upload] # "present")'
    BY <1>4, <1>5, <2>1, <2>4, <2>6 DEF Active
  <2> QED BY <2>7, <2>8 DEF FilesInv
<1>9. WorkSound'
  BY <1>3, <1>5, NoGraphSound DEF WorkSound
<1>10. NothingLost'
  <2>1. ASSUME NEW k \in Jobs \ {j}, job'[k].status # "failed"
        PROVE  Held(work[k])'
    BY <2>1, <1>1, <1>5 DEF NothingLost, Held
  <2>2. ASSUME result.status # "failed"
        PROVE  Held(work[j])'
    <3>1. Held(w) /\ BatchSaved(w)
      BY <2>2 DEF NothingLost, StatusTold
    <3> QED BY <1>1, <1>3, <1>5, <3>1, NoGraphSound DEF Held, BatchSaved
  <2> QED BY <1>5, <2>1, <2>2 DEF NothingLost
<1>11. Finished'
  BY <1>3, <1>5 DEF Finished, Completed, BatchSaved
<1>12. SchemaHolds'
  BY <1>1 DEF SchemaHolds
<1> QED BY <1>6, <1>7, <1>8, <1>9, <1>10, <1>11, <1>12

LEMMA CompleteInvariant ==
  ASSUME IInv, NEW j \in Jobs, Complete(j)
  PROVE  IInv'
<1> DEFINE w == work[j]
           result == [status |-> "completed", error |-> "none",
                      total_nodes |-> w.found.node_count,
                      total_edges |-> w.found.edge_count]
<1>1. /\ pc[j] = "running" /\ BatchSaved(w) /\ NextBatch(w) = <<>>
      /\ End(j, result)
  BY DEF Complete, Ready
<1>2. w \in Task /\ w.read <= Len(Rows[w.upload])
  BY Typed DEF IInv, WorkSound
<1>3. result \in Job
  BY <1>2 DEF Task, Graph, Job, JobStatus
<1>4. w.read = Len(Rows[w.upload])
  BY <1>1, <1>2, NextBatchLength
<1> QED BY <1>1, <1>3, <1>4, EndInvariant

\* The file of a job that does not find it was deleted by another job.
LEMMA NotFoundInvariant ==
  ASSUME IInv, NEW j \in Jobs, NotFound(j)
  PROVE  IInv'
<1> DEFINE result == [job[j] EXCEPT !.status = "failed", !.error = "not found"]
<1>1. pc[j] = "running" /\ ~OnDisk(work[j].upload) /\ End(j, result)
  BY DEF NotFound, Ready, Missing
<1>2. Shared(j)
  BY <1>1 DEF IInv, FilesInv, Active
<1>3. result \in Job /\ result.status = "failed"
  <2>1. job[j] \in Job
    BY Typed DEF IInv
  <2> QED BY <2>1 DEF Job, JobStatus
<1> QED BY <1>1, <1>2, <1>3, EndInvariant

LEMMA FailInvariant ==
  ASSUME IInv, NEW j \in Jobs, Fail(j)
  PROVE  IInv'
<1> DEFINE result == [job[j] EXCEPT !.status = "failed", !.error = "other"]
<1>1. pc[j] = "running" /\ End(j, result)
  BY DEF Fail
<1>2. result \in Job /\ result.status = "failed" /\ result.error = "other"
  <2>1. job[j] \in Job
    BY Typed DEF IInv
  <2> QED BY <2>1 DEF Job, JobStatus
<1> QED BY <1>1, <1>2, EndInvariant

LEMMA RestartInvariant ==
  ASSUME IInv, Restart
  PROVE  IInv'
<1> USE DEF IInv
<1>1. /\ UNCHANGED <<file, graph, deleted>>
      /\ job' = [j \in Jobs |-> NoJob]
      /\ work' = [j \in Jobs |-> NewWork(work[j].upload)]
      /\ pc' = [j \in Jobs |-> IF job[j] # NoJob THEN "gone" ELSE pc[j]]
  BY DEF Restart
<1>2. \A j \in Jobs : work[j].upload \in Uploads
  BY Typed DEF Task
<1>3. /\ NoJob \in Job /\ NoJob.status = "unknown" /\ NoJob.error = "none"
  BY DEF NoJob, Job, JobStatus
<1>4. \A j \in Jobs : job'[j] = NoJob /\ work'[j] = NewWork(work[j].upload)
  BY <1>1
<1>5. \A j \in Jobs : Idle(j)'
  <2>1. \A j \in Jobs : pc[j] \in {"queued", "running", "ended"} => job[j] # NoJob
    BY <1>3 DEF StatusTold, Over
  <2>2. \A j \in Jobs :
          pc[j] \in {"idle", "queued", "running", "ended", "gone"}
    BY Typed
  <2> QED BY <1>1, <2>1, <2>2 DEF Idle
<1>6. TypeOK'
  <2>1. pc' \in [Jobs -> {"idle", "queued", "running", "ended", "gone"}]
    BY <1>1, Typed
  <2>2. work' \in [Jobs -> Task]
    BY <1>1, <1>2, NewWorkType
  <2> QED BY <1>1, <1>3, <2>1, <2>2, Typed DEF TypeOK, Job, JobStatus, Task
<1>7. StatusTold'
  BY <1>4, <1>5 DEF StatusTold, Idle
<1>8. FilesInv'
  BY <1>3, <1>4, <1>5 DEF FilesInv, Active, Idle, Over
<1>9. WorkSound'
  BY <1>2, <1>4, NewWorkType, NoGraphSound, RowsType DEF WorkSound
<1>10. NothingLost'
  BY <1>2, <1>4, NewWorkType, NoGraphSound DEF NothingLost, Held
<1>11. Finished'
  BY <1>3, <1>4 DEF Finished, Completed
<1>12. SchemaHolds'
  BY <1>1 DEF SchemaHolds
<1> QED BY <1>6, <1>7, <1>8, <1>9, <1>10, <1>11, <1>12

LEMMA DeleteNodeInvariant ==
  ASSUME IInv, NEW n, DeleteNode(n)
  PROVE  IInv'
<1> USE DEF IInv
<1>1. /\ UNCHANGED <<file, job, pc, work>>
      /\ n \in graph.nodes /\ deleted' = deleted \cup {n}
      /\ graph'.nodes = graph.nodes \ {n}
      /\ graph'.edges = {e \in graph.edges : n \notin Ends(e)}
      /\ graph' \in [nodes: SUBSET Node, edges: SUBSET Edge]
  BY Typed DEF DeleteNode
<1>2. TypeOK'
  BY <1>1, Typed DEF TypeOK, Job, JobStatus, Task
<1>3. StatusTold' /\ FilesInv' /\ WorkSound' /\ Finished'
  BY <1>1
  DEF StatusTold, FilesInv, WorkSound, Finished, Idle, Active, Over, Shared,
      OnDisk, Completed, BatchSaved
<1>4. ASSUME NEW j \in Jobs, Held(work[j]) PROVE Held(work[j])'
  BY <1>1, <1>4 DEF Held
<1>5. NothingLost'
  BY <1>1, <1>4 DEF NothingLost
<1>6. SchemaHolds'
  BY <1>1 DEF SchemaHolds
<1> QED BY <1>2, <1>3, <1>5, <1>6

LEMMA UnchangedInvariant == IInv /\ UNCHANGED vars => IInv'
<1> SUFFICES ASSUME IInv, UNCHANGED vars PROVE IInv'
  OBVIOUS
<1> USE DEF IInv, vars
<1>1. TypeOK' /\ SchemaHolds'
  BY DEF TypeOK, SchemaHolds
<1>2. StatusTold' /\ FilesInv'
  BY DEF StatusTold, FilesInv, Idle, Active, Over, Shared, OnDisk
<1>3. WorkSound' /\ NothingLost' /\ Finished'
  BY DEF WorkSound, NothingLost, Held, Finished, Completed, BatchSaved
<1> QED BY <1>1, <1>2, <1>3

LEMMA NextInvariant == IInv /\ [Next]_vars => IInv'
<1> SUFFICES ASSUME IInv, [Next]_vars PROVE IInv'
  OBVIOUS
<1>1. CASE \E u \in Uploads : Upload(u)
  BY <1>1, UploadInvariant
<1>2. CASE \E j \in Jobs, u \in Uploads : Ingest(j, u)
  BY <1>2, IngestInvariant
<1>3. CASE \E j \in Jobs : Run(j)
  <2>1. PICK j \in Jobs : Run(j)
    BY <1>3
  <2>2. CASE Start(j)
    BY <2>2, StartInvariant
  <2>3. CASE ReadBatch(j)
    BY <2>3, ReadBatchInvariant
  <2>4. CASE \E l \in Labels : SaveNodes(j, l)
    BY <2>4, SaveNodesInvariant
  <2>5. CASE \E t \in DOMAIN ValidRelations : SaveEdges(j, t)
    BY <2>5, SaveEdgesInvariant
  <2>6. CASE Complete(j)
    BY <2>6, CompleteInvariant
  <2>7. CASE NotFound(j)
    BY <2>7, NotFoundInvariant
  <2> QED BY <2>1, <2>2, <2>3, <2>4, <2>5, <2>6, <2>7 DEF Run
<1>4. CASE \E j \in Jobs : Fail(j)
  BY <1>4, FailInvariant
<1>5. CASE Restart
  BY <1>5, RestartInvariant
<1>6. CASE \E n \in Deletable : DeleteNode(n)
  BY <1>6, DeleteNodeInvariant
<1>7. CASE Rest \/ UNCHANGED vars
  BY <1>7, UnchangedInvariant DEF Rest
<1> QED BY <1>1, <1>2, <1>3, <1>4, <1>5, <1>6, <1>7 DEF Next

-----------------------------------------------------------------------------
(* Theorems                                                                 *)

\* The inductive invariant holds of every state (api/routes/ingest.py,
\* ingestion/pipeline.py).
THEOREM Invariance == Spec => []IInv
<1>1. Init => IInv
  BY InitInvariant
<1>2. IInv /\ [Next]_vars => IInv'
  BY NextInvariant
<1> QED BY <1>1, <1>2, PTL DEF Spec

\* Whatever the LLM extracts, and however jobs, deletions and restarts
\* interleave, the edges in Neo4j join nodes that are there and keep to
\* VALID_RELATIONS (extractor.py, _batch_merge_edges).
THEOREM GraphStaysSound == Spec => []GraphSound
<1>1. IInv => GraphSound
  BY DEF IInv, GraphSound
<1> QED BY <1>1, Invariance, PTL

\* A job that is told to be completed has read all of its file, and all it has
\* found is stored, but for what an administrator deleted (pipeline.py run).
THEOREM CompletedJobsAreStored == Spec => []CompletedIsStored
<1>1. IInv => CompletedIsStored
  <2> SUFFICES ASSUME IInv, NEW j \in Jobs, Completed(j)
               PROVE  LET found == work[j].found IN
                      /\ work[j].read = Len(Rows[work[j].upload])
                      /\ found.nodes \ deleted \subseteq graph.nodes
                      /\ {e \in found.edges : Ends(e) \cap deleted = {}}
                           \subseteq graph.edges
    BY DEF CompletedIsStored
  <2>1. BatchSaved(work[j]) /\ work[j].read = Len(Rows[work[j].upload])
    BY DEF IInv, Finished
  <2>2. Held(work[j])
    BY DEF IInv, NothingLost, Completed
  <2> QED BY <2>1, <2>2 DEF Held, BatchSaved
<1> QED BY <1>1, Invariance, PTL

\* The file of a job is on disk until a job on it ends, and not after that
\* (ingest.py _run_ingestion_job, finally).
THEOREM FilesAreKept == Spec => []FilesKeptWhileNeeded
<1>1. IInv => FilesKeptWhileNeeded
  BY DEF IInv, FilesInv, FilesKeptWhileNeeded, MissingOnlyIfShared, NoFileLeft,
         Shared, Over
<1> QED BY <1>1, Invariance, PTL

-----------------------------------------------------------------------------
(* The way to an end                                                         *)

ToRead(w) == Len(Rows[w.upload]) - w.read

Fewer(S, T) == S \subseteq T /\ S # T

\* The task is over, has started, or has less of its file to read; or it has read
\* as much and has fewer labels to save; or it has saved as many labels and has
\* fewer types to save.
Nearer(j) ==
  LET w == work[j] IN
  \/ pc'[j] \in {"ended", "gone"}
  \/ pc[j] = "queued" /\ pc'[j] = "running" /\ work'[j] = w
  \/ /\ pc[j] = "running" /\ pc'[j] = "running"
     /\ ToRead(work'[j]) \in 0 .. ToRead(w)
     /\ \/ ToRead(work'[j]) # ToRead(w)
        \/ Fewer(work'[j].labels, w.labels) /\ work'[j].types = w.types
        \/ work'[j].labels = w.labels /\ Fewer(work'[j].types, w.types)

\* Every step of a job brings it nearer to its end, and nothing that other jobs,
\* an administrator or a restart do takes it back (the loop of pipeline.py run,
\* which reads at least one document each time round).  What a client was told
\* of a job that is over stays so until a restart forgets it (job_store.py).
JobsAdvance ==
  [][\A j \in Jobs :
       /\ Run(j) => Nearer(j)
       /\ Active(j) => Nearer(j) \/ (pc'[j] = pc[j] /\ work'[j] = work[j])
       /\ Over(j) => job'[j] \in {job[j], NoJob}]_vars

\* What a job has still to save can be counted.
SavesEnd ==
  \A j \in Jobs : IsFiniteSet(work[j].labels) /\ IsFiniteSet(work[j].types)

\* What a batch leaves to do.
LEMMA ReadBatchIs ==
  ASSUME NEW j \in Jobs, ReadBatch(j)
  PROVE  \E g \in BatchGraphs(NextBatch(work[j])) :
           work' = [work EXCEPT ![j] = [work[j] EXCEPT
                      !.read = @ + Len(NextBatch(work[j])),
                      !.batch = g,
                      !.found = Joined(@, g),
                      !.labels = {Label(n) : n \in g.nodes},
                      !.types = {Type(e) : e \in g.edges}]]
BY Zenon DEF ReadBatch, Work

\* The batch that was read next is not empty.
LEMMA ReadBatchNearer ==
  ASSUME IInv, NEW j \in Jobs, ReadBatch(j)
  PROVE  Nearer(j)
<1> DEFINE w == work[j]
           n == Len(NextBatch(w))
<1>1. w \in Task /\ w.upload \in Uploads /\ w.read \in Nat
  BY Typed DEF IInv, Task
<1>2. w.read <= Len(Rows[w.upload])
  BY DEF IInv, WorkSound
<1>3. /\ NextBatch(w) \in Seq(Documents) /\ n \in Nat
      /\ w.read + n <= Len(Rows[w.upload])
  BY <1>1, <1>2, NextBatchLength
<1>4. NextBatch(w) # <<>> /\ pc[j] = "running" /\ pc' = pc
  BY DEF ReadBatch, Ready
<1>5. n # 0
  BY <1>3, <1>4, EmptySeq
<1>6. PICK g : work' = [work EXCEPT ![j] = [w EXCEPT
                          !.read = @ + n, !.batch = g, !.found = Joined(@, g),
                          !.labels = {Label(x) : x \in g.nodes},
                          !.types = {Type(e) : e \in g.edges}]]
  BY ReadBatchIs, Zenon
<1> HIDE DEF n
<1>7. work'[j].read = w.read + n /\ work'[j].upload = w.upload
  BY <1>1, <1>6, Typed DEF IInv, Task
<1>8. Len(Rows[w.upload]) \in Nat
  BY <1>1, RowsType
<1>9. /\ ToRead(w) = Len(Rows[w.upload]) - w.read
      /\ ToRead(work'[j]) = Len(Rows[w.upload]) - (w.read + n)
  BY <1>7 DEF ToRead
<1> HIDE DEF w
<1>10. ToRead(work'[j]) \in 0 .. ToRead(w) /\ ToRead(work'[j]) # ToRead(w)
  <2>1. PICK a \in Nat, b \in Nat, c \in Nat \ {0} :
          a = Len(Rows[w.upload]) /\ b = w.read /\ c = n
    BY <1>1, <1>3, <1>5, <1>8
  <2>2. ToRead(w) = a - b /\ ToRead(work'[j]) = a - (b + c) /\ b + c <= a
    BY <1>3, <1>9, <2>1
  <2> QED BY <2>2
<1> QED BY <1>4, <1>10 DEF Nearer, w

\* A save takes one label, or one type, off those that wait.
LEMMA SaveNearer ==
  ASSUME IInv, NEW j \in Jobs,
         \/ \E l \in Labels : SaveNodes(j, l)
         \/ \E t \in DOMAIN ValidRelations : SaveEdges(j, t)
  PROVE  Nearer(j)
<1> DEFINE w == work[j]
<1>1. w \in Task /\ w.upload \in Uploads /\ w.read \in Nat
  BY Typed DEF IInv, Task
<1>2. pc[j] = "running" /\ pc' = pc
  BY DEF SaveNodes, SaveEdges
<1>3. \/ \E l \in w.labels : work' = [work EXCEPT ![j] = [w EXCEPT !.labels = @ \ {l}]]
      \/ \E t \in w.types : work' = [work EXCEPT ![j] = [w EXCEPT !.types = @ \ {t}]]
  BY DEF SaveNodes, SaveEdges, Work
<1>4. /\ work'[j].read = w.read /\ work'[j].upload = w.upload
      /\ \/ \E l \in w.labels : work'[j].labels = w.labels \ {l} /\ work'[j].types = w.types
         \/ \E t \in w.types : work'[j].types = w.types \ {t} /\ work'[j].labels = w.labels
  BY <1>1, <1>3, Typed DEF IInv, Task
<1>5. ToRead(work'[j]) = ToRead(w)
  BY <1>4 DEF ToRead
<1>6. ToRead(w) \in Nat
  <2>1. w.read <= Len(Rows[w.upload])
    BY DEF IInv, WorkSound
  <2>2. Len(Rows[w.upload]) \in Nat
    BY <1>1, RowsType
  <2> QED BY <1>1, <2>1, <2>2 DEF ToRead
<1>7. \/ Fewer(work'[j].labels, w.labels) /\ work'[j].types = w.types
      \/ work'[j].labels = w.labels /\ Fewer(work'[j].types, w.types)
  BY <1>4 DEF Fewer
<1> HIDE DEF w
<1>8. ToRead(work'[j]) \in 0 .. ToRead(w)
  BY <1>5, <1>6
<1> QED BY <1>2, <1>7, <1>8 DEF Nearer, w

LEMMA EndNearer ==
  ASSUME IInv, NEW j \in Jobs, NEW result, End(j, result)
  PROVE  Nearer(j)
<1>1. pc'[j] = "ended"
  BY Typed DEF End, Goto, IInv
<1> QED BY <1>1 DEF Nearer

LEMMA RunNearer ==
  ASSUME IInv, NEW j \in Jobs, Run(j) \/ Fail(j)
  PROVE  Nearer(j)
<1>1. CASE Start(j)
  BY <1>1, Typed DEF IInv, Start, Goto, Nearer
<1>2. CASE ReadBatch(j)
  BY <1>2, ReadBatchNearer
<1>3. CASE \/ \E l \in Labels : SaveNodes(j, l)
           \/ \E t \in DOMAIN ValidRelations : SaveEdges(j, t)
  BY <1>3, SaveNearer
<1>4. CASE Complete(j) \/ NotFound(j) \/ Fail(j)
  BY <1>4, EndNearer DEF Complete, NotFound, Fail
<1> QED BY <1>1, <1>2, <1>3, <1>4 DEF Run

\* A job that goes on, or is accepted, was not over; the others are left alone.
LEMMA OthersStay ==
  ASSUME IInv, NEW j \in Jobs,
         Run(j) \/ Fail(j) \/ \E u \in Uploads : Ingest(j, u)
  PROVE  /\ ~Over(j) /\ (Active(j) => Run(j) \/ Fail(j))
         /\ \A k \in Jobs \ {j} :
              pc'[k] = pc[k] /\ work'[k] = work[k] /\ job'[k] = job[k]
<1>1. pc[j] \in {"idle", "queued", "running"}
  <2>1. CASE Run(j)
    <3>1. pc[j] \in {"queued", "running"}
      BY <2>1, Zenon DEF Run, Start, ReadBatch, SaveNodes, SaveEdges, Complete, NotFound,
                         Ready
    <3> QED BY <3>1
  <2>2. CASE Fail(j)
    BY <2>2 DEF Fail
  <2>3. CASE \E u \in Uploads : Ingest(j, u)
    BY <2>3 DEF Ingest
  <2> QED BY <2>1, <2>2, <2>3
<1>2. ~Over(j)
  BY <1>1 DEF IInv, StatusTold, Idle, Over, NoJob
<1>3. Active(j) => Run(j) \/ Fail(j)
  BY DEF Ingest, Active
<1>4. ASSUME NEW k \in Jobs \ {j}
      PROVE  pc'[k] = pc[k] /\ work'[k] = work[k] /\ job'[k] = job[k]
  <2> USE Typed DEF IInv
  <2>1. CASE Start(j)
    BY <2>1 DEF Start, Goto
  <2>2. CASE ReadBatch(j)
    BY <2>2 DEF ReadBatch, Work
  <2>3. CASE \/ \E l \in Labels : SaveNodes(j, l)
             \/ \E t \in DOMAIN ValidRelations : SaveEdges(j, t)
    BY <2>3 DEF SaveNodes, SaveEdges, Work
  <2>4. CASE Complete(j) \/ NotFound(j) \/ Fail(j)
    BY <2>4 DEF Complete, NotFound, Fail, End, Goto, Work
  <2>5. CASE \E u \in Uploads : Ingest(j, u)
    BY <2>5 DEF Ingest, Goto, Work
  <2> QED BY <2>1, <2>2, <2>3, <2>4, <2>5 DEF Run
<1> QED BY <1>2, <1>3, <1>4

LEMMA RestartForgets ==
  ASSUME IInv, Restart, NEW j \in Jobs
  PROVE  job'[j] = NoJob /\ (Active(j) => pc'[j] = "gone")
<1>1. Active(j) => job[j] # NoJob
  BY DEF IInv, StatusTold, Active, NoJob
<1> QED BY <1>1 DEF Restart

\* However many jobs there are and whatever happens in between, a job ends after
\* finitely many steps of its own, and stays told as it ended: what JobsEnd needs
\* besides fairness.
THEOREM JobsComeToAnEnd == Spec => JobsAdvance
<1>1. ASSUME IInv, [Next]_vars, NEW j \in Jobs
      PROVE  /\ Run(j) => Nearer(j)
             /\ Active(j) => Nearer(j) \/ (pc'[j] = pc[j] /\ work'[j] = work[j])
             /\ Over(j) => job'[j] \in {job[j], NoJob}
  <2>1. Run(j) => Nearer(j)
    BY <1>1, RunNearer
  <2>2. /\ Active(j) => Nearer(j) \/ (pc'[j] = pc[j] /\ work'[j] = work[j])
        /\ Over(j) => job'[j] \in {job[j], NoJob}
    <3>1. ASSUME NEW k \in Jobs,
                 Run(k) \/ Fail(k) \/ \E u \in Uploads : Ingest(k, u)
          PROVE  /\ Active(j) => Nearer(j) \/ (pc'[j] = pc[j] /\ work'[j] = work[j])
                 /\ Over(j) => job'[j] \in {job[j], NoJob}
      <4>1. CASE k = j
        BY <1>1, <3>1, <4>1, OthersStay, RunNearer
      <4>2. CASE k # j
        BY <1>1, <3>1, <4>2, OthersStay
      <4> QED BY <4>1, <4>2
    <3>2. CASE Restart
      BY <1>1, <3>2, RestartForgets DEF Nearer
    <3>3. CASE \/ \E u \in Uploads : Upload(u)
               \/ \E n \in Deletable : DeleteNode(n)
               \/ Rest \/ UNCHANGED vars
      BY <3>3 DEF Upload, DeleteNode, Rest, vars
    <3> QED BY <1>1, <3>1, <3>2, <3>3 DEF Next
  <2> QED BY <2>1, <2>2
<1>2. IInv /\ [Next]_vars =>
        [\A j \in Jobs :
           /\ Run(j) => Nearer(j)
           /\ Active(j) => Nearer(j) \/ (pc'[j] = pc[j] /\ work'[j] = work[j])
           /\ Over(j) => job'[j] \in {job[j], NoJob}]_vars
  BY <1>1
<1> QED BY <1>2, Invariance, PTL DEF Spec, JobsAdvance

\* A set that is made of each element of a finite one is finite.
LEMMA ImageIsFinite ==
  ASSUME NEW S, NEW f, IsFiniteSet(S)
  PROVE  IsFiniteSet({f[x] : x \in S})
<1> DEFINE T == {f[x] : x \in S}
           g == [x \in S |-> f[x]]
<1>1. g \in Surjection(S, T)
  BY DEF Surjection
<1> QED BY <1>1, FS_Surjection

\* A batch is finite, because its replies are.
LEMMA BatchFinite ==
  ASSUME NEW docs \in Seq(Documents), NEW g \in BatchGraphs(docs)
  PROVE  IsFiniteSet(g.nodes) /\ IsFiniteSet(g.edges)
<1>1. PICK raws : /\ DOMAIN raws = DOMAIN docs
                  /\ \A i \in DOMAIN docs : raws[i] \in Answers(docs[i])
                  /\ g = BatchGraph(raws)
  BY DEF BatchGraphs
<1> DEFINE I == DOMAIN raws
<1>2. IsFiniteSet(I)
  <2>1. I = 1 .. Len(docs) /\ Len(docs) \in Nat
    BY <1>1
  <2> QED BY <2>1, FS_Interval
<1>3. ASSUME NEW i \in I
      PROVE  IsFiniteSet(NodesOf(raws[i])) /\ IsFiniteSet(EdgesOf(raws[i]))
  <2> DEFINE raw == raws[i]
             id == [k \in DOMAIN raw.nodes |-> EntityId(raw.nodes[k])]
             edge == [e \in KeptEdges(raw) |->
                        <<Referred(raw, e.from), e.type, Referred(raw, e.to)>>]
  <2>1. docs[i] \in Documents /\ raw \in Answers(docs[i])
    BY <1>1
  <2>2. IsFiniteSet(DOMAIN raw.nodes) /\ IsFiniteSet(KeptEdges(raw))
    BY <2>1, ReplyFinite
  <2>3. IsFiniteSet({id[k] : k \in DOMAIN raw.nodes})
    BY <2>2, ImageIsFinite
  <2>4. IsFiniteSet({edge[e] : e \in KeptEdges(raw)})
    BY <2>2, ImageIsFinite
  <2>5. {id[k] : k \in DOMAIN raw.nodes} = NodesOf(raw)
    BY DEF NodesOf
  <2>6. {edge[e] : e \in KeptEdges(raw)} = EdgesOf(raw)
    BY DEF EdgesOf
  <2> QED BY <2>3, <2>4, <2>5, <2>6
<1> DEFINE ns == [i \in I |-> NodesOf(raws[i])]
           es == [i \in I |-> EdgesOf(raws[i])]
<1>4. IsFiniteSet({ns[i] : i \in I}) /\ IsFiniteSet({es[i] : i \in I})
  BY <1>2, ImageIsFinite
<1>5. g.nodes = UNION {ns[i] : i \in I} /\ g.edges = UNION {es[i] : i \in I}
  BY <1>1 DEF BatchGraph
<1>6. /\ \A S \in {ns[i] : i \in I} : IsFiniteSet(S)
      /\ \A S \in {es[i] : i \in I} : IsFiniteSet(S)
  BY <1>3
<1> QED BY <1>4, <1>5, <1>6, FS_UNION

\* A fact of the data that counting a job's steps rests on: what an extraction
\* finds is finite, so a job has finitely many labels and types to save.
LEMMA SavesAreFinite == Spec => []SavesEnd
<1>1. Init => SavesEnd
  <2>1. \A u : NewWork(u).labels = {} /\ NewWork(u).types = {}
    BY DEF NewWork
  <2>2. ASSUME NEW u, work = [j \in Jobs |-> NewWork(u)]
        PROVE  SavesEnd
    BY <2>1, <2>2, FS_EmptySet DEF SavesEnd
  <2> QED BY <2>2 DEF Init
<1>2. ASSUME IInv, SavesEnd, [Next]_vars
      PROVE  SavesEnd'
  <2> DEFINE Fin(w) == IsFiniteSet(w.labels) /\ IsFiniteSet(w.types)
  <2>0. work \in [Jobs -> Task] /\ \A j \in Jobs : Fin(work[j])
    BY <1>2, Typed DEF IInv, SavesEnd
  <2>1. \A u : Fin(NewWork(u)) /\ NewWork(u).read = 0
    BY FS_EmptySet DEF NewWork
  <2>2. ASSUME NEW j \in Jobs, NEW w, work' = [work EXCEPT ![j] = w], Fin(w)
        PROVE  SavesEnd'
    BY <2>0, <2>2 DEF SavesEnd
  <2>3. CASE UNCHANGED work
    BY <1>2, <2>3 DEF SavesEnd
  <2>4. ASSUME NEW j \in Jobs, ReadBatch(j)
        PROVE  SavesEnd'
    <3> DEFINE v == work[j]
               docs == NextBatch(v)
    <3>1. PICK g \in BatchGraphs(docs) :
            work' = [work EXCEPT ![j] = [v EXCEPT
                       !.read = @ + Len(docs), !.batch = g, !.found = Joined(@, g),
                       !.labels = {Label(n) : n \in g.nodes},
                       !.types = {Type(e) : e \in g.edges}]]
      BY <2>4, ReadBatchIs, Zenon
    <3>2. v \in Task /\ v.read <= Len(Rows[v.upload])
      BY <1>2, <2>0 DEF IInv, WorkSound
    <3>3. docs \in Seq(Documents)
      BY <3>2, NextBatchLength
    <3>4. IsFiniteSet(g.nodes) /\ IsFiniteSet(g.edges)
      BY <3>3, BatchFinite
    <3> DEFINE ll == [n \in g.nodes |-> Label(n)]
               tt == [e \in g.edges |-> Type(e)]
    <3>5. IsFiniteSet({ll[n] : n \in g.nodes}) /\ IsFiniteSet({tt[e] : e \in g.edges})
      BY <3>4, ImageIsFinite
    <3>6. /\ {ll[n] : n \in g.nodes} = {Label(n) : n \in g.nodes}
          /\ {tt[e] : e \in g.edges} = {Type(e) : e \in g.edges}
      OBVIOUS
    <3> DEFINE r == v.read + Len(docs)
               f == Joined(v.found, g)
               L == {Label(n) : n \in g.nodes}
               Y == {Type(e) : e \in g.edges}
               w == [v EXCEPT !.read = r, !.batch = g, !.found = f, !.labels = L,
                              !.types = Y]
    <3>7. work' = [work EXCEPT ![j] = w]
      BY <3>1
    <3>8. IsFiniteSet(L) /\ IsFiniteSet(Y)
      BY <3>5, <3>6
    <3> HIDE DEF r, f, L, Y, v
    <3>9. Fin(w)
      BY <3>2, <3>8 DEF Task
    <3> QED BY <2>2, <3>7, <3>9
  <2>5. ASSUME NEW j \in Jobs,
               \/ \E l \in Labels : SaveNodes(j, l)
               \/ \E t \in DOMAIN ValidRelations : SaveEdges(j, t)
        PROVE  SavesEnd'
    <3>1. PICK l, t : LET v == work[j] IN
            \/ work' = [work EXCEPT ![j] = [v EXCEPT !.labels = @ \ {l}]]
            \/ work' = [work EXCEPT ![j] = [v EXCEPT !.types = @ \ {t}]]
      BY <2>5 DEF SaveNodes, SaveEdges, Work
    <3>2. Fin(work[j]) /\ work[j] \in Task
      BY <2>0
    <3>3. IsFiniteSet(work[j].labels \ {l}) /\ IsFiniteSet(work[j].types \ {t})
      BY <3>2, FS_Subset
    <3>4. /\ Fin([work[j] EXCEPT !.labels = @ \ {l}])
          /\ Fin([work[j] EXCEPT !.types = @ \ {t}])
      BY <3>2, <3>3 DEF Task
    <3> QED BY <2>2, <3>1, <3>4
  <2>6. ASSUME NEW j \in Jobs, NEW result, End(j, result)
        PROVE  SavesEnd'
    <3> DEFINE w == [NewWork(work[j].upload) EXCEPT !.read = work[j].read,
                                                     !.found = work[j].found]
    <3>1. work' = [work EXCEPT ![j] = w]
      BY <2>6 DEF End, Work
    <3>2. Fin(w)
      BY FS_EmptySet DEF NewWork
    <3> QED BY <2>2, <3>1, <3>2
  <2>7. ASSUME NEW j \in Jobs, NEW u \in Uploads, Ingest(j, u)
        PROVE  SavesEnd'
    BY <2>1, <2>2, <2>7 DEF Ingest, Work
  <2>8. CASE Restart
    BY <2>1, <2>8 DEF Restart, SavesEnd
  <2>9. ASSUME NEW j \in Jobs, Run(j) \/ Fail(j)
        PROVE  SavesEnd'
    <3>1. CASE Start(j)
      BY <2>3, <3>1 DEF Start
    <3>2. CASE Complete(j) \/ NotFound(j) \/ Fail(j)
      BY <2>6, <3>2 DEF Complete, NotFound, Fail
    <3> QED BY <2>4, <2>5, <2>9, <3>1, <3>2 DEF Run
  <2>10. CASE \/ \E u \in Uploads : Upload(u)
              \/ \E n \in Deletable : DeleteNode(n)
              \/ Rest \/ UNCHANGED vars
    BY <2>3, <2>10 DEF Upload, DeleteNode, Rest, vars
  <2> QED BY <1>2, <2>7, <2>8, <2>9, <2>10 DEF Next
<1>3. IInv /\ SavesEnd /\ [Next]_vars => SavesEnd'
  BY <1>2
<1> QED BY <1>1, <1>3, Invariance, PTL DEF Spec
=============================================================================
