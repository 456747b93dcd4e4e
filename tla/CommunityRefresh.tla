-------------------------- MODULE CommunityRefresh --------------------------
(***************************************************************************)
(* Communities are recomputed by services/community_batch_service.py with   *)
(* the primitives of services/gds_service.py.  A refresh holds a lock; the  *)
(* endpoints of api/routes/analytics.py use the same two projections, the   *)
(* same SIMILAR relationships and the same communityId without it.          *)
(*                                                                         *)
(* A primitive is a job for a pool of threads and makes several calls to    *)
(* the database; a call is one step.  Projections are named: a job works    *)
(* on whatever has the name when the call is made.                          *)
(***************************************************************************)
EXTENDS Integers, FiniteSets

CONSTANTS
  Tasks,        \* requests, each used once
  Allowed,      \* the kinds of request each may be
  Workers,      \* threads of the pool
  MaxFaults,    \* database calls that fail, and restarts of the process
  None

ASSUME ConstantsAssumption ==
  /\ Workers \in Nat \ {0}
  /\ MaxFaults \in Nat

VARIABLES
  pc,        \* where each request is
  kind,      \* what it is
  todo,      \* the projections it has yet to drop
  rescuing,  \* refreshes that clean up after an error
  lock,      \* the request that holds _refresh_lock
  graph,     \* the projections: the similarities they were made of
  similar,   \* the requests that wrote the SIMILAR relationships there are
  ids,       \* who wrote communityId, and from which similarities
  meta,      \* the refresh CommunityMeta tells of
  faults,    \* failed calls and restarts so far
  failed,    \* observed: requests a call of which has failed
  kept,      \* observed: requests that failed to drop a projection
  mixed      \* observed: refreshes open together with another kind of request

vars == <<pc, kind, todo, rescuing, lock, graph, similar, ids, meta, faults,
          failed, kept, mixed>>
stored == <<graph, similar, ids, meta>>
environment == <<kind, faults, failed, kept, mixed>>

-----------------------------------------------------------------------------

Projections == {"skill", "bipartite"}

Ended == {"done", "failed", "conflict", "killed"}
Open == {t \in Tasks : pc[t] \notin Ended \cup {"idle"}}

\* The jobs, and the first call of each.
First == [cleanup |-> "list", create |-> "clear", detect |-> "exists",
          drop |-> "lookup", info |-> "look"]

\* The projection stays after the communities are there.
RefreshMutantKeeps ==
  [start |-> "cleanup", cleanup |-> "create", create |-> "detect",
   detect |-> "save", save |-> "done"]

\* The status is written before the communities.
RefreshMutantTellsFirst ==
  [start |-> "cleanup", cleanup |-> "create", create |-> "save",
   save |-> "detect", detect |-> "drop", drop |-> "done"]

\* _run_refresh: what follows each of its jobs.
Refresh ==
  [start |-> "cleanup", cleanup |-> "create", create |-> "detect",
   detect |-> "save", save |-> "drop", drop |-> "done"]

\* What follows a job of a request: the refresh and the endpoints.
After ==
  [refresh |-> Refresh,
   create |-> [start |-> "create", create |-> "done"],
   delete |-> [start |-> "drop", drop |-> "done"],
   cleanup |-> [start |-> "cleanup", cleanup |-> "done"],
   detect |-> [start |-> "info", info |-> "detect", create |-> "detect",
               detect |-> "done"],
   recommend |-> [start |-> "info", info |-> "done", create |-> "done"]]

ASSUME KindsAssumption == Allowed \in [Tasks -> SUBSET DOMAIN After]

\* None stands for no request, no kind, no projection and no communities.
ASSUME NoneAssumption ==
  /\ None \notin Tasks \cup DOMAIN After
  /\ \A S \in SUBSET Tasks : None # S /\ \A t \in Tasks : None # [by |-> t, from |-> S]

\* The lock stays with a refresh that failed.
ReleasesMutant(l) == l = "done"

\* The end of a refresh, whatever it is, leaves the block of the lock.
Releases(l) == l \in Ended

Goto(t, l) ==
  /\ pc' = [pc EXCEPT ![t] = l]
  /\ lock' = IF lock = t /\ Releases(l) THEN None ELSE lock

Return(t, job) == Goto(t, After[kind[t]][job])

\* An exception: a refresh drops all projections before it passes it on.
Raise(t) ==
  IF kind[t] = "refresh" /\ t \notin rescuing
  THEN Goto(t, "cleanup") /\ rescuing' = rescuing \cup {t}
  ELSE Goto(t, "failed") /\ UNCHANGED rescuing

-----------------------------------------------------------------------------
(* Requests                                                                 *)

\* A lock of each request's own.
LockedMutant(k) == FALSE

Locked(k) == k = "refresh" /\ lock # None

\* A refresh is refused while the lock is held: between the look at the lock
\* and taking it nothing else runs.
Ask(t, k) ==
  /\ pc[t] = "idle"
  /\ kind' = [kind EXCEPT ![t] = k]
  /\ IF Locked(k) THEN /\ pc' = [pc EXCEPT ![t] = "conflict"]
                       /\ UNCHANGED <<lock, mixed>>
     ELSE /\ pc' = [pc EXCEPT ![t] = After[k].start]
          /\ lock' = IF k = "refresh" THEN t ELSE lock
          /\ mixed' = mixed \cup
               {u \in Open : kind[u] = "refresh" /\ k # "refresh"} \cup
               {u \in {t} : k = "refresh" /\ \E v \in Open : kind[v] # k}
  /\ UNCHANGED <<todo, rescuing, stored, faults, failed, kept>>

Working == {t \in Open : pc[t] \notin DOMAIN First \cup {"save"}}

\* A job that failed keeps its thread.
BusyMutant == Working \cup {t \in Tasks : pc[t] = "failed"}

Busy == Working

\* run_in_executor: a job waits for a thread of the pool.
Begin(t) ==
  /\ pc[t] \in DOMAIN First
  /\ Cardinality(Busy) < Workers
  /\ pc' = [pc EXCEPT ![t] = First[pc[t]]]
  /\ todo' = [todo EXCEPT ![t] = IF pc[t] = "create" THEN Projections ELSE {}]
  /\ UNCHANGED <<rescuing, lock, stored, environment>>

-----------------------------------------------------------------------------
(* Dropping projections: cleanup_all_projections (list, dropping) and       *)
(* _cleanup_projections before (clear) and after an error (undo).           *)

List(t) ==
  /\ pc[t] = "list"
  /\ Goto(t, "dropping")
  /\ todo' = [todo EXCEPT ![t] = {p \in Projections : graph[p] # None}]
  /\ UNCHANGED <<rescuing, stored, environment>>

DropOne(t, p) ==
  /\ pc[t] \in {"dropping", "clear", "undo"}
  /\ p \in todo[t]
  /\ todo' = [todo EXCEPT ![t] = @ \ {p}]
  /\ graph' = [graph EXCEPT ![p] = None]
  /\ UNCHANGED <<pc, rescuing, lock, similar, ids, meta, environment>>

Dropped(t) ==
  /\ pc[t] \in {"dropping", "clear", "undo"}
  /\ todo[t] = {}
  /\ CASE pc[t] = "clear" -> Goto(t, "similar") /\ UNCHANGED rescuing
       [] pc[t] = "undo" -> Raise(t)
       [] pc[t] = "dropping" ->
            IF t \in rescuing THEN Raise(t)
                              ELSE Return(t, "cleanup") /\ UNCHANGED rescuing
  /\ UNCHANGED <<todo, stored, environment>>

-----------------------------------------------------------------------------
(* create_skill_similarity_projection: _create                              *)

\* Only the projection by name is dropped.
UndoneMutant == {"skill"}

\* What _create drops after an error.
Undone == Projections

Undo(t) ==
  /\ Goto(t, "undo")
  /\ todo' = [todo EXCEPT ![t] = Undone]
  /\ UNCHANGED rescuing

\* Earlier relationships are left where they are.
LeftSimilarMutant == similar

LeftSimilar == {}

DeleteSimilar(t) ==
  /\ pc[t] = "similar"
  /\ Goto(t, "bipartite")
  /\ similar' = LeftSimilar
  /\ UNCHANGED <<todo, rescuing, graph, ids, meta, environment>>

\* Projecting to a name in use is an error.
Project(t, p, content, next) ==
  /\ IF graph[p] = None
     THEN /\ graph' = [graph EXCEPT ![p] = content]
          /\ Goto(t, next) /\ UNCHANGED <<todo, rescuing>>
     ELSE Undo(t) /\ UNCHANGED graph
  /\ UNCHANGED <<similar, ids, meta, environment>>

ProjectBipartite(t) ==
  /\ pc[t] = "bipartite"
  /\ Project(t, "bipartite", {}, "write")

\* nodeSimilarity.write adds its relationships to those there are.
WriteSimilar(t) ==
  /\ pc[t] = "write"
  /\ IF graph["bipartite"] # None
     THEN /\ similar' = similar \cup {t}
          /\ Goto(t, "discard") /\ UNCHANGED <<todo, rescuing>>
     ELSE Undo(t) /\ UNCHANGED similar
  /\ UNCHANGED <<graph, ids, meta, environment>>

\* graph.drop of a projection that is gone is no error.
DropBipartite(t) ==
  /\ pc[t] = "discard"
  /\ Goto(t, "project")
  /\ graph' = [graph EXCEPT !["bipartite"] = None]
  /\ UNCHANGED <<todo, rescuing, similar, ids, meta, environment>>

ProjectSkill(t) ==
  /\ pc[t] = "project"
  /\ Project(t, "skill", similar, After[kind[t]].create)

-----------------------------------------------------------------------------
(* get_projection_info, detect_communities, drop_projection, _save_metadata *)

\* The endpoints make the projection when there is none.
Look(t) ==
  /\ pc[t] = "look"
  /\ Goto(t, IF graph["skill"] = None THEN "create" ELSE "details")
  /\ UNCHANGED <<todo, rescuing, stored, environment>>

\* Its counts and labels: an error when the projection has gone meanwhile.
Details(t) ==
  /\ pc[t] = "details"
  /\ IF graph["skill"] = None THEN Raise(t)
                              ELSE Return(t, "info") /\ UNCHANGED rescuing
  /\ UNCHANGED <<todo, stored, environment>>

DetectExists(t) ==
  /\ pc[t] = "exists"
  /\ IF graph["skill"] = None THEN Raise(t)
                              ELSE Goto(t, "algorithm") /\ UNCHANGED rescuing
  /\ UNCHANGED <<todo, stored, environment>>

\* leiden.write or louvain.write
Algorithm(t) ==
  /\ pc[t] = "algorithm"
  /\ IF graph["skill"] = None THEN Raise(t) /\ UNCHANGED ids
     ELSE /\ ids' = [by |-> t, from |-> graph["skill"]]
          /\ Goto(t, "stats") /\ UNCHANGED rescuing
  /\ UNCHANGED <<todo, graph, similar, meta, environment>>

Stats(t) ==
  /\ pc[t] = "stats"
  /\ Return(t, "detect")
  /\ UNCHANGED <<todo, rescuing, stored, environment>>

SaveMeta(t) ==
  /\ pc[t] = "save"
  /\ meta' = t
  /\ Return(t, "save")
  /\ UNCHANGED <<todo, rescuing, graph, similar, ids, environment>>

DropExists(t) ==
  /\ pc[t] = "lookup"
  /\ IF graph["skill"] = None THEN Return(t, "drop") ELSE Goto(t, "remove")
  /\ UNCHANGED <<todo, rescuing, stored, environment>>

\* graph.get of a projection that has gone meanwhile is an error.
Drop(t) ==
  /\ pc[t] = "remove"
  /\ IF graph["skill"] = None THEN Raise(t)
                              ELSE Return(t, "drop") /\ UNCHANGED rescuing
  /\ graph' = [graph EXCEPT !["skill"] = None]
  /\ UNCHANGED <<todo, similar, ids, meta, environment>>
-----------------------------------------------------------------------------
(* Failures                                                                 *)

\* A call fails.  Errors of dropping are logged and forgotten; one of the
\* other calls of _create has its projections dropped; the rest are raised.
CallFails(t) ==
  /\ pc[t] \in {"save"} \cup {pc[u] : u \in Working}
  /\ faults < MaxFaults
  /\ faults' = faults + 1
  /\ failed' = failed \cup {t}
  /\ \/ /\ pc[t] = "list"
        /\ Goto(t, "dropping")
        /\ kept' = kept \cup {t}
        /\ UNCHANGED <<todo, rescuing>>
     \/ /\ pc[t] \in {"dropping", "clear", "undo"}
        /\ \E p \in todo[t] : todo' = [todo EXCEPT ![t] = @ \ {p}]
        /\ kept' = kept \cup {t}
        /\ UNCHANGED <<pc, rescuing, lock>>
     \/ /\ pc[t] \in {"similar", "bipartite", "write", "discard", "project"}
        /\ Undo(t)
        /\ UNCHANGED kept
     \/ /\ pc[t] \in {"look", "details", "exists", "algorithm", "stats", "save",
                      "lookup", "remove"}
        /\ Raise(t)
        /\ UNCHANGED <<todo, kept>>
  /\ UNCHANGED <<kind, stored, mixed>>

\* The lock and the jobs are the process's own, projections the database's.
Restart ==
  /\ faults < MaxFaults
  /\ faults' = faults + 1
  /\ pc' = [t \in Tasks |-> IF t \in Open THEN "killed" ELSE pc[t]]
  /\ lock' = None
  /\ UNCHANGED <<kind, todo, rescuing, stored, failed, kept, mixed>>

-----------------------------------------------------------------------------

Init ==
  /\ pc = [t \in Tasks |-> "idle"]
  /\ kind = [t \in Tasks |-> None]
  /\ todo = [t \in Tasks |-> {}]
  /\ rescuing = {}
  /\ lock = None
  /\ graph = [p \in Projections |-> None]
  /\ similar = {}
  /\ ids = None
  /\ meta = None
  /\ faults = 0
  /\ failed = {} /\ kept = {} /\ mixed = {}

Step(t) ==
  \/ Begin(t)
  \/ List(t) \/ (\E p \in Projections : DropOne(t, p)) \/ Dropped(t)
  \/ DeleteSimilar(t) \/ ProjectBipartite(t) \/ WriteSimilar(t)
  \/ DropBipartite(t) \/ ProjectSkill(t)
  \/ Look(t) \/ Details(t)
  \/ DetectExists(t) \/ Algorithm(t) \/ Stats(t)
  \/ SaveMeta(t)
  \/ DropExists(t) \/ Drop(t)

Next ==
  \/ \E t \in Tasks : \/ \E k \in Allowed[t] : Ask(t, k)
                      \/ Step(t)
                      \/ CallFails(t)
  \/ Restart

Spec == Init /\ [][Next]_vars

\* Every call to the database comes back, and the pool serves every job.
FairSpec == Spec /\ \A t \in Tasks : WF_vars(Step(t))

-----------------------------------------------------------------------------
(* Properties                                                               *)

\* Requests are at the steps of their kind, the lock is held by an open
\* refresh, and projections hold what requests have written.
TypeOK ==
  /\ pc \in [Tasks -> {"idle", "save", "list", "dropping", "clear", "similar",
                       "bipartite", "write", "discard", "project", "undo",
                       "look", "details", "exists", "algorithm", "stats",
                       "lookup", "remove"} \cup DOMAIN First \cup Ended]
  /\ kind \in [Tasks -> {None} \cup DOMAIN After]
  /\ \A t \in Tasks : IF pc[t] = "idle" THEN kind[t] = None
                                        ELSE kind[t] \in Allowed[t]
  /\ todo \in [Tasks -> SUBSET Projections]
  /\ {t \in Open : kind[t] = "refresh"} = {lock} \ {None}
  /\ graph \in [Projections -> {None} \cup SUBSET Tasks]
  /\ similar \subseteq Tasks
  /\ ids = None \/ (ids.by \in Tasks /\ ids.from \subseteq Tasks)
  /\ meta \in Tasks \cup {None}
  /\ faults \in 0..MaxFaults
  /\ rescuing \cup failed \cup kept \cup mixed \subseteq Tasks

\* A refresh fails only if one of its own calls failed or another kind of
\* request was open meanwhile: two refreshes never get in each other's way,
\* and what an earlier request or a restart left behind does no harm (the
\* cleanup before anything else).
FailsForAReason ==
  \A t \in Tasks : kind[t] = "refresh" /\ pc[t] = "failed" =>
                     t \in failed \cup mixed

\* When no request is open the bipartite projection, which is only an
\* intermediate step, is gone, however requests interleaved and whatever
\* failed, except a call to drop it and a restart.
NoBipartiteLeft ==
  Open = {} /\ kept = {} /\ (\A t \in Tasks : pc[t] # "killed") =>
    graph["bipartite"] = None

\* A refresh that no other kind of request crossed leaves no projection, if it
\* succeeds and if it fails, also after a restart or a failed one.
RefreshCleansUp ==
  [][\A t \in Tasks :
       /\ kind[t] = "refresh" /\ t \notin mixed \cup kept'
       /\ pc[t] # "failed" /\ pc[t] # "done"
       /\ pc'[t] \in {"done", "failed"}
       => \A p \in Projections : graph'[p] = None]_vars

\* CommunityMeta tells of the refresh whose communities are on the nodes, or
\* lags behind it: that refresh has not come to saving the status, was killed,
\* or a call of its own failed after its communities were written.  A failed
\* refresh does leave the status of an earlier one with its own communities;
\* one that reports success never does, nor one that failed after saving.
StatusLags ==
  ids # None /\ kind[ids.by] = "refresh" =>
    \/ meta = ids.by
    \/ pc[ids.by] \in {"stats", "save", "killed"}
    \/ ids.by \in rescuing \cap failed

\* The communities of an uncrossed refresh come from the similarities that this
\* refresh computed, none of an earlier request.
OwnSimilarities ==
  ids # None /\ kind[ids.by] = "refresh" /\ ids.by \notin mixed =>
    ids.from = {ids.by}

\* Requests that share projections, similarities and the communities on the
\* nodes do not mix them up unless they cross.
RefreshesApart == TypeOK /\ FailsForAReason /\ StatusLags /\ OwnSimilarities

\* Every request ends, however many wait for a thread, and with it the lock is
\* free again (TypeOK): each request comes once, so it is enough that there is
\* always a later moment without an open one.
RequestsEnd == []<>(Open = {})
=============================================================================
