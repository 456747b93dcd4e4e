------------------------ MODULE CommunityRefreshProofs ------------------------
(***************************************************************************)
(* What holds of refreshes and of the endpoints that use the same           *)
(* projections, for any number of requests, threads and failed calls.  The  *)
(* inductive invariant says of a refresh that no other kind of request      *)
(* crossed what it has left at each of its steps (Tidy) and that nothing it *)
(* has not broken itself stands in its way (Unharmed).                      *)
(***************************************************************************)
EXTENDS CommunityRefresh, TLAPS

CleanupSteps == {"cleanup", "list", "dropping"}
CreateSteps == {"create", "clear", "similar", "bipartite", "write", "discard",
                "project", "undo"}
DetectSteps == {"detect", "exists", "algorithm", "stats"}
DropSteps == {"drop", "lookup", "remove"}
InfoSteps == {"info", "look", "details"}

\* A request is at a step of one of the jobs of its kind.
AtStep(k, l) ==
  /\ l \in CleanupSteps => k \in {"refresh", "cleanup"}
  /\ l \in CreateSteps => k \in {"refresh", "create", "detect", "recommend"}
  /\ l \in DetectSteps => k \in {"refresh", "detect"}
  /\ l = "save" => k = "refresh"
  /\ l \in DropSteps => k \in {"refresh", "delete"}
  /\ l \in InfoSteps => k \in {"detect", "recommend"}

Placed == \A t \in Tasks : AtStep(kind[t], pc[t])

\* After an error a refresh cleans up and fails.
Rescued ==
  /\ kept \subseteq failed
  /\ \A t \in rescuing : /\ kind[t] = "refresh"
                      /\ pc[t] \in CleanupSteps \cup {"failed", "killed"}

\* Only another kind of request can be open together with a refresh.
Alone ==
  \A t \in Open \ mixed : kind[t] = "refresh" => Open = {t}

\* What an uncrossed refresh has left and will find.
Tidy(t) ==
  /\ pc[t] \in {"bipartite", "write"} => similar = {}
  /\ pc[t] \in {"discard", "project"} => similar = {t}
  /\ pc[t] \in {"detect", "exists", "algorithm"} => graph["skill"] = {t}
  /\ pc[t] \in {"project", "save"} \cup DetectSteps \cup DropSteps =>
       graph["bipartite"] = None
  /\ pc[t] = "dropping" /\ t \notin kept =>
       \A p \in Projections : graph[p] # None => p \in todo[t]

\* As long as none of its calls has failed, none will.
Unharmed(t) ==
  /\ t \notin rescuing /\ pc[t] # "undo"
  /\ pc[t] \in {"create", "clear", "similar", "bipartite"} =>
       \A p \in Projections : graph[p] = None
  /\ pc[t] \in {"write", "discard", "project"} => graph["skill"] = None
  /\ pc[t] = "write" => graph["bipartite"] # None
  /\ pc[t] \in DetectSteps \cup {"save", "drop", "remove"} =>
       graph["skill"] # None

Uncrossed ==
  \A t \in Open \ mixed :
    kind[t] = "refresh" => Tidy(t) /\ (t \notin failed => Unharmed(t))

\* A refresh that is about to tell of its communities has written them last,
\* unless another kind of request has; one that has passed this point has told.
MetaAgrees ==
  /\ ids # None => pc[ids.by] # "idle"
  /\ StatusLags
  /\ \A t \in Tasks : kind[t] = "refresh" /\ pc[t] \in {"stats", "save"} =>
       ids # None /\ (ids.by = t \/ kind[ids.by] # "refresh")

\* The bipartite projection is there only while a request is to drop it.
WillDrop(t) ==
  \/ pc[t] \in {"write", "discard"}
  \/ pc[t] = "undo" /\ "bipartite" \in todo[t]

BipartiteOwed ==
  graph["bipartite"] # None /\ kept = {} /\ (\A t \in Tasks : pc[t] # "killed") =>
    \E t \in Tasks : WillDrop(t)

IInv == /\ TypeOK /\ Placed /\ Rescued /\ Alone /\ Uncrossed /\ MetaAgrees
        /\ OwnSimilarities /\ FailsForAReason /\ BipartiteOwed

-----------------------------------------------------------------------------
(* Steps in general                                                         *)

Place == {"idle", "save"} \cup CleanupSteps \cup CreateSteps \cup DetectSteps
           \cup DropSteps \cup InfoSteps \cup Ended

StoredOK ==
  /\ graph \in [Projections -> {None} \cup SUBSET Tasks]
  /\ similar \subseteq Tasks
  /\ ids = None \/ (ids.by \in Tasks /\ ids.from \subseteq Tasks)
  /\ meta \in Tasks \cup {None}

LockOK == {t \in Open : kind[t] = "refresh"} = {lock} \ {None}

LEMMA Typed ==
  TypeOK <=> /\ pc \in [Tasks -> Place]
             /\ kind \in [Tasks -> {None} \cup DOMAIN After]
             /\ \A t \in Tasks : IF pc[t] = "idle" THEN kind[t] = None
                                                   ELSE kind[t] \in Allowed[t]
             /\ todo \in [Tasks -> SUBSET Projections]
             /\ LockOK /\ StoredOK
             /\ faults \in 0..MaxFaults
             /\ rescuing \cup failed \cup kept \cup mixed \subseteq Tasks
<1>1. {"idle", "save", "list", "dropping", "clear", "similar", "bipartite",
       "write", "discard", "project", "undo", "look", "details", "exists",
       "algorithm", "stats", "lookup", "remove"} \cup DOMAIN First \cup Ended = Place
  BY DEF First, Place, CleanupSteps, CreateSteps, DetectSteps, DropSteps,
         InfoSteps, Ended
<1> QED BY <1>1 DEF TypeOK, LockOK, StoredOK

\* What follows each job.
LEMMA Follows ==
  /\ After["refresh"] = Refresh
  /\ Refresh["start"] = "cleanup" /\ Refresh["cleanup"] = "create"
  /\ Refresh["create"] = "detect" /\ Refresh["detect"] = "save"
  /\ Refresh["save"] = "drop" /\ Refresh["drop"] = "done"
  /\ After["create"]["start"] = "create" /\ After["create"]["create"] = "done"
  /\ After["delete"]["start"] = "drop" /\ After["delete"]["drop"] = "done"
  /\ After["cleanup"]["start"] = "cleanup"
  /\ After["cleanup"]["cleanup"] = "done"
  /\ After["detect"]["start"] = "info" /\ After["detect"]["info"] = "detect"
  /\ After["detect"]["create"] = "detect" /\ After["detect"]["detect"] = "done"
  /\ After["recommend"]["start"] = "info"
  /\ After["recommend"]["info"] = "done"
  /\ After["recommend"]["create"] = "done"
  BY DEF After, Refresh

LEMMA Kinds ==
  /\ DOMAIN After = {"refresh", "create", "delete", "cleanup", "detect",
                     "recommend"}
  /\ None \notin DOMAIN After
  BY NoneAssumption DEF After

\* A request that goes on, or ends, leaves the lock to whom it belongs, and the
\* others where they are.
LEMMA GotoTypes ==
  ASSUME TypeOK, NEW s \in Open, NEW l \in Place \ {"idle"}, Goto(s, l),
         kind' = kind
  PROVE  /\ pc' \in [Tasks -> Place] /\ pc'[s] = l
         /\ \A t \in Tasks \ {s} : pc'[t] = pc[t]
         /\ \A t \in Tasks : IF pc'[t] = "idle" THEN kind'[t] = None
                                                ELSE kind'[t] \in Allowed[t]
         /\ LockOK'
         /\ Open' = IF l \in Ended THEN Open \ {s} ELSE Open
<1>1. pc' = [pc EXCEPT ![s] = l] /\ s \in Tasks /\ pc[s] # "idle"
  BY DEF Goto, Open
<1>2. /\ pc' \in [Tasks -> Place] /\ pc'[s] = l
      /\ \A t \in Tasks \ {s} : pc'[t] = pc[t]
  BY <1>1, Typed
<1>3. \A t \in Tasks : IF pc'[t] = "idle" THEN kind'[t] = None
                                          ELSE kind'[t] \in Allowed[t]
  BY <1>1, <1>2, Typed
<1>4. Open' = IF l \in Ended THEN Open \ {s} ELSE Open
  BY <1>1, <1>2 DEF Open
<1>5. s # None
  BY <1>1, NoneAssumption
<1>6. LockOK'
  <2>1. LockOK
    BY Typed
  <2>2. lock' = IF lock = s /\ l \in Ended THEN None ELSE lock
    BY DEF Goto, Releases
  <2> QED BY <1>4, <1>5, <2>1, <2>2 DEF LockOK
<1> QED BY <1>2, <1>3, <1>4, <1>6

\* A step of one request: what is left to show is about this request, about
\* the communities and about the bipartite projection.
LEMMA StepInvariant ==
  ASSUME IInv, NEW s \in Open, NEW l \in Place \ {"idle"}, Goto(s, l),
         UNCHANGED <<kind, mixed>>,
         todo' \in [Tasks -> SUBSET Projections],
         faults' \in 0..MaxFaults, StoredOK',
         failed' \in {failed, failed \cup {s}},
         kept' \in {kept, kept \cup {s}}, kept' \subseteq failed',
         rescuing' \in {rescuing, rescuing \cup {s}},
         AtStep(kind[s], l),
         s \in rescuing' =>
           kind[s] = "refresh" /\ l \in CleanupSteps \cup {"failed", "killed"},
         kind[s] = "refresh" /\ s \notin mixed /\ l \notin Ended =>
           Tidy(s)' /\ (s \notin failed' => Unharmed(s)'),
         kind[s] = "refresh" /\ l = "failed" => s \in failed' \cup mixed,
         MetaAgrees', OwnSimilarities', BipartiteOwed'
  PROVE  IInv'
<1> USE DEF IInv
<1>1. /\ pc' \in [Tasks -> Place] /\ pc'[s] = l
      /\ \A t \in Tasks \ {s} : pc'[t] = pc[t]
      /\ \A t \in Tasks : IF pc'[t] = "idle" THEN kind'[t] = None
                                             ELSE kind'[t] \in Allowed[t]
      /\ LockOK'
      /\ Open' = IF l \in Ended THEN Open \ {s} ELSE Open
  BY GotoTypes
<1>2. s \in Tasks /\ Open \subseteq Tasks
  BY DEF Open
<1>3. TypeOK'
  <2>1. rescuing' \cup failed' \cup kept' \cup mixed' \subseteq Tasks
    BY <1>2, Typed
  <2> QED BY <1>1, <2>1, Typed DEF TypeOK, LockOK, StoredOK, Place, First,
             CleanupSteps, CreateSteps, DetectSteps, DropSteps, InfoSteps, Ended
<1>4. Placed'
  BY <1>1 DEF Placed
<1>5. Rescued'
  BY <1>1, Typed DEF Rescued
<1>6. Alone'
  BY <1>1 DEF Alone
<1>7. Uncrossed'
  <2> SUFFICES ASSUME NEW t \in Open' \ mixed, kind[t] = "refresh"
               PROVE  Tidy(t)' /\ (t \notin failed' => Unharmed(t)')
    BY DEF Uncrossed
  <2>1. t = s /\ l \notin Ended
    BY <1>1 DEF Alone
  <2> QED BY <2>1
<1>8. FailsForAReason'
  BY <1>1 DEF FailsForAReason
<1> QED BY <1>3, <1>4, <1>5, <1>6, <1>7, <1>8

\* The communities and the status stay, or the request is no refresh.
LEMMA MetaStays ==
  ASSUME IInv, NEW s \in Open, NEW l \in Place \ {"idle"}, Goto(s, l),
         UNCHANGED <<kind, ids, meta>>,
         rescuing \subseteq rescuing', failed \subseteq failed',
         kind[s] = "refresh" =>
           /\ l \in {"stats", "save"} => pc[s] \in {"stats", "save"}
           /\ pc[s] \in {"stats", "save"} =>
                l \in {"stats", "save"} \/ s \in rescuing' \cap failed'
  PROVE  MetaAgrees'
<1>1. /\ pc'[s] = l /\ \A t \in Tasks \ {s} : pc'[t] = pc[t]
  BY GotoTypes DEF IInv
<1>2. ids # None => ids.by \in Tasks
  BY Typed DEF IInv, StoredOK
<1>3. pc[s] # "killed"
  BY DEF Open, Ended
<1>4. StatusLags'
  BY <1>1, <1>2, <1>3 DEF IInv, MetaAgrees, StatusLags
<1> QED BY <1>1, <1>2, <1>4 DEF IInv, MetaAgrees

\* Who is to drop the bipartite projection stays so, or has dropped it.
LEMMA BipartiteStays ==
  ASSUME IInv, NEW s \in Open, NEW l \in Place \ {"idle"}, Goto(s, l),
         UNCHANGED kind,
         graph'["bipartite"] \in {graph["bipartite"], None},
         \A t \in Tasks \ {s} : todo'[t] = todo[t],
         kept \subseteq kept',
         WillDrop(s) =>
           WillDrop(s)' \/ graph'["bipartite"] = None \/ kept' # {}
  PROVE  BipartiteOwed'
<1>1. /\ pc'[s] = l /\ \A t \in Tasks \ {s} : pc'[t] = pc[t]
  BY GotoTypes DEF IInv
<1> SUFFICES ASSUME graph'["bipartite"] # None, kept' = {},
                    \A t \in Tasks : pc'[t] # "killed"
             PROVE  \E t \in Tasks : WillDrop(t)'
  BY DEF BipartiteOwed
<1>2. pc[s] # "killed" /\ s \in Tasks
  BY DEF Open, Ended
<1>3. PICK t \in Tasks : WillDrop(t)
  BY <1>1, <1>2 DEF IInv, BipartiteOwed
<1>4. ASSUME t # s PROVE WillDrop(t)'
  <2>1. pc'[t] = pc[t] /\ todo'[t] = todo[t]
    BY <1>1, <1>4
  <2> QED BY <1>3, <2>1 DEF WillDrop
<1> QED BY <1>2, <1>3, <1>4

LEMMA StepOf ==
  ASSUME IInv, NEW s \in Tasks, pc[s] \notin Ended \cup {"idle"}
  PROVE  s \in Open /\ kind[s] \in DOMAIN After /\ AtStep(kind[s], pc[s])
<1>1. kind[s] \in Allowed[s]
  BY Typed DEF IInv
<1> QED BY <1>1, KindsAssumption DEF IInv, Open, Placed

\* An exception is passed on, by a refresh after it has cleaned up.
LEMMA RaiseInvariant ==
  ASSUME IInv, NEW s \in Tasks, pc[s] \notin Ended \cup {"idle"}, Raise(s),
         UNCHANGED <<kind, mixed, todo, similar, ids, meta>>,
         faults' \in 0..MaxFaults,
         graph' \in [Projections -> {None} \cup SUBSET Tasks],
         graph'["bipartite"] \in {graph["bipartite"], None},
         failed' \in {failed, failed \cup {s}}, kept' = kept,
         kind[s] = "refresh" => s \in failed' \cup mixed,
         pc[s] \in {"stats", "save"} => s \in failed',
         ~WillDrop(s)
  PROVE  IInv'
<1> DEFINE l == IF kind[s] = "refresh" /\ s \notin rescuing THEN "cleanup"
                                                            ELSE "failed"
<1>1. s \in Open
  BY StepOf
<1>2. /\ Goto(s, l)
      /\ rescuing' = IF l = "cleanup" THEN rescuing \cup {s} ELSE rescuing
  BY DEF Raise
<1>3. l \in Place \ {"idle"} /\ l \in {"cleanup", "failed"}
  BY DEF Place, CleanupSteps, Ended
<1>4. AtStep(kind[s], l)
  BY DEF AtStep, CleanupSteps, CreateSteps, DetectSteps, DropSteps, InfoSteps
<1>5. MetaAgrees'
  <2>1. /\ rescuing \subseteq rescuing' /\ failed \subseteq failed'
        /\ kind[s] = "refresh" /\ pc[s] \in {"stats", "save"} =>
             s \in rescuing' \cap failed'
    BY <1>2 DEF IInv, Rescued, CleanupSteps
  <2> HIDE DEF l
  <2> QED BY <1>1, <1>2, <1>3, <2>1, MetaStays
<1>6. BipartiteOwed'
  BY <1>1, <1>2, <1>3, BipartiteStays
<1>7. OwnSimilarities'
  BY DEF IInv, OwnSimilarities
<1>8. StoredOK'
  BY Typed DEF IInv, StoredOK
<1>9. s \in rescuing' =>
        kind[s] = "refresh" /\ l \in CleanupSteps \cup {"failed", "killed"}
  BY <1>2 DEF IInv, Rescued, CleanupSteps
<1>10. pc'[s] = l
  BY <1>1, <1>2, <1>3, GotoTypes DEF IInv
<1>11. kind[s] = "refresh" /\ s \notin mixed /\ l \notin Ended =>
         Tidy(s)' /\ (s \notin failed' => Unharmed(s)')
  BY <1>3, <1>10 DEF Tidy, Ended, DetectSteps, DropSteps
<1>12. kept' \subseteq failed' /\ todo' \in [Tasks -> SUBSET Projections]
  BY Typed DEF IInv, Rescued
<1> HIDE DEF l
<1> QED
  BY <1>1, <1>2, <1>3, <1>4, <1>5, <1>6, <1>7, <1>8, <1>9, <1>11, <1>12,
     StepInvariant

\* After an error of one of its calls _create drops its projections.
LEMMA UndoInvariant ==
  ASSUME IInv, NEW s \in Tasks, pc[s] \in CreateSteps, Undo(s),
         UNCHANGED <<kind, mixed, stored>>,
         faults' \in 0..MaxFaults,
         failed' \in {failed, failed \cup {s}}, kept' = kept,
         kind[s] = "refresh" => s \in failed' \cup mixed
  PROVE  IInv'
<1>1. s \in Open /\ AtStep(kind[s], pc[s])
  BY StepOf DEF CreateSteps, Ended
<1>2. /\ Goto(s, "undo") /\ rescuing' = rescuing
      /\ todo' = [todo EXCEPT ![s] = Projections]
  BY DEF Undo, Undone
<1>3. "undo" \in Place \ {"idle"} /\ "undo" \notin Ended
  BY DEF Place, CreateSteps, Ended
<1>4. AtStep(kind[s], "undo")
  BY <1>1
  DEF AtStep, CleanupSteps, CreateSteps, DetectSteps, DropSteps, InfoSteps
<1>5. /\ todo' \in [Tasks -> SUBSET Projections] /\ todo'[s] = Projections
      /\ \A t \in Tasks \ {s} : todo'[t] = todo[t]
  BY <1>2, Typed DEF IInv
<1>6. pc'[s] = "undo"
  BY <1>1, <1>2, <1>3, GotoTypes DEF IInv
<1>7. MetaAgrees'
  <2>1. /\ rescuing \subseteq rescuing' /\ failed \subseteq failed'
        /\ pc[s] \notin {"stats", "save"}
    BY <1>2 DEF CreateSteps
  <2> QED BY <1>1, <1>2, <1>3, <2>1, MetaStays DEF stored
<1>8. BipartiteOwed'
  <2>1. WillDrop(s)'
    BY <1>5, <1>6 DEF WillDrop, Projections
  <2> QED BY <1>1, <1>2, <1>3, <1>5, <2>1, BipartiteStays DEF stored
<1>9. OwnSimilarities' /\ StoredOK'
  BY Typed DEF IInv, OwnSimilarities, stored, StoredOK
<1>10. s \notin rescuing /\ kept' \subseteq failed'
  BY DEF IInv, Rescued, CleanupSteps, CreateSteps
<1>11. kind[s] = "refresh" /\ s \notin mixed =>
         Tidy(s)' /\ (s \notin failed' => Unharmed(s)')
  BY <1>6 DEF Tidy, DetectSteps, DropSteps
<1> QED
  BY <1>1, <1>2, <1>3, <1>4, <1>5, <1>7, <1>8, <1>9, <1>10, <1>11,
     StepInvariant

-----------------------------------------------------------------------------
(* The steps                                                                *)

\* A step that changes neither what is stored nor who has failed.
LEMMA MoveInvariant ==
  ASSUME IInv, NEW s \in Tasks, pc[s] \notin Ended \cup {"idle"},
         NEW l \in Place \ {"idle", "failed"}, Goto(s, l),
         UNCHANGED <<rescuing, stored, environment>>,
         todo' \in [Tasks -> SUBSET Projections],
         \A t \in Tasks \ {s} : todo'[t] = todo[t],
         AtStep(kind[s], l),
         s \in rescuing => l \in CleanupSteps \cup {"failed", "killed"},
         kind[s] = "refresh" /\ s \notin mixed /\ l \notin Ended =>
           Tidy(s)' /\ (s \notin failed => Unharmed(s)'),
         kind[s] = "refresh" =>
           /\ l \in {"stats", "save"} => pc[s] \in {"stats", "save"}
           /\ pc[s] \in {"stats", "save"} => l \in {"stats", "save"},
         WillDrop(s) => WillDrop(s)'
  PROVE  IInv'
<1>1. s \in Open
  BY StepOf
<1>2. MetaAgrees'
  BY <1>1, MetaStays DEF stored, environment
<1>3. BipartiteOwed'
  BY <1>1, BipartiteStays DEF stored, environment
<1>4. OwnSimilarities' /\ StoredOK'
  BY Typed DEF IInv, OwnSimilarities, stored, environment, StoredOK
<1>5. faults' \in 0..MaxFaults /\ kept' \subseteq failed'
  BY Typed DEF IInv, Rescued, environment
<1>6. s \in rescuing' =>
        kind[s] = "refresh" /\ l \in CleanupSteps \cup {"failed", "killed"}
  BY DEF IInv, Rescued
<1>7. failed' = failed /\ kept' = kept /\ UNCHANGED <<kind, mixed, rescuing>>
  BY DEF environment
<1> QED
  BY <1>1, <1>2, <1>3, <1>4, <1>5, <1>6, <1>7, StepInvariant

\* What is known of a refresh that nobody crossed.
LEMMA Knows ==
  ASSUME IInv, NEW s \in Tasks, pc[s] \notin Ended \cup {"idle"},
         kind[s] = "refresh", s \notin mixed
  PROVE  Tidy(s) /\ (s \notin failed => Unharmed(s))
  BY StepOf DEF IInv, Uncrossed

\* The first step of each kind of request.
LEMMA Starts ==
  ASSUME NEW k \in DOMAIN After
  PROVE  /\ After[k].start \in {"cleanup", "create", "drop", "info"}
         /\ AtStep(k, After[k].start)
         /\ k = "refresh" => After[k].start = "cleanup"
<1>1. k \in {"refresh", "create", "delete", "cleanup", "detect", "recommend"}
  BY Kinds
<1> QED
  BY <1>1, Follows DEF AtStep, CleanupSteps, CreateSteps, DetectSteps,
                       DropSteps, InfoSteps

\* A refresh that has to wait for no other is alone, or crossed.
LEMMA AskInvariant ==
  ASSUME IInv, NEW s \in Tasks, NEW k \in Allowed[s], Ask(s, k)
  PROVE  IInv'
<1> DEFINE l == IF Locked(k) THEN "conflict" ELSE After[k].start
<1> USE DEF IInv
<1>1. /\ pc[s] = "idle" /\ kind[s] = None /\ k \in DOMAIN After /\ k # None
      /\ kind' = [kind EXCEPT ![s] = k] /\ pc' = [pc EXCEPT ![s] = l]
      /\ UNCHANGED <<todo, rescuing, stored, faults, failed, kept>>
  BY Typed, KindsAssumption, Kinds DEF Ask
<1>2. Locked(k) => k = "refresh" /\ lock # None /\ UNCHANGED <<lock, mixed>>
  BY DEF Ask, Locked
<1>3. ~Locked(k) =>
        /\ lock' = IF k = "refresh" THEN s ELSE lock
        /\ mixed' = mixed \cup
             {u \in Open : kind[u] = "refresh" /\ k # "refresh"} \cup
             {u \in {s} : k = "refresh" /\ \E v \in Open : kind[v] # k}
  BY DEF Ask
<1>4. /\ l \in {"conflict", "cleanup", "create", "drop", "info"}
      /\ AtStep(k, l)
      /\ k = "refresh" => l \in {"conflict", "cleanup"}
      /\ l = "conflict" <=> Locked(k)
  <2>1. AtStep(k, "conflict")
    BY DEF AtStep, CleanupSteps, CreateSteps, DetectSteps, DropSteps, InfoSteps
  <2> QED BY <1>1, <1>2, <2>1, Starts
<1> HIDE DEF l
<1>5. /\ pc' \in [Tasks -> Place] /\ pc'[s] = l
      /\ kind' \in [Tasks -> {None} \cup DOMAIN After] /\ kind'[s] = k
      /\ \A t \in Tasks \ {s} : pc'[t] = pc[t] /\ kind'[t] = kind[t]
  <2>1. l \in Place
    BY <1>4 DEF Place, CleanupSteps, CreateSteps, DropSteps, InfoSteps, Ended
  <2> QED BY <1>1, <2>1, Typed
<1>6. /\ s \notin Open /\ Open \subseteq Tasks
      /\ Open' = IF Locked(k) THEN Open ELSE Open \cup {s}
  BY <1>1, <1>4, <1>5 DEF Open, Ended
<1>7. LockOK /\ s # None
  BY Typed, NoneAssumption
<1>8. TypeOK'
  <2>1. LockOK'
    <3>1. CASE Locked(k)
      BY <3>1, <1>2, <1>5, <1>6, <1>7 DEF LockOK
    <3>2. CASE ~Locked(k) /\ k = "refresh"
      <4>1. lock = None
        BY <3>2 DEF Locked
      <4> QED BY <3>2, <4>1, <1>3, <1>5, <1>6, <1>7 DEF LockOK
    <3>3. CASE ~Locked(k) /\ k # "refresh"
      BY <3>3, <1>3, <1>5, <1>6, <1>7 DEF LockOK
    <3> QED BY <3>1, <3>2, <3>3
  <2>2. \A t \in Tasks : IF pc'[t] = "idle" THEN kind'[t] = None
                                            ELSE kind'[t] \in Allowed[t]
    BY <1>4, <1>5, Typed
  <2>3. mixed' \subseteq Tasks
    BY <1>2, <1>3, <1>6, Typed
  <2>4. StoredOK'
    BY <1>1, Typed DEF stored, StoredOK
  <2> QED
    BY <1>1, <1>5, <2>1, <2>2, <2>3, <2>4, Typed
    DEF TypeOK, LockOK, StoredOK, Place, First, CleanupSteps, CreateSteps,
        DetectSteps, DropSteps, InfoSteps, Ended
<1>9. Placed'
  BY <1>4, <1>5 DEF Placed
<1>10. s \notin rescuing
  BY <1>1, Kinds DEF Rescued
<1>11. Rescued'
  BY <1>1, <1>5, <1>10, Typed DEF Rescued
<1>12. \A t \in Open' \ mixed' : kind'[t] = "refresh" =>
         /\ Open' = {t}
         /\ t = s \/ (t \in Open \ mixed /\ Locked(k))
  <2> SUFFICES ASSUME NEW t \in Open' \ mixed', kind'[t] = "refresh"
               PROVE  Open' = {t} /\ (t = s \/ (t \in Open \ mixed /\ Locked(k)))
    OBVIOUS
  <2>1. CASE Locked(k)
    BY <2>1, <1>2, <1>5, <1>6 DEF Alone
  <2>2. CASE ~Locked(k) /\ t = s
    <3>1. k = "refresh" /\ lock = None
      BY <2>2, <1>5 DEF Locked
    <3>2. \A v \in Open : kind[v] = "refresh"
      BY <2>2, <3>1, <1>3
    <3>3. Open = {}
      BY <3>1, <3>2, <1>7 DEF LockOK
    <3> QED BY <2>2, <3>3, <1>6
  <2>3. CASE ~Locked(k) /\ t # s
    <3>1. t \in Open /\ kind[t] = "refresh"
      BY <2>3, <1>5, <1>6
    <3>2. k = "refresh"
      BY <2>3, <3>1, <1>3
    <3>3. lock # None
      BY <3>1, <1>6, <1>7, NoneAssumption DEF LockOK
    <3> QED BY <2>3, <3>2, <3>3 DEF Locked
  <2> QED BY <2>1, <2>2, <2>3
<1>13. Alone'
  BY <1>12 DEF Alone
<1>14. Uncrossed'
  <2> SUFFICES ASSUME NEW t \in Open' \ mixed', kind'[t] = "refresh"
               PROVE  Tidy(t)' /\ (t \notin failed' => Unharmed(t)')
    BY DEF Uncrossed
  <2>1. CASE t = s
    <3>1. pc'[t] = "cleanup"
      BY <2>1, <1>4, <1>5, <1>6
    <3> QED
      BY <2>1, <3>1, <1>1, <1>10
      DEF Tidy, Unharmed, DetectSteps, DropSteps
  <2>2. CASE t # s
    <3>1. t \in Open \ mixed /\ kind[t] = "refresh" /\ pc'[t] = pc[t]
      BY <2>2, <1>5, <1>12, <1>6
    <3> QED BY <3>1, <1>1 DEF Uncrossed, Tidy, Unharmed, stored
  <2> QED BY <2>1, <2>2
<1>15. MetaAgrees'
  <2>1. ids # None => ids.by \in Tasks /\ ids.by # s
    BY <1>1, Typed DEF MetaAgrees, StoredOK
  <2> QED BY <1>1, <1>4, <1>5, <2>1 DEF MetaAgrees, StatusLags, stored
<1>16. OwnSimilarities'
  <2>1. ids # None => ids.by \in Tasks /\ ids.by # s
    BY <1>1, Typed DEF MetaAgrees, StoredOK
  <2> QED BY <1>1, <1>2, <1>3, <1>5, <2>1 DEF OwnSimilarities, stored
<1>17. FailsForAReason'
  BY <1>1, <1>2, <1>3, <1>4, <1>5 DEF FailsForAReason
<1>18. BipartiteOwed'
  <2> SUFFICES ASSUME graph["bipartite"] # None, kept = {},
                      \A t \in Tasks : pc'[t] # "killed"
               PROVE  \E t \in Tasks : WillDrop(t)'
    BY <1>1 DEF BipartiteOwed, stored
  <2>1. PICK t \in Tasks : WillDrop(t)
    BY <1>1, <1>5 DEF BipartiteOwed
  <2>2. t # s
    BY <2>1, <1>1 DEF WillDrop
  <2> QED BY <2>1, <2>2, <1>1, <1>5 DEF WillDrop
<1> QED
  BY <1>8, <1>9, <1>11, <1>13, <1>14, <1>15, <1>16, <1>17, <1>18

\* What follows a job, for the kinds of request that have it.
LEMMA Returns ==
  /\ \A k \in {"refresh", "cleanup"} :
       After[k].cleanup = IF k = "refresh" THEN "create" ELSE "done"
  /\ \A k \in {"refresh", "create", "detect", "recommend"} :
       After[k].create = IF k \in {"refresh", "detect"} THEN "detect" ELSE "done"
  /\ \A k \in {"refresh", "detect"} :
       After[k].detect = IF k = "refresh" THEN "save" ELSE "done"
  /\ After["refresh"].save = "drop"
  /\ \A k \in {"refresh", "delete"} : After[k].drop = "done"
  /\ \A k \in {"detect", "recommend"} :
       After[k].info = IF k = "detect" THEN "detect" ELSE "done"
  BY Follows

LEMMA BeginInvariant ==
  ASSUME IInv, NEW s \in Tasks, Begin(s)
  PROVE  IInv'
<1> DEFINE l == First[pc[s]]
           made == IF pc[s] = "create" THEN Projections ELSE {}
<1>1. /\ pc[s] \in {"cleanup", "create", "detect", "drop", "info"}
      /\ pc' = [pc EXCEPT ![s] = l] /\ todo' = [todo EXCEPT ![s] = made]
      /\ UNCHANGED <<rescuing, lock, stored, environment>>
  BY DEF Begin, First
<1>2. /\ pc[s] = "cleanup" => l = "list"
      /\ pc[s] = "create" => l = "clear"
      /\ pc[s] = "detect" => l = "exists"
      /\ pc[s] = "drop" => l = "lookup"
      /\ pc[s] = "info" => l = "look"
  BY DEF First
<1> HIDE DEF l
<1>3. pc[s] \notin Ended \cup {"idle"}
  BY <1>1 DEF Ended
<1>4. s \in Open /\ AtStep(kind[s], pc[s])
  BY <1>3, StepOf
<1>5. l \in Place \ {"idle", "failed"} /\ l \notin Ended
  BY <1>1, <1>2
  DEF Place, Ended, CleanupSteps, CreateSteps, DetectSteps, DropSteps, InfoSteps
<1>6. AtStep(kind[s], l)
  BY <1>1, <1>2, <1>4
  DEF AtStep, CleanupSteps, CreateSteps, DetectSteps, DropSteps, InfoSteps
<1>7. Goto(s, l)
  BY <1>1, <1>5 DEF Goto, Releases
<1>8. pc'[s] = l
  BY <1>4, <1>5, <1>7, <1>1, GotoTypes DEF IInv, environment
<1>9. /\ todo' \in [Tasks -> SUBSET Projections]
      /\ \A t \in Tasks \ {s} : todo'[t] = todo[t]
  BY <1>1, Typed DEF IInv
<1>10. s \in rescuing => l \in CleanupSteps
  BY <1>1, <1>2
  DEF IInv, Rescued, CleanupSteps
<1>11. kind[s] = "refresh" /\ s \notin mixed =>
         Tidy(s)' /\ (s \notin failed => Unharmed(s)')
  <2> SUFFICES ASSUME kind[s] = "refresh", s \notin mixed
               PROVE  Tidy(s)' /\ (s \notin failed => Unharmed(s)')
    OBVIOUS
  <2>1. Tidy(s) /\ (s \notin failed => Unharmed(s))
    BY <1>3, Knows
  <2> QED
    BY <1>1, <1>2, <1>8, <2>1
    DEF Tidy, Unharmed, DetectSteps, DropSteps, stored, environment
<1>12. /\ l \notin {"stats", "save", "done"}
       /\ l \in DropSteps => pc[s] \in DropSteps
       /\ ~WillDrop(s)
  BY <1>1, <1>2 DEF DropSteps, WillDrop
<1> QED
  BY <1>1, <1>3, <1>5, <1>6, <1>7, <1>9, <1>10, <1>11, <1>12, MoveInvariant

LEMMA ListInvariant ==
  ASSUME IInv, NEW s \in Tasks, List(s)
  PROVE  IInv'
<1>1. /\ pc[s] = "list" /\ Goto(s, "dropping")
      /\ todo' = [todo EXCEPT ![s] = {p \in Projections : graph[p] # None}]
      /\ UNCHANGED <<rescuing, stored, environment>>
  BY DEF List
<1>2. pc[s] \notin Ended \cup {"idle"}
  BY <1>1 DEF Ended
<1>3. s \in Open /\ AtStep(kind[s], pc[s])
  BY <1>2, StepOf
<1>4. "dropping" \in Place \ {"idle", "failed"} /\ "dropping" \in CleanupSteps
  BY DEF Place, CleanupSteps
<1>5. AtStep(kind[s], "dropping")
  BY <1>1, <1>3
  DEF AtStep, CleanupSteps, CreateSteps, DetectSteps, DropSteps, InfoSteps
<1>6. pc'[s] = "dropping"
  BY <1>1, <1>3, <1>4, GotoTypes DEF IInv, environment
<1>7. /\ todo' \in [Tasks -> SUBSET Projections]
      /\ todo'[s] = {p \in Projections : graph[p] # None}
      /\ \A t \in Tasks \ {s} : todo'[t] = todo[t]
  BY <1>1, Typed DEF IInv
<1>8. kind[s] = "refresh" /\ s \notin mixed =>
        Tidy(s)' /\ (s \notin failed => Unharmed(s)')
  <2> SUFFICES ASSUME kind[s] = "refresh", s \notin mixed
               PROVE  Tidy(s)' /\ (s \notin failed => Unharmed(s)')
    OBVIOUS
  <2>1. s \notin failed => Unharmed(s)
    BY <1>2, Knows
  <2> QED
    BY <1>1, <1>6, <1>7, <2>1
    DEF Tidy, Unharmed, DetectSteps, DropSteps, stored, environment
<1>9. ~WillDrop(s) /\ "dropping" \notin DropSteps
  BY <1>1 DEF WillDrop, DropSteps
<1> QED
  BY <1>1, <1>2, <1>4, <1>5, <1>7, <1>8, <1>9, MoveInvariant

LEMMA Stays ==
  ASSUME IInv, NEW s \in Tasks, pc[s] \notin Ended \cup {"idle"},
         UNCHANGED <<pc, lock>>
  PROVE  Goto(s, pc[s]) /\ pc[s] \in Place \ {"idle"}
<1>1. pc \in [Tasks -> Place]
  BY Typed DEF IInv
<1> QED BY <1>1 DEF Goto, Releases

LEMMA DropOneInvariant ==
  ASSUME IInv, NEW s \in Tasks, NEW p \in Projections, DropOne(s, p)
  PROVE  IInv'
<1>1. /\ pc[s] \in {"dropping", "clear", "undo"} /\ p \in todo[s]
      /\ todo' = [todo EXCEPT ![s] = @ \ {p}]
      /\ graph' = [graph EXCEPT ![p] = None]
      /\ UNCHANGED <<pc, rescuing, lock, similar, ids, meta, environment>>
  BY DEF DropOne
<1>2. pc[s] \notin Ended \cup {"idle"}
  BY <1>1 DEF Ended
<1>3. s \in Open /\ AtStep(kind[s], pc[s])
  BY <1>2, StepOf
<1>4. Goto(s, pc[s]) /\ pc[s] \in Place \ {"idle"}
  BY <1>1, <1>2, Stays
<1>5. /\ todo' \in [Tasks -> SUBSET Projections] /\ todo'[s] = todo[s] \ {p}
      /\ \A t \in Tasks \ {s} : todo'[t] = todo[t]
  BY <1>1, Typed DEF IInv
<1>6. /\ graph' \in [Projections -> {None} \cup SUBSET Tasks]
      /\ graph'[p] = None
      /\ \A q \in Projections \ {p} : graph'[q] = graph[q]
  BY <1>1, Typed DEF IInv, StoredOK
<1>7. StoredOK'
  BY <1>1, <1>6, Typed DEF IInv, StoredOK
<1>8. UNCHANGED <<kind, mixed, faults, failed, kept>>
  BY <1>1 DEF environment
<1>9. kind[s] = "refresh" /\ s \notin mixed =>
        Tidy(s)' /\ (s \notin failed => Unharmed(s)')
  <2> SUFFICES ASSUME kind[s] = "refresh", s \notin mixed
               PROVE  Tidy(s)' /\ (s \notin failed => Unharmed(s)')
    OBVIOUS
  <2>1. Tidy(s) /\ (s \notin failed => Unharmed(s))
    BY <1>2, Knows
  <2> QED
    BY <1>1, <1>5, <1>6, <1>8, <2>1 DEF Tidy, Unharmed, DetectSteps, DropSteps
<1>10. MetaAgrees'
  BY <1>1, <1>3, <1>4, <1>8, MetaStays DEF DropSteps
<1>11. BipartiteOwed'
  <2>1. graph'["bipartite"] \in {graph["bipartite"], None}
    BY <1>6 DEF Projections
  <2>2. WillDrop(s) => WillDrop(s)' \/ graph'["bipartite"] = None
    BY <1>1, <1>5, <1>6 DEF WillDrop
  <2> QED BY <1>3, <1>4, <1>5, <1>8, <2>1, <2>2, BipartiteStays
<1>12. OwnSimilarities'
  BY <1>1, <1>8 DEF IInv, OwnSimilarities
<1>13. /\ faults' \in 0..MaxFaults /\ kept' \subseteq failed'
       /\ s \in rescuing' =>
            kind[s] = "refresh" /\ pc[s] \in CleanupSteps \cup {"failed", "killed"}
  BY <1>1, <1>8, Typed DEF IInv, Rescued
<1>14. pc[s] # "failed"
  BY <1>1
<1> QED
  BY <1>1, <1>3, <1>4, <1>5, <1>7, <1>8, <1>9, <1>10, <1>11, <1>12, <1>13,
     <1>14, StepInvariant

LEMMA DroppedInvariant ==
  ASSUME IInv, NEW s \in Tasks, Dropped(s)
  PROVE  IInv'
<1>1. /\ pc[s] \in {"dropping", "clear", "undo"} /\ todo[s] = {}
      /\ UNCHANGED <<todo, stored, environment>>
  BY DEF Dropped
<1>2. pc[s] \notin Ended \cup {"idle"}
  BY <1>1 DEF Ended
<1>3. s \in Open /\ AtStep(kind[s], pc[s])
  BY <1>2, StepOf
<1>4. /\ UNCHANGED <<kind, mixed, similar, ids, meta, graph>>
      /\ faults' \in 0..MaxFaults /\ failed' = failed /\ kept' = kept
      /\ graph \in [Projections -> {None} \cup SUBSET Tasks]
      /\ todo' \in [Tasks -> SUBSET Projections]
  BY <1>1, Typed DEF IInv, environment, stored, StoredOK
<1>5. ~WillDrop(s)
  BY <1>1 DEF WillDrop
<1>6. CASE pc[s] = "clear"
  <2>1. Goto(s, "similar") /\ UNCHANGED rescuing
    BY <1>6 DEF Dropped
  <2>2. /\ "similar" \in Place \ {"idle", "failed"}
        /\ "similar" \notin {"stats", "save", "done"} \cup DropSteps
    BY DEF Place, CreateSteps, DropSteps
  <2>3. AtStep(kind[s], "similar")
    BY <1>3, <1>6
    DEF AtStep, CleanupSteps, CreateSteps, DetectSteps, DropSteps, InfoSteps
  <2>4. pc'[s] = "similar"
    BY <1>3, <1>4, <2>1, <2>2, GotoTypes DEF IInv
  <2>5. kind[s] = "refresh" /\ s \notin mixed =>
          Tidy(s)' /\ (s \notin failed => Unharmed(s)')
    <3> SUFFICES ASSUME kind[s] = "refresh", s \notin mixed
                 PROVE  Tidy(s)' /\ (s \notin failed => Unharmed(s)')
      OBVIOUS
    <3>1. s \notin failed => Unharmed(s)
      BY <1>2, Knows
    <3> QED
      BY <1>4, <1>6, <2>1, <2>4, <3>1 DEF Tidy, Unharmed, DetectSteps, DropSteps
  <2>6. s \notin rescuing
    BY <1>6 DEF IInv, Rescued, CleanupSteps
  <2> QED
    BY <1>1, <1>2, <1>4, <1>5, <2>1, <2>2, <2>3, <2>5, <2>6, MoveInvariant
<1>7. CASE pc[s] = "undo"
  <2>1. Raise(s)
    BY <1>7 DEF Dropped
  <2>2. kind[s] = "refresh" => s \in failed \cup mixed
    BY <1>2, <1>7, Knows DEF Unharmed
  <2> QED BY <1>2, <1>4, <1>1, <1>5, <2>1, <2>2, RaiseInvariant
<1>8. CASE pc[s] = "dropping" /\ s \in rescuing
  <2>1. Raise(s)
    BY <1>8 DEF Dropped
  <2>2. kind[s] = "refresh" => s \in failed \cup mixed
    BY <1>2, <1>8, Knows DEF Unharmed
  <2> QED BY <1>2, <1>4, <1>1, <1>5, <2>1, <2>2, RaiseInvariant
<1>9. CASE pc[s] = "dropping" /\ s \notin rescuing
  <2> DEFINE l == After[kind[s]].cleanup
  <2>1. Goto(s, l) /\ UNCHANGED rescuing
    BY <1>9 DEF Dropped, Return
  <2>2. kind[s] \in {"refresh", "cleanup"}
    BY <1>3, <1>9 DEF AtStep, CleanupSteps
  <2>3. l = IF kind[s] = "refresh" THEN "create" ELSE "done"
    BY <2>2, Returns
  <2> HIDE DEF l
  <2>4. /\ l \in Place \ {"idle", "failed"} /\ AtStep(kind[s], l)
        /\ l \notin {"stats", "save"} \cup DropSteps
    BY <2>3
    DEF Place, Ended, AtStep, CleanupSteps, CreateSteps, DetectSteps, DropSteps,
        InfoSteps
  <2>5. pc'[s] = l
    BY <1>3, <1>4, <2>1, <2>4, GotoTypes DEF IInv
  <2>6. kind[s] = "refresh" /\ s \notin mixed =>
          Tidy(s)' /\ (s \notin failed => Unharmed(s)')
    <3> SUFFICES ASSUME kind[s] = "refresh", s \notin mixed
                 PROVE  Tidy(s)' /\ (s \notin failed => Unharmed(s)')
      OBVIOUS
    <3>1. Tidy(s) /\ (s \notin failed => Unharmed(s))
      BY <1>2, Knows
    <3>2. s \notin failed => s \notin kept
      BY DEF IInv, Rescued
    <3>3. s \notin failed => \A p \in Projections : graph[p] = None
      BY <1>1, <1>9, <3>1, <3>2 DEF Tidy
    <3> QED
      BY <1>4, <2>1, <2>3, <2>5, <3>1, <3>3
      DEF Tidy, Unharmed, DetectSteps, DropSteps
  <2> QED
    BY <1>1, <1>2, <1>4, <1>5, <1>9, <2>1, <2>3, <2>4, <2>6, MoveInvariant
<1> QED BY <1>1, <1>6, <1>7, <1>8, <1>9

\* A call of _create that comes back.
LEMMA CreateInvariant ==
  ASSUME IInv, NEW s \in Tasks, pc[s] \in CreateSteps, pc[s] # "undo",
         NEW l \in CreateSteps \cup {"detect", "done"}, Goto(s, l),
         UNCHANGED <<todo, rescuing, ids, meta, environment>>,
         l = "detect" => kind[s] \in {"refresh", "detect"},
         kind[s] = "refresh" => l # "done",
         graph' \in [Projections -> {None} \cup SUBSET Tasks],
         similar' \subseteq Tasks,
         kind[s] = "refresh" /\ s \notin mixed /\ pc'[s] = l =>
           Tidy(s)' /\ (s \notin failed => Unharmed(s)'),
         BipartiteOwed'
  PROVE  IInv'
<1>1. pc[s] \notin Ended \cup {"idle"}
  BY DEF CreateSteps, Ended
<1>2. s \in Open /\ AtStep(kind[s], pc[s])
  BY <1>1, StepOf
<1>3. l \in Place \ {"idle"} /\ l # "failed"
  BY DEF Place, CreateSteps, DetectSteps, Ended
<1>4. AtStep(kind[s], l)
  BY <1>2
  DEF AtStep, CleanupSteps, CreateSteps, DetectSteps, DropSteps, InfoSteps
<1>5. UNCHANGED <<kind, mixed, faults, failed, kept>>
  BY DEF environment
<1>6. pc'[s] = l
  BY <1>2, <1>3, <1>5, GotoTypes DEF IInv
<1>7. s \notin rescuing
  BY DEF IInv, Rescued, CleanupSteps, CreateSteps
<1>8. /\ todo' \in [Tasks -> SUBSET Projections] /\ faults' \in 0..MaxFaults
      /\ kept' \subseteq failed' /\ StoredOK'
  BY <1>5, Typed DEF IInv, Rescued, StoredOK
<1>9. MetaAgrees'
  <2>1. l \notin {"stats", "save"} /\ pc[s] \notin {"stats", "save"}
    BY DEF CreateSteps
  <2> QED BY <1>2, <1>3, <1>5, <2>1, MetaStays
<1>10. OwnSimilarities'
  BY <1>5 DEF IInv, OwnSimilarities
<1> QED
  BY <1>2, <1>3, <1>4, <1>5, <1>6, <1>7, <1>8, <1>9, <1>10, StepInvariant

LEMMA DeleteSimilarInvariant ==
  ASSUME IInv, NEW s \in Tasks, DeleteSimilar(s)
  PROVE  IInv'
<1>1. /\ pc[s] = "similar" /\ Goto(s, "bipartite") /\ similar' = {}
      /\ UNCHANGED <<todo, rescuing, graph, ids, meta, environment>>
  BY DEF DeleteSimilar, LeftSimilar
<1>2. s \in Open /\ "bipartite" \in Place \ {"idle"}
  BY <1>1, StepOf DEF Ended, Place, CreateSteps
<1>3. kind[s] = "refresh" /\ s \notin mixed /\ pc'[s] = "bipartite" =>
        Tidy(s)' /\ (s \notin failed => Unharmed(s)')
  <2> SUFFICES ASSUME kind[s] = "refresh", s \notin mixed, pc'[s] = "bipartite"
               PROVE  Tidy(s)' /\ (s \notin failed => Unharmed(s)')
    OBVIOUS
  <2>1. s \notin failed => Unharmed(s)
    BY <1>1, Knows DEF Ended
  <2> QED
    BY <1>1, <2>1 DEF Tidy, Unharmed, DetectSteps, DropSteps, environment
<1>4. BipartiteOwed'
  <2>1. ~WillDrop(s)
    BY <1>1 DEF WillDrop
  <2> QED BY <1>1, <1>2, <2>1, BipartiteStays DEF environment
<1>5. graph' \in [Projections -> {None} \cup SUBSET Tasks]
  BY <1>1, Typed DEF IInv, StoredOK
<1> QED BY <1>1, <1>3, <1>4, <1>5, CreateInvariant DEF CreateSteps

LEMMA ProjectBipartiteInvariant ==
  ASSUME IInv, NEW s \in Tasks, ProjectBipartite(s)
  PROVE  IInv'
<1>1. /\ pc[s] = "bipartite"
      /\ UNCHANGED <<similar, ids, meta, environment>>
  BY DEF ProjectBipartite, Project
<1>2. /\ graph \in [Projections -> {None} \cup SUBSET Tasks]
      /\ similar \subseteq Tasks /\ faults \in 0..MaxFaults
  BY Typed DEF IInv, StoredOK
<1>3. pc[s] \notin Ended \cup {"idle"}
  BY <1>1 DEF Ended
<1>4. CASE graph["bipartite"] = None
  <2>1. /\ graph' = [graph EXCEPT !["bipartite"] = {}]
        /\ Goto(s, "write") /\ UNCHANGED <<todo, rescuing>>
    BY <1>4 DEF ProjectBipartite, Project
  <2>2. /\ graph' \in [Projections -> {None} \cup SUBSET Tasks]
        /\ graph'["bipartite"] = {} /\ graph'["skill"] = graph["skill"]
    BY <1>2, <2>1 DEF Projections
  <2>3. {} # None
    BY NoneAssumption
  <2>4. kind[s] = "refresh" /\ s \notin mixed /\ pc'[s] = "write" =>
          Tidy(s)' /\ (s \notin failed => Unharmed(s)')
    <3> SUFFICES ASSUME kind[s] = "refresh", s \notin mixed, pc'[s] = "write"
                 PROVE  Tidy(s)' /\ (s \notin failed => Unharmed(s)')
      OBVIOUS
    <3>1. Tidy(s) /\ (s \notin failed => Unharmed(s))
      BY <1>3, Knows
    <3> QED
      BY <1>1, <2>1, <2>2, <2>3, <3>1
      DEF Tidy, Unharmed, DetectSteps, DropSteps, environment, Projections
  <2>5. BipartiteOwed'
    <3>1. pc'[s] = "write"
      BY <1>1, <1>3, <2>1, StepOf, GotoTypes
      DEF IInv, environment, Place, CreateSteps
    <3> QED BY <3>1 DEF BipartiteOwed, WillDrop
  <2> QED BY <1>1, <1>2, <2>1, <2>2, <2>4, <2>5, CreateInvariant DEF CreateSteps
<1>5. CASE graph["bipartite"] # None
  <2>1. Undo(s) /\ UNCHANGED graph
    BY <1>5 DEF ProjectBipartite, Project
  <2>2. kind[s] = "refresh" => s \in failed \cup mixed
    BY <1>1, <1>3, <1>5, Knows DEF Unharmed, Projections
  <2> QED
    BY <1>1, <1>2, <2>1, <2>2, UndoInvariant DEF CreateSteps, stored, environment
<1> QED BY <1>4, <1>5

LEMMA WriteSimilarInvariant ==
  ASSUME IInv, NEW s \in Tasks, WriteSimilar(s)
  PROVE  IInv'
<1>1. /\ pc[s] = "write" /\ UNCHANGED <<graph, ids, meta, environment>>
  BY DEF WriteSimilar
<1>2. /\ graph \in [Projections -> {None} \cup SUBSET Tasks]
      /\ similar \subseteq Tasks /\ faults \in 0..MaxFaults
  BY Typed DEF IInv, StoredOK
<1>3. pc[s] \notin Ended \cup {"idle"}
  BY <1>1 DEF Ended
<1>4. CASE graph["bipartite"] # None
  <2>1. /\ similar' = similar \cup {s}
        /\ Goto(s, "discard") /\ UNCHANGED <<todo, rescuing>>
    BY <1>4 DEF WriteSimilar
  <2>2. kind[s] = "refresh" /\ s \notin mixed /\ pc'[s] = "discard" =>
          Tidy(s)' /\ (s \notin failed => Unharmed(s)')
    <3> SUFFICES ASSUME kind[s] = "refresh", s \notin mixed, pc'[s] = "discard"
                 PROVE  Tidy(s)' /\ (s \notin failed => Unharmed(s)')
      OBVIOUS
    <3>1. Tidy(s) /\ (s \notin failed => Unharmed(s))
      BY <1>3, Knows
    <3> QED
      BY <1>1, <2>1, <3>1
      DEF Tidy, Unharmed, DetectSteps, DropSteps, environment
  <2>3. BipartiteOwed'
    <3>1. pc'[s] = "discard"
      BY <1>1, <1>3, <2>1, StepOf, GotoTypes
      DEF IInv, environment, Place, CreateSteps
    <3> QED BY <3>1 DEF BipartiteOwed, WillDrop
  <2> QED BY <1>1, <1>2, <2>1, <2>2, <2>3, CreateInvariant DEF CreateSteps
<1>5. CASE graph["bipartite"] = None
  <2>1. Undo(s) /\ UNCHANGED similar
    BY <1>5 DEF WriteSimilar
  <2>2. kind[s] = "refresh" => s \in failed \cup mixed
    BY <1>1, <1>3, <1>5, Knows DEF Unharmed
  <2> QED
    BY <1>1, <1>2, <2>1, <2>2, UndoInvariant DEF CreateSteps, stored, environment
<1> QED BY <1>4, <1>5

LEMMA DropBipartiteInvariant ==
  ASSUME IInv, NEW s \in Tasks, DropBipartite(s)
  PROVE  IInv'
<1>1. /\ pc[s] = "discard" /\ Goto(s, "project")
      /\ graph' = [graph EXCEPT !["bipartite"] = None]
      /\ UNCHANGED <<todo, rescuing, similar, ids, meta, environment>>
  BY DEF DropBipartite
<1>2. /\ graph \in [Projections -> {None} \cup SUBSET Tasks]
      /\ similar' \subseteq Tasks
  BY <1>1, Typed DEF IInv, StoredOK
<1>3. /\ graph' \in [Projections -> {None} \cup SUBSET Tasks]
      /\ graph'["bipartite"] = None /\ graph'["skill"] = graph["skill"]
  BY <1>1, <1>2 DEF Projections
<1>4. kind[s] = "refresh" /\ s \notin mixed /\ pc'[s] = "project" =>
        Tidy(s)' /\ (s \notin failed => Unharmed(s)')
  <2> SUFFICES ASSUME kind[s] = "refresh", s \notin mixed, pc'[s] = "project"
               PROVE  Tidy(s)' /\ (s \notin failed => Unharmed(s)')
    OBVIOUS
  <2>1. Tidy(s) /\ (s \notin failed => Unharmed(s))
    BY <1>1, Knows DEF Ended
  <2> QED
    BY <1>1, <1>3, <2>1 DEF Tidy, Unharmed, DetectSteps, DropSteps, environment
<1>5. BipartiteOwed'
  BY <1>3 DEF BipartiteOwed
<1> QED BY <1>1, <1>2, <1>3, <1>4, <1>5, CreateInvariant DEF CreateSteps

LEMMA ProjectSkillInvariant ==
  ASSUME IInv, NEW s \in Tasks, ProjectSkill(s)
  PROVE  IInv'
<1> DEFINE l == After[kind[s]].create
<1>1. /\ pc[s] = "project"
      /\ UNCHANGED <<similar, ids, meta, environment>>
  BY DEF ProjectSkill, Project
<1>2. /\ graph \in [Projections -> {None} \cup SUBSET Tasks]
      /\ similar \subseteq Tasks /\ faults \in 0..MaxFaults
  BY Typed DEF IInv, StoredOK
<1>3. pc[s] \notin Ended \cup {"idle"}
  BY <1>1 DEF Ended
<1>4. CASE graph["skill"] = None
  <2>1. /\ graph' = [graph EXCEPT !["skill"] = similar]
        /\ Goto(s, l) /\ UNCHANGED <<todo, rescuing>>
    BY <1>4 DEF ProjectSkill, Project
  <2>2. /\ graph' \in [Projections -> {None} \cup SUBSET Tasks]
        /\ graph'["skill"] = similar /\ graph'["bipartite"] = graph["bipartite"]
    BY <1>2, <2>1 DEF Projections
  <2>3. /\ kind[s] \in {"refresh", "create", "detect", "recommend"}
        /\ l = IF kind[s] \in {"refresh", "detect"} THEN "detect" ELSE "done"
    BY <1>1, <1>3, StepOf, Returns DEF AtStep, CreateSteps
  <2> HIDE DEF l
  <2>4. kind[s] = "refresh" /\ s \notin mixed /\ pc'[s] = l =>
          Tidy(s)' /\ (s \notin failed => Unharmed(s)')
    <3> SUFFICES ASSUME kind[s] = "refresh", s \notin mixed, pc'[s] = l
                 PROVE  Tidy(s)' /\ (s \notin failed => Unharmed(s)')
      OBVIOUS
    <3>1. Tidy(s) /\ (s \notin failed => Unharmed(s))
      BY <1>3, Knows
    <3>2. {s} # None /\ l = "detect"
      BY <2>3, NoneAssumption
    <3> QED
      BY <1>1, <2>1, <2>2, <3>1, <3>2
      DEF Tidy, Unharmed, DetectSteps, DropSteps, environment
  <2>5. l \in Place \ {"idle"}
    BY <2>3 DEF Place, DetectSteps, Ended
  <2>6. BipartiteOwed'
    <3>1. ~WillDrop(s) /\ s \in Open
      BY <1>1, <1>3, StepOf DEF WillDrop
    <3> QED BY <1>1, <2>1, <2>2, <2>5, <3>1, BipartiteStays DEF environment
  <2> QED
    BY <1>1, <1>2, <2>1, <2>2, <2>3, <2>4, <2>6, CreateInvariant
    DEF CreateSteps
<1>5. CASE graph["skill"] # None
  <2>1. Undo(s) /\ UNCHANGED graph
    BY <1>5 DEF ProjectSkill, Project
  <2>2. kind[s] = "refresh" => s \in failed \cup mixed
    BY <1>1, <1>3, <1>5, Knows DEF Unharmed
  <2> QED
    BY <1>1, <1>2, <2>1, <2>2, UndoInvariant DEF CreateSteps, stored, environment
<1> QED BY <1>4, <1>5

LEMMA LookInvariant ==
  ASSUME IInv, NEW s \in Tasks, Look(s)
  PROVE  IInv'
<1> DEFINE l == IF graph["skill"] = None THEN "create" ELSE "details"
<1>1. /\ pc[s] = "look" /\ Goto(s, l)
      /\ UNCHANGED <<todo, rescuing, stored, environment>>
  BY DEF Look
<1>2. pc[s] \notin Ended \cup {"idle"}
  BY <1>1 DEF Ended
<1>3. kind[s] \in {"detect", "recommend"}
  BY <1>1, <1>2, StepOf DEF AtStep, InfoSteps
<1>4. l \in {"create", "details"}
  OBVIOUS
<1> HIDE DEF l
<1>5. l \in Place \ {"idle", "failed"} /\ AtStep(kind[s], l)
  BY <1>3, <1>4
  DEF Place, Ended, AtStep, CleanupSteps, CreateSteps, DetectSteps, DropSteps,
      InfoSteps
<1>6. ~WillDrop(s) /\ s \notin rescuing /\ kind[s] # "refresh"
  BY <1>1, <1>3 DEF WillDrop, IInv, Rescued
<1>7. todo' \in [Tasks -> SUBSET Projections]
  BY <1>1, Typed DEF IInv
<1> QED BY <1>1, <1>2, <1>5, <1>6, <1>7, MoveInvariant

LEMMA DetailsInvariant ==
  ASSUME IInv, NEW s \in Tasks, Details(s)
  PROVE  IInv'
<1>1. /\ pc[s] = "details" /\ UNCHANGED <<todo, stored, environment>>
      /\ Raise(s) \/ (Goto(s, After[kind[s]].info) /\ UNCHANGED rescuing)
  BY DEF Details, Return
<1>2. pc[s] \notin Ended \cup {"idle"} /\ ~WillDrop(s)
  BY <1>1 DEF Ended, WillDrop
<1>3. kind[s] \in {"detect", "recommend"}
  BY <1>1, <1>2, StepOf DEF AtStep, InfoSteps
<1>4. CASE Raise(s)
  <2>1. /\ faults' \in 0..MaxFaults /\ failed' = failed /\ kept' = kept
        /\ graph' \in [Projections -> {None} \cup SUBSET Tasks]
        /\ graph' = graph
    BY <1>1, Typed DEF IInv, StoredOK, stored, environment
  <2> QED BY <1>1, <1>2, <1>3, <1>4, <2>1, RaiseInvariant DEF stored, environment
<1>5. CASE Goto(s, After[kind[s]].info) /\ UNCHANGED rescuing
  <2> DEFINE l == After[kind[s]].info
  <2>1. l = "done" \/ (l = "detect" /\ kind[s] = "detect")
    BY <1>3, Returns
  <2> HIDE DEF l
  <2>2. l \in Place \ {"idle", "failed"} /\ AtStep(kind[s], l)
    BY <1>3, <2>1
    DEF Place, Ended, AtStep, CleanupSteps, CreateSteps, DetectSteps, DropSteps,
        InfoSteps
  <2>3. s \notin rescuing /\ kind[s] # "refresh"
    BY <1>1, <1>3 DEF IInv, Rescued
  <2>4. todo' \in [Tasks -> SUBSET Projections] /\ Goto(s, l)
    BY <1>1, <1>5, Typed DEF IInv, l
  <2> QED BY <1>1, <1>2, <1>5, <2>2, <2>3, <2>4, MoveInvariant
<1> QED BY <1>1, <1>4, <1>5

LEMMA DetectExistsInvariant ==
  ASSUME IInv, NEW s \in Tasks, DetectExists(s)
  PROVE  IInv'
<1>1. pc[s] = "exists" /\ UNCHANGED <<todo, stored, environment>>
  BY DEF DetectExists
<1>2. pc[s] \notin Ended \cup {"idle"} /\ ~WillDrop(s)
  BY <1>1 DEF Ended, WillDrop
<1>3. /\ todo' \in [Tasks -> SUBSET Projections] /\ faults' \in 0..MaxFaults
      /\ graph' \in [Projections -> {None} \cup SUBSET Tasks]
      /\ failed' = failed /\ kept' = kept
      /\ UNCHANGED <<kind, mixed, graph, similar, ids, meta>>
  BY <1>1, Typed DEF IInv, StoredOK, stored, environment
<1>4. CASE graph["skill"] = None
  <2>1. Raise(s)
    BY <1>4 DEF DetectExists
  <2>2. kind[s] = "refresh" => s \in failed \cup mixed
    BY <1>1, <1>2, <1>4, Knows DEF Unharmed, DetectSteps
  <2> QED BY <1>1, <1>2, <1>3, <2>1, <2>2, RaiseInvariant
<1>5. CASE graph["skill"] # None
  <2>1. Goto(s, "algorithm") /\ UNCHANGED rescuing
    BY <1>5 DEF DetectExists
  <2>2. "algorithm" \in Place \ {"idle", "failed"}
    BY DEF Place, DetectSteps
  <2>3. pc'[s] = "algorithm"
    BY <1>2, <1>3, <2>1, <2>2, StepOf, GotoTypes DEF IInv
  <2>4. AtStep(kind[s], "algorithm")
    BY <1>1, <1>2, StepOf
    DEF AtStep, CleanupSteps, CreateSteps, DetectSteps, DropSteps, InfoSteps
  <2>5. kind[s] = "refresh" /\ s \notin mixed =>
          Tidy(s)' /\ (s \notin failed => Unharmed(s)')
    <3> SUFFICES ASSUME kind[s] = "refresh", s \notin mixed
                 PROVE  Tidy(s)' /\ (s \notin failed => Unharmed(s)')
      OBVIOUS
    <3>1. Tidy(s) /\ (s \notin failed => Unharmed(s))
      BY <1>2, Knows
    <3> QED
      BY <1>1, <1>3, <2>1, <2>3, <3>1 DEF Tidy, Unharmed, DetectSteps, DropSteps
  <2>6. s \notin rescuing
    BY <1>1 DEF IInv, Rescued, CleanupSteps
  <2> QED
    BY <1>1, <1>2, <1>3, <2>1, <2>2, <2>4, <2>5, <2>6, MoveInvariant
    DEF DropSteps
<1> QED BY <1>4, <1>5

LEMMA OneRefresh ==
  ASSUME IInv, NEW s \in Open, NEW t \in Open,
         kind[s] = "refresh", kind[t] = "refresh"
  PROVE  s = t
  BY Typed DEF IInv, LockOK

LEMMA AlgorithmInvariant ==
  ASSUME IInv, NEW s \in Tasks, Algorithm(s)
  PROVE  IInv'
<1>1. pc[s] = "algorithm" /\ UNCHANGED <<todo, graph, similar, meta, environment>>
  BY DEF Algorithm
<1>2. pc[s] \notin Ended \cup {"idle"} /\ ~WillDrop(s)
  BY <1>1 DEF Ended, WillDrop
<1>3. /\ todo' \in [Tasks -> SUBSET Projections] /\ faults' \in 0..MaxFaults
      /\ graph' \in [Projections -> {None} \cup SUBSET Tasks]
      /\ failed' = failed /\ kept' = kept
      /\ UNCHANGED <<kind, mixed, faults>>
  BY <1>1, Typed DEF IInv, StoredOK, environment
<1>4. CASE graph["skill"] = None
  <2>1. Raise(s) /\ UNCHANGED ids
    BY <1>4 DEF Algorithm
  <2>2. kind[s] = "refresh" => s \in failed \cup mixed
    BY <1>1, <1>2, <1>4, Knows DEF Unharmed, DetectSteps
  <2> QED BY <1>1, <1>2, <1>3, <2>1, <2>2, RaiseInvariant
<1>5. CASE graph["skill"] # None
  <2>1. /\ Goto(s, "stats") /\ UNCHANGED rescuing
        /\ ids' = [by |-> s, from |-> graph["skill"]]
    BY <1>5 DEF Algorithm
  <2>2. "stats" \in Place \ {"idle", "failed"} /\ "stats" \notin Ended
    BY DEF Place, DetectSteps, Ended
  <2>3. s \in Open /\ AtStep(kind[s], pc[s])
    BY <1>2, StepOf
  <2>4. /\ pc'[s] = "stats" /\ \A t \in Tasks \ {s} : pc'[t] = pc[t]
        /\ Open' = Open
    BY <1>3, <2>1, <2>2, <2>3, GotoTypes DEF IInv
  <2>5. AtStep(kind[s], "stats")
    BY <1>1, <2>3
    DEF AtStep, CleanupSteps, CreateSteps, DetectSteps, DropSteps, InfoSteps
  <2>6. kind[s] = "refresh" /\ s \notin mixed =>
          Tidy(s)' /\ (s \notin failed => Unharmed(s)')
    <3> SUFFICES ASSUME kind[s] = "refresh", s \notin mixed
                 PROVE  Tidy(s)' /\ (s \notin failed => Unharmed(s)')
      OBVIOUS
    <3>1. Tidy(s) /\ (s \notin failed => Unharmed(s))
      BY <1>2, Knows
    <3> QED
      BY <1>1, <1>3, <2>1, <2>4, <3>1 DEF Tidy, Unharmed, DetectSteps, DropSteps
  <2>7. s \notin rescuing
    BY <1>1 DEF IInv, Rescued, CleanupSteps
  <2>8. /\ ids' # None /\ ids'.by = s /\ ids'.from = graph["skill"]
        /\ graph["skill"] \subseteq Tasks
    <3>1. graph["skill"] \in SUBSET Tasks
      BY <1>5, Typed DEF IInv, StoredOK, Projections
    <3> QED BY <2>1, <3>1, NoneAssumption
  <2>9. StoredOK'
    BY <1>1, <1>3, <2>8, Typed DEF IInv, StoredOK
  <2>10. MetaAgrees'
    <3>1. ASSUME NEW t \in Tasks \ {s}, kind[t] = "refresh",
                 pc[t] \in {"stats", "save"}
          PROVE  kind[s] # "refresh"
      BY <2>3, <3>1, OneRefresh DEF Open, Ended
    <3> QED
      BY <1>3, <2>4, <2>8, <3>1 DEF MetaAgrees, StatusLags
  <2>11. OwnSimilarities'
    BY <1>1, <1>2, <1>3, <2>8, Knows DEF OwnSimilarities, Tidy
  <2>12. BipartiteOwed'
    BY <1>1, <1>2, <1>3, <2>1, <2>2, <2>3, BipartiteStays
  <2>13. kept' \subseteq failed'
    BY <1>3 DEF IInv, Rescued
  <2> QED
    BY <1>3, <2>1, <2>2, <2>3, <2>5, <2>6, <2>7, <2>9, <2>10, <2>11, <2>12,
       <2>13, <1>1, StepInvariant
<1> QED BY <1>4, <1>5

LEMMA StatsInvariant ==
  ASSUME IInv, NEW s \in Tasks, Stats(s)
  PROVE  IInv'
<1> DEFINE l == After[kind[s]].detect
<1>1. /\ pc[s] = "stats" /\ Goto(s, l)
      /\ UNCHANGED <<todo, rescuing, stored, environment>>
  BY DEF Stats, Return
<1>2. pc[s] \notin Ended \cup {"idle"} /\ ~WillDrop(s)
  BY <1>1 DEF Ended, WillDrop
<1>3. kind[s] \in {"refresh", "detect"}
  BY <1>1, <1>2, StepOf DEF AtStep, DetectSteps
<1>4. l = IF kind[s] = "refresh" THEN "save" ELSE "done"
  BY <1>3, Returns
<1> HIDE DEF l
<1>5. l \in Place \ {"idle", "failed"} /\ AtStep(kind[s], l)
  BY <1>3, <1>4
  DEF Place, Ended, AtStep, CleanupSteps, CreateSteps, DetectSteps, DropSteps,
      InfoSteps
<1>6. s \notin rescuing /\ todo' \in [Tasks -> SUBSET Projections]
  BY <1>1, Typed DEF IInv, Rescued, CleanupSteps
<1>7. pc'[s] = l
  BY <1>1, <1>2, <1>5, StepOf, GotoTypes DEF IInv, environment
<1>8. kind[s] = "refresh" /\ s \notin mixed =>
        Tidy(s)' /\ (s \notin failed => Unharmed(s)')
  <2> SUFFICES ASSUME kind[s] = "refresh", s \notin mixed
               PROVE  Tidy(s)' /\ (s \notin failed => Unharmed(s)')
    OBVIOUS
  <2>1. Tidy(s) /\ (s \notin failed => Unharmed(s))
    BY <1>2, Knows
  <2> QED
    BY <1>1, <1>4, <1>7, <2>1
    DEF Tidy, Unharmed, DetectSteps, DropSteps, stored, environment
<1>9. kind[s] = "refresh" => l \in {"stats", "save"}
  BY <1>4
<1> QED BY <1>1, <1>2, <1>5, <1>6, <1>8, <1>9, MoveInvariant

LEMMA SaveMetaInvariant ==
  ASSUME IInv, NEW s \in Tasks, SaveMeta(s)
  PROVE  IInv'
<1>1. /\ pc[s] = "save" /\ meta' = s /\ Goto(s, After[kind[s]].save)
      /\ UNCHANGED <<todo, rescuing, graph, similar, ids, environment>>
  BY DEF SaveMeta, Return
<1>2. pc[s] \notin Ended \cup {"idle"} /\ ~WillDrop(s)
  BY <1>1 DEF Ended, WillDrop
<1>3. s \in Open /\ kind[s] = "refresh"
  BY <1>1, <1>2, StepOf DEF AtStep
<1>4. Goto(s, "drop")
  BY <1>1, <1>3, Returns
<1>5. "drop" \in Place \ {"idle", "failed"} /\ AtStep(kind[s], "drop")
  BY <1>3
  DEF Place, Ended, AtStep, CleanupSteps, CreateSteps, DetectSteps, DropSteps,
      InfoSteps
<1>6. UNCHANGED <<kind, mixed, faults, failed, kept>>
  BY <1>1 DEF environment
<1>7. s \notin rescuing
  BY <1>1 DEF IInv, Rescued, CleanupSteps
<1>8. pc'[s] = "drop" /\ \A t \in Tasks \ {s} : pc'[t] = pc[t]
  BY <1>3, <1>4, <1>5, <1>6, GotoTypes DEF IInv
<1>9. s \notin mixed => Tidy(s)' /\ (s \notin failed => Unharmed(s)')
  <2> SUFFICES ASSUME s \notin mixed
               PROVE  Tidy(s)' /\ (s \notin failed => Unharmed(s)')
    OBVIOUS
  <2>1. Tidy(s) /\ (s \notin failed => Unharmed(s))
    BY <1>2, <1>3, Knows
  <2> QED
    BY <1>1, <1>6, <1>8, <2>1 DEF Tidy, Unharmed, DetectSteps, DropSteps
<1>10. MetaAgrees'
  <2>1. ids # None /\ (ids.by = s \/ kind[ids.by] # "refresh")
    BY <1>1, <1>3 DEF IInv, MetaAgrees
  <2>2. ids.by \in Tasks
    BY <2>1, Typed DEF IInv, StoredOK
  <2> QED
    BY <1>1, <1>6, <1>8, <2>1, <2>2 DEF IInv, MetaAgrees, StatusLags
<1>11. BipartiteOwed'
  BY <1>1, <1>2, <1>3, <1>4, <1>5, <1>6, BipartiteStays
<1>12. OwnSimilarities' /\ StoredOK'
  BY <1>1, <1>6, Typed DEF IInv, OwnSimilarities, StoredOK
<1>13. /\ todo' \in [Tasks -> SUBSET Projections] /\ faults' \in 0..MaxFaults
       /\ kept' \subseteq failed'
  BY <1>1, <1>6, Typed DEF IInv, Rescued
<1> QED
  BY <1>1, <1>3, <1>4, <1>5, <1>6, <1>7, <1>9, <1>10, <1>11, <1>12, <1>13,
     StepInvariant

LEMMA DropExistsInvariant ==
  ASSUME IInv, NEW s \in Tasks, DropExists(s)
  PROVE  IInv'
<1> DEFINE l == IF graph["skill"] = None THEN After[kind[s]].drop ELSE "remove"
<1>1. /\ pc[s] = "lookup" /\ Goto(s, l)
      /\ UNCHANGED <<todo, rescuing, stored, environment>>
  BY DEF DropExists, Return
<1>2. pc[s] \notin Ended \cup {"idle"} /\ ~WillDrop(s)
  BY <1>1 DEF Ended, WillDrop
<1>3. kind[s] \in {"refresh", "delete"}
  BY <1>1, <1>2, StepOf DEF AtStep, DropSteps
<1>4. l = IF graph["skill"] = None THEN "done" ELSE "remove"
  BY <1>3, Returns
<1> HIDE DEF l
<1>5. l \in Place \ {"idle", "failed"} /\ AtStep(kind[s], l)
  BY <1>3, <1>4
  DEF Place, Ended, AtStep, CleanupSteps, CreateSteps, DetectSteps, DropSteps,
      InfoSteps
<1>6. s \notin rescuing /\ todo' \in [Tasks -> SUBSET Projections]
  BY <1>1, Typed DEF IInv, Rescued, CleanupSteps
<1>7. pc'[s] = l
  BY <1>1, <1>2, <1>5, StepOf, GotoTypes DEF IInv, environment
<1>8. kind[s] = "refresh" /\ s \notin mixed /\ l \notin Ended =>
        Tidy(s)' /\ (s \notin failed => Unharmed(s)')
  <2> SUFFICES ASSUME kind[s] = "refresh", s \notin mixed, l \notin Ended
               PROVE  Tidy(s)' /\ (s \notin failed => Unharmed(s)')
    OBVIOUS
  <2>1. Tidy(s) /\ (s \notin failed => Unharmed(s))
    BY <1>2, Knows
  <2>2. l = "remove" /\ graph["skill"] # None
    BY <1>4 DEF Ended
  <2> QED
    BY <1>1, <1>7, <2>1, <2>2
    DEF Tidy, Unharmed, DetectSteps, DropSteps, stored, environment
<1>9. pc[s] \in DropSteps /\ l \notin {"stats", "save"}
  BY <1>1, <1>4 DEF DropSteps
<1> QED BY <1>1, <1>2, <1>5, <1>6, <1>8, <1>9, MoveInvariant

LEMMA DropInvariant ==
  ASSUME IInv, NEW s \in Tasks, Drop(s)
  PROVE  IInv'
<1>1. /\ pc[s] = "remove" /\ graph' = [graph EXCEPT !["skill"] = None]
      /\ UNCHANGED <<todo, similar, ids, meta, environment>>
  BY DEF Drop
<1>2. pc[s] \notin Ended \cup {"idle"} /\ ~WillDrop(s)
  BY <1>1 DEF Ended, WillDrop
<1>3. /\ todo' \in [Tasks -> SUBSET Projections] /\ faults' \in 0..MaxFaults
      /\ graph' \in [Projections -> {None} \cup SUBSET Tasks]
      /\ graph'["bipartite"] = graph["bipartite"]
      /\ failed' = failed /\ kept' = kept
      /\ UNCHANGED <<kind, mixed, faults>>
  BY <1>1, Typed DEF IInv, StoredOK, environment, Projections
<1>4. CASE graph["skill"] = None
  <2>1. Raise(s)
    BY <1>4 DEF Drop
  <2>2. kind[s] = "refresh" => s \in failed \cup mixed
    BY <1>1, <1>2, <1>4, Knows DEF Unharmed
  <2> QED BY <1>1, <1>2, <1>3, <2>1, <2>2, RaiseInvariant
<1>5. CASE graph["skill"] # None
  <2>1. s \in Open /\ kind[s] \in {"refresh", "delete"}
    BY <1>1, <1>2, StepOf DEF AtStep, DropSteps
  <2>2. Goto(s, "done") /\ UNCHANGED rescuing
    BY <1>5, <2>1, Returns DEF Drop, Return
  <2>3. /\ "done" \in Place \ {"idle", "failed"} /\ "done" \in Ended
        /\ AtStep(kind[s], "done")
    BY DEF Place, Ended, AtStep, CleanupSteps, CreateSteps, DetectSteps,
           DropSteps, InfoSteps
  <2>4. s \notin rescuing
    BY <1>1 DEF IInv, Rescued, CleanupSteps
  <2>5. MetaAgrees'
    BY <1>1, <1>3, <2>1, <2>2, <2>3, MetaStays DEF DropSteps
  <2>6. BipartiteOwed'
    BY <1>1, <1>2, <1>3, <2>1, <2>2, <2>3, BipartiteStays
  <2>7. OwnSimilarities' /\ StoredOK' /\ kept' \subseteq failed'
    BY <1>1, <1>3, Typed DEF IInv, OwnSimilarities, StoredOK, Rescued
  <2> QED
    BY <1>1, <1>3, <2>1, <2>2, <2>3, <2>4, <2>5, <2>6, <2>7, StepInvariant
<1> QED BY <1>4, <1>5

LEMMA CallFailsInvariant ==
  ASSUME IInv, NEW s \in Tasks, CallFails(s)
  PROVE  IInv'
<1>1. /\ faults < MaxFaults /\ faults' = faults + 1
      /\ failed' = failed \cup {s}
      /\ UNCHANGED <<kind, stored, mixed>>
  BY DEF CallFails
<1>2. /\ faults' \in 0..MaxFaults
      /\ graph' \in [Projections -> {None} \cup SUBSET Tasks]
      /\ todo \in [Tasks -> SUBSET Projections]
      /\ StoredOK' /\ OwnSimilarities'
      /\ UNCHANGED <<graph, similar, ids, meta>>
  <2>1. StoredOK /\ faults \in 0..MaxFaults /\ todo \in [Tasks -> SUBSET Projections]
    BY Typed DEF IInv
  <2> QED
    BY <1>1, <2>1, ConstantsAssumption
    DEF IInv, stored, StoredOK, OwnSimilarities
<1>3. CASE /\ pc[s] = "list" /\ Goto(s, "dropping")
           /\ kept' = kept \cup {s} /\ UNCHANGED <<todo, rescuing>>
  <2>1. s \in Open /\ AtStep(kind[s], pc[s])
    BY <1>3, StepOf DEF Ended
  <2>2. /\ "dropping" \in Place \ {"idle", "failed"}
        /\ "dropping" \in CleanupSteps
    BY DEF Place, CleanupSteps
  <2>3. AtStep(kind[s], "dropping")
    BY <1>3, <2>1
    DEF AtStep, CleanupSteps, CreateSteps, DetectSteps, DropSteps, InfoSteps
  <2>4. pc'[s] = "dropping"
    BY <1>1, <1>3, <2>1, <2>2, GotoTypes DEF IInv
  <2>5. Tidy(s)' /\ s \in failed'
    BY <1>1, <1>3, <2>4 DEF Tidy, DetectSteps, DropSteps
  <2>6. MetaAgrees'
    BY <1>1, <1>2, <1>3, <2>1, <2>2, MetaStays DEF DropSteps
  <2>7. BipartiteOwed'
    BY <1>3 DEF BipartiteOwed
  <2>8. /\ kept' \subseteq failed'
        /\ s \in rescuing' => kind[s] = "refresh"
    BY <1>1, <1>3 DEF IInv, Rescued
  <2> QED
    BY <1>1, <1>2, <1>3, <2>1, <2>2, <2>3, <2>5, <2>6, <2>7, <2>8,
       StepInvariant
<1>4. CASE /\ pc[s] \in {"dropping", "clear", "undo"}
           /\ \E p \in todo[s] : todo' = [todo EXCEPT ![s] = @ \ {p}]
           /\ kept' = kept \cup {s} /\ UNCHANGED <<pc, rescuing, lock>>
  <2>1. pc[s] \notin Ended \cup {"idle"}
    BY <1>4 DEF Ended
  <2>2. s \in Open /\ AtStep(kind[s], pc[s])
    BY <2>1, StepOf
  <2>3. Goto(s, pc[s]) /\ pc[s] \in Place \ {"idle"} /\ pc[s] # "failed"
    BY <1>4, <2>1, Stays
  <2>4. /\ todo' \in [Tasks -> SUBSET Projections]
        /\ \A t \in Tasks \ {s} : todo'[t] = todo[t]
    BY <1>2, <1>4
  <2>5. kind[s] = "refresh" /\ s \notin mixed => Tidy(s)'
    BY <1>2, <1>4, <2>1, Knows DEF Tidy, DetectSteps, DropSteps
  <2>6. MetaAgrees'
    BY <1>1, <1>2, <1>4, <2>2, <2>3, MetaStays DEF DropSteps
  <2>7. BipartiteOwed'
    BY <1>4 DEF BipartiteOwed
  <2>8. /\ kept' \subseteq failed' /\ s \in failed'
        /\ s \in rescuing' =>
             kind[s] = "refresh" /\ pc[s] \in CleanupSteps \cup {"failed", "killed"}
    BY <1>1, <1>4 DEF IInv, Rescued
  <2> QED
    BY <1>1, <1>2, <1>4, <2>2, <2>3, <2>4, <2>5, <2>6, <2>7, <2>8,
       StepInvariant
<1>5. CASE /\ pc[s] \in {"similar", "bipartite", "write", "discard", "project"}
           /\ Undo(s) /\ UNCHANGED kept
  BY <1>1, <1>2, <1>5, UndoInvariant DEF CreateSteps
<1>6. CASE /\ pc[s] \in {"look", "details", "exists", "algorithm", "stats",
                         "save", "lookup", "remove"}
           /\ Raise(s) /\ UNCHANGED <<todo, kept>>
  <2>1. pc[s] \notin Ended \cup {"idle"} /\ ~WillDrop(s)
    BY <1>6 DEF Ended, WillDrop
  <2> QED BY <1>1, <1>2, <1>6, <2>1, RaiseInvariant
<1> QED BY <1>3, <1>4, <1>5, <1>6 DEF CallFails

LEMMA RestartInvariant ==
  ASSUME IInv, Restart
  PROVE  IInv'
<1> USE DEF IInv
<1>1. /\ faults < MaxFaults /\ faults' = faults + 1 /\ lock' = None
      /\ pc' = [t \in Tasks |-> IF t \in Open THEN "killed" ELSE pc[t]]
      /\ UNCHANGED <<kind, todo, rescuing, stored, failed, kept, mixed>>
  BY DEF Restart
<1>2. /\ pc' \in [Tasks -> Place]
      /\ \A t \in Tasks : /\ pc'[t] \in Ended \cup {"idle"}
                          /\ pc'[t] = pc[t] \/ (pc[t] # "idle" /\ pc'[t] = "killed")
  <2>1. "killed" \in Place /\ "killed" \in Ended
    BY DEF Place, Ended
  <2> QED BY <1>1, <2>1, Typed DEF Open
<1>3. Open' = {}
  BY <1>2 DEF Open
<1>4. TypeOK'
  <2>1. LockOK'
    BY <1>1, <1>3 DEF LockOK
  <2>2. faults' \in 0..MaxFaults
    BY <1>1, ConstantsAssumption, Typed
  <2>3. \A t \in Tasks : IF pc'[t] = "idle" THEN kind'[t] = None
                                            ELSE kind'[t] \in Allowed[t]
    BY <1>1, <1>2, Typed
  <2>4. StoredOK'
    BY <1>1, Typed DEF stored, StoredOK
  <2> QED
    BY <1>1, <1>2, <2>1, <2>2, <2>3, <2>4, Typed
    DEF TypeOK, LockOK, StoredOK, Place, First, CleanupSteps, CreateSteps,
        DetectSteps, DropSteps, InfoSteps, Ended
<1>5. Placed'
  BY <1>2
  DEF Placed, AtStep, CleanupSteps, CreateSteps, DetectSteps, DropSteps,
      InfoSteps, Ended
<1>6. Rescued'
  BY <1>1, <1>2, Typed DEF Rescued
<1>7. Alone' /\ Uncrossed'
  BY <1>3 DEF Alone, Uncrossed
<1>8. MetaAgrees'
  <2>1. ids # None => ids.by \in Tasks
    BY Typed DEF StoredOK
  <2>2. \A t \in Tasks : pc'[t] \notin {"stats", "save"}
    BY <1>2 DEF Ended
  <2> QED BY <1>1, <1>2, <2>1, <2>2 DEF MetaAgrees, StatusLags, stored
<1>9. OwnSimilarities'
  BY <1>1 DEF OwnSimilarities, stored
<1>10. FailsForAReason'
  BY <1>1, <1>2 DEF FailsForAReason
<1>11. BipartiteOwed'
  BY <1>1, <1>2 DEF BipartiteOwed, WillDrop, stored, Open, Ended
<1> QED BY <1>4, <1>5, <1>6, <1>7, <1>8, <1>9, <1>10, <1>11

LEMMA InitInvariant == Init => IInv
<1> SUFFICES ASSUME Init PROVE IInv
  OBVIOUS
<1> USE DEF Init
<1>1. Open = {}
  BY DEF Open
<1>2. TypeOK
  <2>1. LockOK /\ StoredOK
    BY <1>1 DEF LockOK, StoredOK, Projections
  <2>2. 0 \in 0..MaxFaults
    BY ConstantsAssumption
  <2>3. pc \in [Tasks -> Place] /\ kind \in [Tasks -> {None} \cup DOMAIN After]
    BY DEF Place
  <2> QED BY <2>1, <2>2, <2>3, Typed
<1>3. Placed /\ Rescued /\ Alone /\ Uncrossed
  BY <1>1
  DEF Placed, AtStep, CleanupSteps, CreateSteps, DetectSteps, DropSteps,
      InfoSteps, Rescued, Alone, Uncrossed
<1>4. MetaAgrees /\ OwnSimilarities /\ FailsForAReason /\ BipartiteOwed
  BY DEF MetaAgrees, StatusLags, OwnSimilarities, FailsForAReason, BipartiteOwed,
         Projections
<1> QED BY <1>2, <1>3, <1>4 DEF IInv

LEMMA UnchangedInvariant == IInv /\ UNCHANGED vars => IInv'
<1> SUFFICES ASSUME IInv, UNCHANGED vars PROVE IInv'
  OBVIOUS
<1> USE DEF IInv, vars
<1>1. Open' = Open
  BY DEF Open
<1>2. TypeOK'
  BY <1>1 DEF TypeOK
<1>3. Placed' /\ Rescued' /\ Alone'
  BY <1>1 DEF Placed, Rescued, Alone
<1>4. Uncrossed'
  BY <1>1 DEF Uncrossed, Tidy, Unharmed
<1>5. MetaAgrees' /\ OwnSimilarities' /\ FailsForAReason'
  BY DEF MetaAgrees, StatusLags, OwnSimilarities, FailsForAReason
<1>6. BipartiteOwed'
  BY DEF BipartiteOwed, WillDrop
<1> QED BY <1>2, <1>3, <1>4, <1>5, <1>6

LEMMA NextInvariant == IInv /\ [Next]_vars => IInv'
<1> SUFFICES ASSUME IInv, [Next]_vars PROVE IInv'
  OBVIOUS
<1>1. ASSUME NEW s \in Tasks, Step(s) PROVE IInv'
  <2>1. CASE Begin(s) \/ List(s) \/ Dropped(s)
    BY <2>1, BeginInvariant, ListInvariant, DroppedInvariant
  <2>2. CASE \E p \in Projections : DropOne(s, p)
    BY <2>2, DropOneInvariant
  <2>3. CASE DeleteSimilar(s) \/ ProjectBipartite(s) \/ WriteSimilar(s)
    BY <2>3, DeleteSimilarInvariant, ProjectBipartiteInvariant,
       WriteSimilarInvariant
  <2>4. CASE DropBipartite(s) \/ ProjectSkill(s) \/ Look(s) \/ Details(s)
    BY <2>4, DropBipartiteInvariant, ProjectSkillInvariant, LookInvariant,
       DetailsInvariant
  <2>5. CASE DetectExists(s) \/ Algorithm(s) \/ Stats(s)
    BY <2>5, DetectExistsInvariant, AlgorithmInvariant, StatsInvariant
  <2>6. CASE SaveMeta(s) \/ DropExists(s) \/ Drop(s)
    BY <2>6, SaveMetaInvariant, DropExistsInvariant, DropInvariant
  <2> QED BY <1>1, <2>1, <2>2, <2>3, <2>4, <2>5, <2>6 DEF Step
<1>2. CASE \E s \in Tasks : \E k \in Allowed[s] : Ask(s, k)
  BY <1>2, AskInvariant
<1>3. CASE \E s \in Tasks : CallFails(s)
  BY <1>3, CallFailsInvariant
<1>4. CASE Restart
  BY <1>4, RestartInvariant
<1>5. CASE UNCHANGED vars
  BY <1>5, UnchangedInvariant
<1> QED BY <1>1, <1>2, <1>3, <1>4, <1>5 DEF Next

-----------------------------------------------------------------------------
(* The end of a refresh                                                     *)

CleansUp ==
  \A t \in Tasks :
    /\ kind[t] = "refresh" /\ t \notin mixed \cup kept'
    /\ pc[t] # "failed" /\ pc[t] # "done"
    /\ pc'[t] \in {"done", "failed"}
    => \A p \in Projections : graph'[p] = None

\* A step that takes its request to a place where it has not ended.
LEMMA GoesOn ==
  ASSUME IInv, NEW s \in Tasks, pc[s] \notin Ended \cup {"idle"},
         NEW l \in Place \ {"idle"}, Goto(s, l), kind' = kind,
         kind[s] = "refresh" /\ s \notin mixed \cup kept' =>
           l \notin {"done", "failed"} \/ \A p \in Projections : graph'[p] = None
  PROVE  CleansUp
<1>1. pc'[s] = l /\ \A t \in Tasks \ {s} : pc'[t] = pc[t]
  BY StepOf, GotoTypes DEF IInv
<1> QED BY <1>1 DEF CleansUp

LEMMA RaiseGoesOn ==
  ASSUME IInv, NEW s \in Tasks, pc[s] \notin Ended \cup {"idle"}, Raise(s),
         kind' = kind, s \notin rescuing
  PROVE  CleansUp
<1>1. CASE kind[s] = "refresh"
  <2>1. Goto(s, "cleanup")
    BY <1>1 DEF Raise
  <2>2. "cleanup" \in Place \ {"idle"}
    BY DEF Place, CleanupSteps
  <2> QED BY <2>1, <2>2, GoesOn
<1>2. CASE kind[s] # "refresh"
  <2>1. Goto(s, "failed")
    BY <1>2 DEF Raise
  <2>2. "failed" \in Place \ {"idle"}
    BY DEF Place, Ended
  <2> QED BY <1>2, <2>1, <2>2, GoesOn
<1> QED BY <1>1, <1>2

\* A place in the middle of a refresh is no place to rescue from.
LEMMA NotRescuing ==
  ASSUME IInv, NEW s \in Tasks,
         pc[s] \in CreateSteps \cup DetectSteps \cup DropSteps \cup InfoSteps
                     \cup {"save"}
  PROVE  s \notin rescuing /\ pc[s] \notin Ended \cup {"idle"}
  BY DEF IInv, Rescued, CleanupSteps, CreateSteps, DetectSteps, DropSteps,
         InfoSteps, Ended

\* Of the steps of an uncrossed refresh two end it: the last one of its clean-up
\* after an error, and the last one of all.
LEMMA StepCleansUp ==
  ASSUME IInv, NEW s \in Tasks, Step(s)
  PROVE  CleansUp
<1> USE DEF Place, CreateSteps, CleanupSteps, DetectSteps, DropSteps, InfoSteps
<1>1. CASE Begin(s)
  <2>1. \A t \in Tasks : pc'[t] = pc[t] \/ pc'[t] \notin {"done", "failed"}
    <3>1. First[pc[s]] \notin {"done", "failed"}
      BY <1>1 DEF Begin, First
    <3> QED BY <1>1, <3>1, Typed DEF IInv, Begin
  <2> QED BY <2>1 DEF CleansUp
<1>2. CASE List(s)
  BY <1>2, GoesOn DEF List, environment, Ended
<1>3. CASE \E p \in Projections : DropOne(s, p)
  BY <1>3 DEF DropOne, CleansUp
<1>4. CASE Dropped(s)
  <2>1. /\ pc[s] \in {"dropping", "clear", "undo"} /\ todo[s] = {}
        /\ kind' = kind /\ graph' = graph /\ kept' = kept
        /\ pc[s] \notin Ended \cup {"idle"}
    BY <1>4 DEF Dropped, stored, environment, Ended
  <2>2. CASE pc[s] = "clear"
    <3>1. Goto(s, "similar")
      BY <1>4, <2>2 DEF Dropped
    <3> QED BY <2>1, <3>1, GoesOn
  <2>3. CASE pc[s] = "undo"
    <3>1. Raise(s)
      BY <1>4, <2>3 DEF Dropped
    <3> QED BY <2>1, <2>3, <3>1, NotRescuing, RaiseGoesOn
  <2>4. CASE pc[s] = "dropping"
    <3>1. kind[s] = "refresh" /\ s \notin mixed \cup kept =>
            \A p \in Projections : graph[p] = None
      BY <2>1, <2>4, Knows DEF Tidy
    <3>2. CASE s \in rescuing
      <4>1. Goto(s, "failed")
        BY <1>4, <2>4, <3>2 DEF Dropped, Raise
      <4>2. "failed" \in Ended
        BY DEF Ended
      <4> QED BY <2>1, <3>1, <4>1, <4>2, GoesOn
    <3>3. CASE s \notin rescuing
      <4>1. Goto(s, After[kind[s]].cleanup)
        BY <1>4, <2>4, <3>3 DEF Dropped, Return
      <4>2. kind[s] \in {"refresh", "cleanup"}
        BY <2>1, <2>4, StepOf DEF AtStep
      <4>3. /\ After[kind[s]].cleanup \in {"create", "done"}
            /\ "create" \in Place \ {"idle"} /\ "done" \in Place \ {"idle"}
        BY <4>2, Returns DEF Ended
      <4> QED BY <2>1, <3>1, <4>1, <4>3, GoesOn
    <3> QED BY <3>2, <3>3
  <2> QED BY <2>1, <2>2, <2>3, <2>4
<1>5. CASE DeleteSimilar(s)
  BY <1>5, NotRescuing, GoesOn DEF DeleteSimilar, environment
<1>6. CASE ProjectBipartite(s)
  <2>1. Goto(s, "write") \/ Goto(s, "undo")
    BY <1>6 DEF ProjectBipartite, Project, Undo
  <2> QED
    BY <1>6, <2>1, NotRescuing, GoesOn DEF ProjectBipartite, Project, environment
<1>7. CASE WriteSimilar(s)
  <2>1. Goto(s, "discard") \/ Goto(s, "undo")
    BY <1>7 DEF WriteSimilar, Undo
  <2> QED BY <1>7, <2>1, NotRescuing, GoesOn DEF WriteSimilar, environment
<1>8. CASE DropBipartite(s)
  BY <1>8, NotRescuing, GoesOn DEF DropBipartite, environment
<1>9. CASE ProjectSkill(s)
  <2>1. Goto(s, After[kind[s]].create) \/ Goto(s, "undo")
    BY <1>9 DEF ProjectSkill, Project, Undo
  <2>2. /\ pc[s] = "project" /\ kind' = kind
        /\ pc[s] \notin Ended \cup {"idle"}
    BY <1>9 DEF ProjectSkill, Project, environment, Ended
  <2>3. kind[s] \in {"refresh", "create", "detect", "recommend"}
    BY <2>2, StepOf DEF AtStep
  <2>4. /\ After[kind[s]].create \in {"detect", "done"}
        /\ kind[s] = "refresh" => After[kind[s]].create = "detect"
        /\ "done" \in Place
    BY <2>3, Returns DEF Ended
  <2> QED BY <2>1, <2>2, <2>4, GoesOn
<1>10. CASE Look(s)
  <2>1. /\ pc[s] = "look" /\ kind' = kind
        /\ pc[s] \notin Ended \cup {"idle"}
    BY <1>10 DEF Look, environment, Ended
  <2>2. kind[s] \in {"detect", "recommend"}
    BY <2>1, StepOf DEF AtStep
  <2>3. \E l \in {"create", "details"} : Goto(s, l)
    BY <1>10, <2>2 DEF Look
  <2>4. {"create", "details"} \subseteq Place \ {"idle"}
    BY DEF Ended
  <2> QED BY <2>1, <2>2, <2>3, <2>4, GoesOn
<1>17. CASE Details(s)
  <2>1. /\ pc[s] = "details" /\ kind' = kind
        /\ pc[s] \notin Ended \cup {"idle"}
    BY <1>17 DEF Details, environment, Ended
  <2>2. kind[s] \in {"detect", "recommend"}
    BY <2>1, StepOf DEF AtStep
  <2>3. Raise(s) \/ \E l \in {"detect", "done"} : Goto(s, l)
    BY <1>17, <2>2, Returns DEF Details, Return
  <2>4. {"detect", "done"} \subseteq Place \ {"idle"}
    BY DEF Ended
  <2>5. s \notin rescuing
    BY <2>2 DEF IInv, Rescued
  <2> QED BY <2>1, <2>2, <2>3, <2>4, <2>5, GoesOn, RaiseGoesOn
<1>11. CASE DetectExists(s)
  <2>1. Raise(s) \/ Goto(s, "algorithm")
    BY <1>11 DEF DetectExists
  <2> QED
    BY <1>11, <2>1, NotRescuing, GoesOn, RaiseGoesOn
    DEF DetectExists, environment
<1>12. CASE Algorithm(s)
  <2>1. Raise(s) \/ Goto(s, "stats")
    BY <1>12 DEF Algorithm
  <2> QED
    BY <1>12, <2>1, NotRescuing, GoesOn, RaiseGoesOn DEF Algorithm, environment
<1>13. CASE Stats(s)
  <2>1. /\ pc[s] = "stats" /\ kind' = kind /\ Goto(s, After[kind[s]].detect)
        /\ pc[s] \notin Ended \cup {"idle"}
    BY <1>13 DEF Stats, Return, environment, Ended
  <2>2. kind[s] \in {"refresh", "detect"}
    BY <2>1, StepOf DEF AtStep
  <2>3. /\ After[kind[s]].detect \in {"save", "done"}
        /\ kind[s] = "refresh" => After[kind[s]].detect = "save"
        /\ {"save", "done"} \subseteq Place \ {"idle"}
    BY <2>2, Returns DEF Ended
  <2> QED BY <2>1, <2>3, GoesOn
<1>14. CASE SaveMeta(s)
  <2>1. /\ pc[s] = "save" /\ kind' = kind /\ Goto(s, After[kind[s]].save)
        /\ pc[s] \notin Ended \cup {"idle"}
    BY <1>14 DEF SaveMeta, Return, environment, Ended
  <2>2. Goto(s, "drop")
    BY <2>1, StepOf, Returns DEF AtStep
  <2> QED BY <2>1, <2>2, GoesOn
<1>15. CASE DropExists(s)
  <2>1. /\ pc[s] = "lookup" /\ kind' = kind /\ graph' = graph
        /\ pc[s] \notin Ended \cup {"idle"}
    BY <1>15 DEF DropExists, environment, stored, Ended
  <2>2. kind[s] \in {"refresh", "delete"}
    BY <2>1, StepOf DEF AtStep
  <2>3. \/ graph["skill"] = None /\ Goto(s, "done")
        \/ Goto(s, "remove")
    BY <1>15, <2>2, Returns DEF DropExists, Return
  <2>4. kind[s] = "refresh" /\ s \notin mixed => graph["bipartite"] = None
    BY <2>1, Knows DEF Tidy
  <2>5. "done" \in Place \ {"idle"}
    BY DEF Ended
  <2> QED BY <2>1, <2>3, <2>4, <2>5, GoesOn DEF Projections
<1>16. CASE Drop(s)
  <2>1. /\ pc[s] = "remove" /\ kind' = kind
        /\ graph' = [graph EXCEPT !["skill"] = None]
        /\ pc[s] \notin Ended \cup {"idle"}
    BY <1>16 DEF Drop, environment, Ended
  <2>2. Raise(s) \/ Goto(s, After[kind[s]].drop)
    BY <1>16 DEF Drop, Return
  <2>3. kind[s] \in {"refresh", "delete"}
    BY <2>1, StepOf DEF AtStep
  <2>4. Raise(s) \/ Goto(s, "done")
    BY <2>2, <2>3, Returns
  <2>5. kind[s] = "refresh" /\ s \notin mixed =>
          \A p \in Projections : graph'[p] = None
    <3>1. graph \in [Projections -> {None} \cup SUBSET Tasks]
      BY Typed DEF IInv, StoredOK
    <3> QED BY <2>1, <3>1, Knows DEF Tidy, Projections
  <2>6. "done" \in Place \ {"idle"}
    BY DEF Ended
  <2> QED BY <2>1, <2>4, <2>5, <2>6, NotRescuing, RaiseGoesOn, GoesOn
<1> QED
  BY <1>1, <1>2, <1>3, <1>4, <1>5, <1>6, <1>7, <1>8, <1>9, <1>10, <1>11, <1>12,
     <1>13, <1>14, <1>15, <1>16, <1>17 DEF Step

LEMMA CallFailsCleansUp ==
  ASSUME IInv, NEW s \in Tasks, CallFails(s)
  PROVE  CleansUp
<1> USE DEF Place, CreateSteps, CleanupSteps, DetectSteps, DropSteps, InfoSteps
<1>1. kind' = kind
  BY DEF CallFails
<1>2. CASE pc[s] = "list" /\ Goto(s, "dropping")
  BY <1>1, <1>2, GoesOn DEF Ended
<1>3. CASE UNCHANGED pc
  BY <1>3 DEF CleansUp
<1>4. CASE /\ pc[s] \in {"similar", "bipartite", "write", "discard", "project"}
           /\ Undo(s)
  BY <1>1, <1>4, NotRescuing, GoesOn DEF Undo
<1>5. CASE /\ pc[s] \in {"look", "details", "exists", "algorithm", "stats",
                         "save", "lookup", "remove"}
           /\ Raise(s)
  BY <1>1, <1>5, NotRescuing, RaiseGoesOn
<1> QED BY <1>2, <1>3, <1>4, <1>5 DEF CallFails

LEMMA NextCleansUp == IInv /\ [Next]_vars => [CleansUp]_vars
<1> SUFFICES ASSUME IInv, Next PROVE CleansUp
  OBVIOUS
<1>1. CASE \E s \in Tasks : Step(s)
  BY <1>1, StepCleansUp
<1>2. CASE \E s \in Tasks : CallFails(s)
  BY <1>2, CallFailsCleansUp
<1>3. CASE \E s \in Tasks : \E k \in Allowed[s] : Ask(s, k)
  <2>1. PICK s \in Tasks : pc[s] = "idle" /\ \A t \in Tasks \ {s} : pc'[t] = pc[t]
    BY <1>3, Typed DEF Ask, IInv
  <2>2. kind[s] # "refresh"
    BY <2>1, Typed, Kinds DEF IInv
  <2> QED BY <2>1, <2>2 DEF CleansUp
<1>4. CASE Restart
  BY <1>4, Typed DEF Restart, CleansUp, IInv
<1> QED BY <1>1, <1>2, <1>3, <1>4 DEF Next

-----------------------------------------------------------------------------
(* Theorems                                                                 *)

\* The inductive invariant holds of every state (community_batch_service.py,
\* gds_service.py).
THEOREM Invariance == Spec => []IInv
<1>1. Init => IInv
  BY InitInvariant
<1>2. IInv /\ [Next]_vars => IInv'
  BY NextInvariant
<1> QED BY <1>1, <1>2, PTL DEF Spec

\* Two refreshes never harm each other, whatever they leave behind: a refresh
\* fails only for a fault of its own or a request of another kind, its
\* communities are of its own similarities, and the status is of the refresh
\* whose communities are there unless that one has yet to save it, was killed or
\* failed in a call after writing them (_run_refresh under _refresh_lock).
THEOREM RefreshesStayApart == Spec => []RefreshesApart
<1>1. IInv => RefreshesApart
  <2>1. IInv => StatusLags
    BY DEF IInv, MetaAgrees
  <2> QED BY <2>1 DEF IInv, RefreshesApart
<1> QED BY <1>1, Invariance, PTL

\* When no request is open, the intermediate projection is gone, unless a call
\* to drop it failed or the process was killed
\* (create_skill_similarity_projection).
THEOREM BipartiteIsDropped == Spec => []NoBipartiteLeft
<1>1. IInv => NoBipartiteLeft
  <2>1. \A t \in Tasks : WillDrop(t) => t \in Open
    BY DEF WillDrop, Open, Ended
  <2> QED BY <2>1 DEF IInv, BipartiteOwed, NoBipartiteLeft
<1> QED BY <1>1, Invariance, PTL

\* A refresh that no other kind of request crossed ends without projections,
\* if it succeeds and if it fails (_run_refresh, its except clause).
THEOREM RefreshesCleanUp == Spec => RefreshCleansUp
<1>1. IInv /\ [Next]_vars => [CleansUp]_vars
  BY NextCleansUp
<1>2. Spec => [][CleansUp]_vars
  BY <1>1, Invariance, PTL DEF Spec
<1> QED BY <1>2 DEF RefreshCleansUp, CleansUp

-----------------------------------------------------------------------------
(* The way to an end                                                         *)

\* How far a place is from the end of its request, if no call fails.
Distance(l) ==
  CASE l = "info" -> 22 [] l = "look" -> 21 [] l = "details" -> 20
    [] l = "cleanup" -> 19 [] l = "list" -> 18 [] l = "dropping" -> 17
    [] l = "create" -> 16 [] l = "clear" -> 15 [] l = "similar" -> 14
    [] l = "bipartite" -> 13 [] l = "write" -> 12 [] l = "discard" -> 11
    [] l = "project" -> 10 [] l = "undo" -> 9
    [] l = "detect" -> 8 [] l = "exists" -> 7 [] l = "algorithm" -> 6
    [] l = "stats" -> 5 [] l = "save" -> 4
    [] l = "drop" -> 3 [] l = "lookup" -> 2 [] OTHER -> 1

ToDrop(S) ==
  (IF "skill" \in S THEN 1 ELSE 0) + (IF "bipartite" \in S THEN 1 ELSE 0)

\* A bound of the steps a request can still take: a refresh may go back once, to
\* clean up after an error, and a place may have projections to drop.
Left(t) ==
  IF pc[t] \in Ended \cup {"idle"} THEN 0
  ELSE 3 * Distance(pc[t]) + ToDrop(todo[t])
         + (IF kind[t] = "refresh" /\ t \notin rescuing THEN 70 ELSE 0)

\* Every step of a request, and every call of it that fails, brings it nearer to
\* its end; the steps of others do not take it back, and no request comes twice
\* (_run_refresh, whose except clause cleans up once; the drops that are tried
\* for each projection in turn).
RequestsAdvance ==
  [][\A t \in Tasks : pc[t] # "idle" =>
       /\ pc'[t] # "idle"
       /\ Left(t)' \in 0 .. Left(t)
       /\ Step(t) \/ CallFails(t) => Left(t)' < Left(t)]_vars

LEMMA DistanceIs ==
  /\ \A l : Distance(l) \in 1 .. 22
  /\ \A S : ToDrop(S) \in 0 .. 2
BY DEF Distance, ToDrop

LEMMA LeftIs ==
  ASSUME NEW t \in Tasks
  PROVE  /\ Left(t) \in Nat
         /\ pc[t] \notin Ended \cup {"idle"} => Left(t) # 0
<1>1. PICK d \in 1 .. 22 : d = Distance(pc[t])
  BY DistanceIs
<1>2. PICK n \in 0 .. 2 : n = ToDrop(todo[t])
  BY DistanceIs
<1>3. PICK c \in {0, 70} :
        c = IF kind[t] = "refresh" /\ t \notin rescuing THEN 70 ELSE 0
  OBVIOUS
<1>4. Left(t) = IF pc[t] \in Ended \cup {"idle"} THEN 0 ELSE 3 * d + n + c
  BY <1>1, <1>2, <1>3 DEF Left
<1> QED BY <1>4

LEMMA LeftIsNatural == \A t \in Tasks : Left(t) \in Nat
BY LeftIs

\* A request that goes on goes forward.
LEMMA Forward ==
  ASSUME IInv, NEW s \in Tasks, pc[s] \notin Ended \cup {"idle"},
         NEW l \in Place \ {"idle"}, Goto(s, l),
         l \in Ended \/ Distance(l) < Distance(pc[s]),
         UNCHANGED <<kind, rescuing>>
  PROVE  Left(s)' < Left(s) /\ pc'[s] # "idle"
<1>1. pc'[s] = l
  BY StepOf, GotoTypes DEF IInv
<1>2. CASE l \in Ended
  <2>1. Left(s)' = 0
    BY <1>1, <1>2 DEF Left
  <2>2. PICK n \in Nat \ {0} : n = Left(s)
    BY LeftIs
  <2> QED BY <1>1, <2>1, <2>2
<1>3. CASE l \notin Ended
  <2>1. PICK d \in 1 .. 22, e \in 1 .. 22 : d = Distance(pc[s]) /\ e = Distance(l)
    BY DistanceIs
  <2>2. PICK n \in 0 .. 2, m \in 0 .. 2 : n = ToDrop(todo[s]) /\ m = ToDrop(todo'[s])
    BY DistanceIs
  <2>3. PICK c \in {0, 70} :
          c = IF kind[s] = "refresh" /\ s \notin rescuing THEN 70 ELSE 0
    OBVIOUS
  <2>4. Left(s) = 3 * d + n + c
    BY <2>1, <2>2, <2>3 DEF Left
  <2>5. Left(s)' = 3 * e + m + c
    BY <1>1, <1>3, <2>1, <2>2, <2>3 DEF Left
  <2>6. e < d
    BY <1>3, <2>1
  <2> QED BY <1>1, <2>4, <2>5, <2>6
<1> QED BY <1>2, <1>3

\* An exception ends a request, or costs a refresh its one chance to clean up.
LEMMA RaiseNearer ==
  ASSUME IInv, NEW s \in Tasks, pc[s] \notin Ended \cup {"idle"}, Raise(s),
         UNCHANGED kind
  PROVE  Left(s)' < Left(s) /\ pc'[s] # "idle"
<1>1. CASE kind[s] = "refresh" /\ s \notin rescuing
  <2>1. Goto(s, "cleanup") /\ rescuing' = rescuing \cup {s}
    BY <1>1 DEF Raise
  <2>2. "cleanup" \in Place \ {"idle"} /\ "cleanup" \notin Ended
    BY DEF Place, CleanupSteps, Ended
  <2>3. pc'[s] = "cleanup"
    BY <2>1, <2>2, StepOf, GotoTypes DEF IInv
  <2>4. PICK d \in 1 .. 22 : d = Distance(pc[s])
    BY DistanceIs
  <2>5. PICK n \in 0 .. 2, m \in 0 .. 2 : n = ToDrop(todo[s]) /\ m = ToDrop(todo'[s])
    BY DistanceIs
  <2>6. Left(s) = 3 * d + n + 70
    BY <1>1, <2>4, <2>5 DEF Left
  <2>7. Left(s)' = 3 * 19 + m + 0
    <3>1. Distance("cleanup") = 19
      BY DEF Distance
    <3> QED BY <2>1, <2>2, <2>3, <2>5, <3>1 DEF Left
  <2> QED BY <2>3, <2>6, <2>7
<1>2. CASE ~(kind[s] = "refresh" /\ s \notin rescuing)
  <2>1. Goto(s, "failed") /\ rescuing' = rescuing
    BY <1>2 DEF Raise
  <2>2. "failed" \in Place \ {"idle"} /\ "failed" \in Ended
    BY DEF Place, Ended
  <2> QED BY <2>1, <2>2, Forward
<1> QED BY <1>1, <1>2

\* A projection that was tried is not tried again.
LEMMA TriedNearer ==
  ASSUME IInv, NEW s \in Tasks, pc[s] \notin Ended \cup {"idle"},
         NEW p \in todo[s], todo' = [todo EXCEPT ![s] = @ \ {p}],
         UNCHANGED <<pc, kind, rescuing>>
  PROVE  Left(s)' < Left(s) /\ pc'[s] # "idle"
<1>1. todo'[s] = todo[s] \ {p} /\ p \in {"skill", "bipartite"}
  BY Typed DEF IInv, Projections
<1>2. PICK n \in 0 .. 2, m \in 0 .. 2 :
        n = ToDrop(todo[s]) /\ m = ToDrop(todo'[s]) /\ m < n
  BY <1>1 DEF ToDrop
<1>3. PICK d \in 1 .. 22 : d = Distance(pc[s])
  BY DistanceIs
<1>4. PICK c \in {0, 70} :
        c = IF kind[s] = "refresh" /\ s \notin rescuing THEN 70 ELSE 0
  OBVIOUS
<1>5. Left(s) = 3 * d + n + c /\ Left(s)' = 3 * d + m + c
  BY <1>2, <1>3, <1>4 DEF Left
<1> QED BY <1>2, <1>5

\* The places in the order in which a request may come to them.
LEMMA Order ==
  /\ Distance("list") < Distance("cleanup") /\ Distance("clear") < Distance("create")
  /\ Distance("exists") < Distance("detect") /\ Distance("lookup") < Distance("drop")
  /\ Distance("look") < Distance("info") /\ Distance("dropping") < Distance("list")
  /\ Distance("similar") < Distance("clear") /\ Distance("create") < Distance("dropping")
  /\ Distance("bipartite") < Distance("similar") /\ Distance("write") < Distance("bipartite")
  /\ Distance("discard") < Distance("write") /\ Distance("project") < Distance("discard")
  /\ \A l \in {"similar", "bipartite", "write", "discard", "project"} :
       Distance("undo") < Distance(l)
  /\ Distance("detect") < Distance("project")
  /\ \A l \in {"create", "details"} : Distance(l) < Distance("look")
  /\ Distance("detect") < Distance("details")
  /\ Distance("algorithm") < Distance("exists") /\ Distance("stats") < Distance("algorithm")
  /\ Distance("save") < Distance("stats") /\ Distance("drop") < Distance("save")
  /\ Distance("remove") < Distance("lookup")
BY DEF Distance

LEMMA Places ==
  /\ {"list", "clear", "exists", "lookup", "look", "details", "dropping", "similar", "create",
      "bipartite", "write", "discard", "project", "undo", "detect", "algorithm",
      "stats", "save", "drop", "remove", "done"} \subseteq Place \ {"idle"}
  /\ "done" \in Ended
  /\ \A l \in {"cleanup", "list", "clear", "exists", "lookup", "look", "details", "dropping",
               "similar", "create", "bipartite", "write", "discard", "project", "undo",
               "detect", "algorithm", "stats", "save", "drop", "remove", "info"} :
       l \notin Ended \cup {"idle"}
BY DEF Place, CleanupSteps, CreateSteps, DetectSteps, DropSteps, InfoSteps, Ended

LEMMA StepNearer ==
  ASSUME IInv, NEW s \in Tasks, Step(s)
  PROVE  Left(s)' < Left(s) /\ pc'[s] # "idle"
<1>1. CASE Begin(s)
  <2> DEFINE l == First[pc[s]]
  <2>1. /\ pc[s] \in {"cleanup", "create", "detect", "drop", "info"}
        /\ pc' = [pc EXCEPT ![s] = l] /\ UNCHANGED <<lock, kind, rescuing>>
    BY <1>1 DEF Begin, First, environment
  <2>2. /\ l \in {"list", "clear", "exists", "lookup", "look"}
        /\ Distance(l) < Distance(pc[s])
    BY <2>1, Order DEF First
  <2>3. Goto(s, l)
    <3>1. ~Releases(l)
      BY <2>2, Places DEF Releases
    <3> QED BY <2>1, <3>1 DEF Goto
  <2> HIDE DEF l
  <2> QED BY <2>1, <2>2, <2>3, Places, Forward
<1>2. CASE List(s)
  BY <1>2, Order, Places, Forward DEF List, environment
<1>3. CASE \E p \in Projections : DropOne(s, p)
  BY <1>3, Places, TriedNearer DEF DropOne, environment
<1>4. CASE Dropped(s)
  <2>1. pc[s] \in {"dropping", "clear", "undo"} /\ kind' = kind
    BY <1>4 DEF Dropped, environment
  <2>2. pc[s] \notin Ended \cup {"idle"}
    BY <2>1, Places
  <2>3. CASE pc[s] = "clear"
    BY <1>4, <2>1, <2>2, <2>3, Order, Places, Forward DEF Dropped
  <2>4. CASE pc[s] = "undo" \/ (pc[s] = "dropping" /\ s \in rescuing)
    <3>1. Raise(s)
      BY <1>4, <2>4 DEF Dropped
    <3> QED BY <2>1, <2>2, <3>1, RaiseNearer
  <2>5. CASE pc[s] = "dropping" /\ s \notin rescuing
    <3>1. Goto(s, After[kind[s]].cleanup) /\ rescuing' = rescuing
      BY <1>4, <2>5 DEF Dropped, Return
    <3>2. kind[s] \in {"refresh", "cleanup"}
      BY <2>2, <2>5, StepOf DEF AtStep, CleanupSteps
    <3>3. Goto(s, "create") \/ Goto(s, "done")
      BY <3>1, <3>2, Returns
    <3> QED BY <2>1, <2>2, <2>5, <3>1, <3>3, Order, Places, Forward
  <2> QED BY <2>1, <2>3, <2>4, <2>5
<1>5. CASE DeleteSimilar(s)
  BY <1>5, Order, Places, Forward DEF DeleteSimilar, environment
<1>6. CASE ProjectBipartite(s)
  <2>1. (Goto(s, "write") \/ Goto(s, "undo")) /\ rescuing' = rescuing
    BY <1>6 DEF ProjectBipartite, Project, Undo
  <2>2. pc[s] = "bipartite" /\ kind' = kind
    BY <1>6 DEF ProjectBipartite, Project, environment
  <2> QED BY <2>1, <2>2, Order, Places, Forward
<1>7. CASE WriteSimilar(s)
  <2>1. (Goto(s, "discard") \/ Goto(s, "undo")) /\ rescuing' = rescuing
    BY <1>7 DEF WriteSimilar, Undo
  <2>2. pc[s] = "write" /\ kind' = kind
    BY <1>7 DEF WriteSimilar, environment
  <2> QED BY <2>1, <2>2, Order, Places, Forward
<1>8. CASE DropBipartite(s)
  BY <1>8, Order, Places, Forward DEF DropBipartite, environment
<1>9. CASE ProjectSkill(s)
  <2>1. /\ Goto(s, After[kind[s]].create) \/ Goto(s, "undo")
        /\ rescuing' = rescuing
    BY <1>9 DEF ProjectSkill, Project, Undo
  <2>2. pc[s] = "project" /\ kind' = kind
    BY <1>9 DEF ProjectSkill, Project, environment
  <2>3. kind[s] \in {"refresh", "create", "detect", "recommend"}
    BY <2>2, Places, StepOf DEF AtStep, CreateSteps
  <2>4. Goto(s, "detect") \/ Goto(s, "done") \/ Goto(s, "undo")
    BY <2>1, <2>3, Returns
  <2> QED BY <2>1, <2>2, <2>4, Order, Places, Forward
<1>10. CASE Look(s)
  <2>1. pc[s] = "look" /\ kind' = kind /\ rescuing' = rescuing
    BY <1>10 DEF Look, environment
  <2>2. kind[s] \in {"detect", "recommend"}
    BY <2>1, Places, StepOf DEF AtStep, InfoSteps
  <2>3. Goto(s, "create") \/ Goto(s, "details")
    BY <1>10 DEF Look
  <2> QED BY <2>1, <2>3, Order, Places, Forward
<1>17. CASE Details(s)
  <2>1. pc[s] = "details" /\ kind' = kind
    BY <1>17 DEF Details, environment
  <2>2. kind[s] \in {"detect", "recommend"}
    BY <2>1, Places, StepOf DEF AtStep, InfoSteps
  <2>3. Raise(s) \/ ((Goto(s, "detect") \/ Goto(s, "done")) /\ rescuing' = rescuing)
    BY <1>17, <2>2, Returns DEF Details, Return
  <2> QED BY <2>1, <2>2, <2>3, Order, Places, Forward, RaiseNearer
<1>11. CASE DetectExists(s)
  <2>1. pc[s] = "exists" /\ kind' = kind
    BY <1>11 DEF DetectExists, environment
  <2>2. Raise(s) \/ (Goto(s, "algorithm") /\ rescuing' = rescuing)
    BY <1>11 DEF DetectExists
  <2> QED BY <2>1, <2>2, Order, Places, Forward, RaiseNearer
<1>12. CASE Algorithm(s)
  <2>1. pc[s] = "algorithm" /\ kind' = kind
    BY <1>12 DEF Algorithm, environment
  <2>2. Raise(s) \/ (Goto(s, "stats") /\ rescuing' = rescuing)
    BY <1>12 DEF Algorithm
  <2> QED BY <2>1, <2>2, Order, Places, Forward, RaiseNearer
<1>13. CASE Stats(s)
  <2>1. /\ pc[s] = "stats" /\ kind' = kind /\ rescuing' = rescuing
        /\ Goto(s, After[kind[s]].detect)
    BY <1>13 DEF Stats, Return, environment
  <2>2. kind[s] \in {"refresh", "detect"}
    BY <2>1, Places, StepOf DEF AtStep, DetectSteps
  <2>3. Goto(s, "save") \/ Goto(s, "done")
    BY <2>1, <2>2, Returns
  <2> QED BY <2>1, <2>3, Order, Places, Forward
<1>14. CASE SaveMeta(s)
  <2>1. /\ pc[s] = "save" /\ kind' = kind /\ rescuing' = rescuing
        /\ Goto(s, After[kind[s]].save)
    BY <1>14 DEF SaveMeta, Return, environment
  <2>2. Goto(s, "drop")
    BY <2>1, Places, StepOf, Returns DEF AtStep
  <2> QED BY <2>1, <2>2, Order, Places, Forward
<1>15. CASE DropExists(s)
  <2>1. pc[s] = "lookup" /\ kind' = kind /\ rescuing' = rescuing
    BY <1>15 DEF DropExists, environment
  <2>2. kind[s] \in {"refresh", "delete"}
    BY <2>1, Places, StepOf DEF AtStep, DropSteps
  <2>3. Goto(s, "done") \/ Goto(s, "remove")
    BY <1>15, <2>2, Returns DEF DropExists, Return
  <2> QED BY <2>1, <2>3, Order, Places, Forward
<1>16. CASE Drop(s)
  <2>1. pc[s] = "remove" /\ kind' = kind
    BY <1>16 DEF Drop, environment
  <2>2. kind[s] \in {"refresh", "delete"}
    BY <2>1, Places, StepOf DEF AtStep, DropSteps
  <2>3. Raise(s) \/ (Goto(s, "done") /\ rescuing' = rescuing)
    BY <1>16, <2>2, Returns DEF Drop, Return
  <2> QED BY <2>1, <2>3, Places, Forward, RaiseNearer
<1> QED
  BY <1>1, <1>2, <1>3, <1>4, <1>5, <1>6, <1>7, <1>8, <1>9, <1>10, <1>11, <1>12,
     <1>13, <1>14, <1>15, <1>16, <1>17 DEF Step

LEMMA CallFailsNearer ==
  ASSUME IInv, NEW s \in Tasks, CallFails(s)
  PROVE  Left(s)' < Left(s) /\ pc'[s] # "idle"
<1>1. kind' = kind
  BY DEF CallFails
<1>2. CASE pc[s] = "list" /\ Goto(s, "dropping") /\ UNCHANGED rescuing
  BY <1>1, <1>2, Order, Places, Forward
<1>3. CASE /\ pc[s] \in {"dropping", "clear", "undo"}
           /\ \E p \in todo[s] : todo' = [todo EXCEPT ![s] = @ \ {p}]
           /\ UNCHANGED <<pc, rescuing>>
  BY <1>1, <1>3, Places, TriedNearer
<1>4. CASE /\ pc[s] \in {"similar", "bipartite", "write", "discard", "project"}
           /\ Undo(s)
  BY <1>1, <1>4, Order, Places, Forward DEF Undo
<1>5. CASE /\ pc[s] \in {"look", "details", "exists", "algorithm", "stats",
                         "save", "lookup", "remove"}
           /\ Raise(s)
  BY <1>1, <1>5, Places, RaiseNearer
<1> QED BY <1>2, <1>3, <1>4, <1>5 DEF CallFails

\* A step of a request leaves the others where they are.
LEMMA OthersStay ==
  ASSUME IInv, NEW s \in Tasks,
         Step(s) \/ CallFails(s) \/ \E k \in Allowed[s] : Ask(s, k),
         NEW t \in Tasks \ {s}
  PROVE  /\ pc'[t] = pc[t] /\ kind'[t] = kind[t] /\ todo'[t] = todo[t]
         /\ t \in rescuing' <=> t \in rescuing
<1> USE Typed DEF IInv
<1>1. \A l : Goto(s, l) => pc'[t] = pc[t]
  BY DEF Goto
<1>2. Raise(s) => pc'[t] = pc[t] /\ (t \in rescuing' <=> t \in rescuing)
  BY <1>1 DEF Raise
<1>3. Undo(s) => /\ pc'[t] = pc[t] /\ todo'[t] = todo[t] /\ rescuing' = rescuing
  BY <1>1 DEF Undo
<1>4. CASE Begin(s) \/ List(s) \/ \E p \in Projections : DropOne(s, p)
  BY <1>1, <1>4 DEF Begin, List, DropOne, environment
<1>5. CASE Dropped(s)
  <2>1. Raise(s) \/ ((\E l : Goto(s, l)) /\ rescuing' = rescuing)
    BY <1>5 DEF Dropped, Return
  <2> QED BY <1>1, <1>2, <1>5, <2>1 DEF Dropped, environment
<1>6. CASE DeleteSimilar(s) \/ DropBipartite(s)
  BY <1>1, <1>6 DEF DeleteSimilar, DropBipartite, environment
<1>7. CASE ProjectBipartite(s) \/ ProjectSkill(s) \/ WriteSimilar(s)
  <2>1. Undo(s) \/ ((\E l : Goto(s, l)) /\ UNCHANGED <<todo, rescuing>>)
    BY <1>7 DEF ProjectBipartite, ProjectSkill, Project, WriteSimilar
  <2>2. kind' = kind
    BY <1>7 DEF ProjectBipartite, ProjectSkill, Project, WriteSimilar, environment
  <2> QED BY <1>1, <1>3, <2>1, <2>2
<1>8. CASE Look(s) \/ Stats(s) \/ SaveMeta(s) \/ DropExists(s)
  <2>1. (\E l : Goto(s, l)) /\ UNCHANGED <<todo, rescuing, kind>>
    BY <1>8 DEF Look, Stats, SaveMeta, DropExists, Return, environment
  <2> QED BY <1>1, <2>1
<1>9. CASE Details(s) \/ DetectExists(s) \/ Algorithm(s) \/ Drop(s)
  <2>1. Raise(s) \/ ((\E l : Goto(s, l)) /\ rescuing' = rescuing)
    BY <1>9 DEF Details, DetectExists, Algorithm, Drop, Return
  <2>2. UNCHANGED <<todo, kind>>
    BY <1>9 DEF Details, DetectExists, Algorithm, Drop, environment
  <2> QED BY <1>1, <1>2, <2>1, <2>2
<1>10. CASE CallFails(s)
  <2>1. kind' = kind
    BY <1>10 DEF CallFails
  <2>2. \/ (\E l : Goto(s, l)) /\ UNCHANGED <<todo, rescuing>>
        \/ (\E p : todo' = [todo EXCEPT ![s] = @ \ {p}]) /\ UNCHANGED <<pc, rescuing>>
        \/ Undo(s)
        \/ Raise(s) /\ UNCHANGED todo
    BY <1>10 DEF CallFails
  <2> QED BY <1>1, <1>2, <1>3, <2>1, <2>2
<1>11. CASE \E k \in Allowed[s] : Ask(s, k)
  BY <1>11 DEF Ask
<1> QED
  BY <1>4, <1>5, <1>6, <1>7, <1>8, <1>9, <1>10, <1>11 DEF Step

\* A request ends after a bounded number of its own steps and of failures of its
\* calls, however many threads there are and whatever other requests do: what
\* RequestsEnd needs besides fairness.
THEOREM RequestsComeToAnEnd == Spec => RequestsAdvance
<1>0. (\A t \in Tasks : Left(t) \in Nat)'
  BY LeftIsNatural, PTL
<1>1. ASSUME IInv, [Next]_vars, NEW t \in Tasks, pc[t] # "idle"
      PROVE  /\ pc'[t] # "idle"
             /\ Left(t)' \in 0 .. Left(t)
             /\ Step(t) \/ CallFails(t) => Left(t)' < Left(t)
  <2>0. Left(t) \in Nat /\ Left(t)' \in Nat
    BY <1>0, LeftIsNatural
  <2>1. CASE Step(t) \/ CallFails(t)
    <3>1. Left(t)' < Left(t) /\ pc'[t] # "idle"
      BY <1>1, <2>1, StepNearer, CallFailsNearer
    <3> QED BY <2>0, <3>1
  <2>2. ASSUME ~(Step(t) \/ CallFails(t))
        PROVE  \/ /\ pc'[t] = pc[t] /\ kind'[t] = kind[t] /\ todo'[t] = todo[t]
                  /\ t \in rescuing' <=> t \in rescuing
               \/ pc'[t] = "killed"
    <3>1. CASE UNCHANGED vars
      BY <3>1 DEF vars
    <3>2. CASE Restart
      BY <1>1, <3>2 DEF Restart
    <3>3. ASSUME NEW s \in Tasks,
                 Step(s) \/ CallFails(s) \/ \E k \in Allowed[s] : Ask(s, k)
          PROVE  /\ pc'[t] = pc[t] /\ kind'[t] = kind[t] /\ todo'[t] = todo[t]
                 /\ t \in rescuing' <=> t \in rescuing
      <4>1. s # t
        BY <1>1, <2>2, <3>3 DEF Ask
      <4> QED BY <1>1, <3>3, <4>1, OthersStay
    <3> QED BY <1>1, <3>1, <3>2, <3>3 DEF Next
  <2>3. CASE /\ ~(Step(t) \/ CallFails(t))
             /\ pc'[t] = pc[t] /\ kind'[t] = kind[t] /\ todo'[t] = todo[t]
             /\ t \in rescuing' <=> t \in rescuing
    <3>1. Left(t)' = Left(t)
      BY <2>3 DEF Left
    <3> QED BY <1>1, <2>0, <2>3, <3>1
  <2>4. CASE ~(Step(t) \/ CallFails(t)) /\ pc'[t] = "killed"
    <3>1. Left(t)' = 0
      BY <2>4 DEF Left, Ended
    <3> QED BY <2>0, <2>4, <3>1
  <2> QED BY <2>1, <2>2, <2>3, <2>4
<1>2. IInv /\ [Next]_vars =>
        [\A t \in Tasks : pc[t] # "idle" =>
           /\ pc'[t] # "idle"
           /\ Left(t)' \in 0 .. Left(t)
           /\ Step(t) \/ CallFails(t) => Left(t)' < Left(t)]_vars
  BY <1>1
<1> QED BY <1>2, Invariance, PTL DEF Spec, RequestsAdvance
=============================================================================
