-------------------------- MODULE QuerySessionProofs --------------------------
(***************************************************************************)
(* What holds of the runs for any questions and sessions, any number of     *)
(* them at the same time, any retries and any configuration.  A run's state *)
(* is the checkpoint of its session and what its own nodes have written: the *)
(* inductive invariant says, for each node, which fields are the run's own  *)
(* by the time the node is reached (Run), and what is true of any state,    *)
(* also one that another question left (Sound).                             *)
(***************************************************************************)
EXTENDS SessionCorrections, NaturalsInduction, WellFoundedInduction, TLAPS

\* The nodes before a query is generated.
Early == {"intent_entity_extractor", "query_decomposer", "cache_checker",
          "concept_expander", "entity_resolver"}

\* Whoever wrote it: generation is skipped only with a query of the cache, and
\* an error is told to the question it happened to.
Sound(s) ==
  /\ s.skip_generation => CacheOn /\ s.cache_hit /\ s.cypher_query # None
  /\ s.response # None /\ s.response.kind = "error" =>
       s.response.of = s.response.to

Embedded(q, s) == s.question_embedding \in {q, None}

WithinBudget(s) ==
  /\ s.cypher_retry_count <= MaxRetries
  /\ SelfCorrection \/ s.cypher_retry_count = 0

SyntaxError(s) == s.error # None /\ s.error.at = "syntax"

\* Nothing was executed yet.
AtEarly(q, n, s) ==
  /\ s.failed_cypher = None /\ s.cypher_retry_count = 0 /\ ~SyntaxError(s)
  /\ n = "cache_checker" => CacheOn
  /\ n \in {"concept_expander", "entity_resolver"} =>
       ~s.skip_generation /\ (CacheOn => Embedded(q, s) \/ s.error # None)

\* A query of the cache is kept once; after a failure one is generated.
AtGenerator(q, s) ==
  /\ WithinBudget(s)
  /\ SyntaxError(s) \/ s.failed_cypher # None => ~s.skip_generation
  /\ s.failed_cypher # None =>
       s.failed_cypher.by = q \/ (s.cache_hit /\ s.question_embedding = q)
  /\ s.skip_generation /\ s.error = None => s.question_embedding = q
  /\ CacheOn /\ ~s.skip_generation => Embedded(q, s)

\* The query is this run's, or this run has just found it in the cache.
AtExecutor(q, s) ==
  /\ WithinBudget(s)
  /\ s.error = None /\ s.failed_cypher = None
  /\ s.cypher_query # None
  /\ \/ s.cypher_query.by = q
     \/ s.cache_hit /\ s.skip_generation /\ s.question_embedding = q
  /\ CacheOn => Embedded(q, s)

AtResponder(q, s) ==
  /\ SyntaxError(s) /\ SelfCorrection => s.cypher_retry_count = MaxRetries + 1
  /\ s.error = None /\ s.intent # "unknown" => s.graph_results \in {q, None}

\* What a run at the node n knows of its state.
Run(q, n, s) ==
  /\ s.error # None => s.error.of = q
  /\ s.response # None => s.response.to # q
  /\ n \in Early => AtEarly(q, n, s)
  /\ n = "cypher_generator" => AtGenerator(q, s)
  /\ n = "graph_executor" => AtExecutor(q, s)
  /\ n = "response_generator" => AtResponder(q, s)

\* The state a run ends in: it has responded, or it knows what made it fail.
Ends(q, s) ==
  \/ /\ s.response # None /\ s.response.to = q
     /\ s.response.kind = "rows" /\ s.intent # "unknown" => s.response.of = q
  \/ /\ s.response = None \/ s.response.to # q
     /\ s.error # None /\ s.error.of = q

\* What a client was told.
ToldOwn(q) ==
  /\ told[q] \in Result
  /\ mode[q] = "stream" => Own(q)
  /\ told[q].response.kind = "error" =>
       told[q].response.of = told[q].response.to
  /\ Own(q) /\ told[q].response.kind = "rows" /\ told[q].intent # "unknown" =>
       told[q].response.of = q

\* Its response was written for a question that was asked.
Asked(s) == s.response # None => node[s.response.to] # "unasked"

SavedSound == \A i \in Sessions : Sound(saved[i]) /\ Asked(saved[i])

RunsOwn ==
  \A q \in Questions :
    node[q] \in Nodes =>
      Sound(state[q]) /\ Asked(state[q]) /\ Run(q, node[q], state[q])

AnswersOwn == \A q \in Questions : Answered(q) => ToldOwn(q)

IInv == TypeOK /\ CacheOwn /\ SavedSound /\ RunsOwn /\ AnswersOwn

-----------------------------------------------------------------------------
(* One step                                                                 *)

\* What the nodes make sure of: the merged state s of the node n leads on to a
\* node that may rely on it, or ends the run.
Merged(q, n, s) ==
  /\ s \in State /\ Sound(s)
  /\ s.response = None \/ s.response.to = q \/ Asked(s)
  /\ \/ Route(n, s) \in Nodes /\ Run(q, Route(n, s), s)
     \/ Route(n, s) = "answered" /\ Ends(q, s)

CacheSound ==
  cache \subseteq [asked: Questions, query: Query] /\ CacheOwn

LEMMA Names ==
  /\ \A n \in Nodes : n \notin {"answered", "failed", "unasked"}
  /\ None \notin Questions
BY SessionAssumption DEF Nodes

\* The fields of a state.
LEMMA Fields ==
  ASSUME NEW s \in State
  PROVE  /\ s.intent \in Intents \cup {None}
         /\ s.entities \in Questions \cup {None}
         /\ s.expanded \in Questions \cup {None}
         /\ s.has_expansion \in BOOLEAN
         /\ s.resolved \in BOOLEAN
         /\ s.unresolved \in Questions \cup {None}
         /\ s.cypher_query \in Query \cup {None}
         /\ s.graph_results \in Questions \cup {None}
         /\ s.cypher_retry_count \in 0 .. MaxRetries + 1
         /\ s.failed_cypher \in Query \cup {None}
         /\ s.response \in Response \cup {None}
         /\ s.error \in Error \cup {None}
         /\ s.question_embedding \in Questions \cup {None}
         /\ s.cache_hit \in BOOLEAN
         /\ s.skip_generation \in BOOLEAN
BY DEF State

\* A state with one field changed.
LEMMA Updates ==
  ASSUME NEW s \in State
  PROVE  /\ \A x \in Intents \cup {None} : [s EXCEPT !.intent = x] \in State
         /\ \A x \in Questions \cup {None} :
              /\ [s EXCEPT !.entities = x] \in State
              /\ [s EXCEPT !.expanded = x] \in State
              /\ [s EXCEPT !.unresolved = x] \in State
              /\ [s EXCEPT !.graph_results = x] \in State
              /\ [s EXCEPT !.question_embedding = x] \in State
         /\ \A x \in BOOLEAN :
              /\ [s EXCEPT !.has_expansion = x] \in State
              /\ [s EXCEPT !.resolved = x] \in State
              /\ [s EXCEPT !.cache_hit = x] \in State
              /\ [s EXCEPT !.skip_generation = x] \in State
         /\ \A x \in Query \cup {None} :
              /\ [s EXCEPT !.cypher_query = x] \in State
              /\ [s EXCEPT !.failed_cypher = x] \in State
         /\ \A x \in 0 .. MaxRetries + 1 : [s EXCEPT !.cypher_retry_count = x] \in State
         /\ \A x \in Response \cup {None} : [s EXCEPT !.response = x] \in State
         /\ \A x \in Error \cup {None} : [s EXCEPT !.error = x] \in State
BY DEF State

\* Ending or going on, the answer is the run's own and so is what is saved.
LEMMA FinishKeeps ==
  ASSUME IInv, NEW q \in Questions, NEW s, node[q] \in Nodes,
         Merged(q, node[q], s), Finish(q, s), CacheSound'
  PROVE  IInv'
<1> DEFINE next == Route(node[q], s)
<1>1. next \in Nodes \cup {"answered"} /\ next # "unasked"
  BY Names DEF Merged
<1>2. /\ node' = [node EXCEPT ![q] = next]
      /\ saved' = [saved EXCEPT ![SessionOf[q]] = s]
      /\ mode' = mode
  BY DEF Finish
<1>3. SessionOf[q] \in Sessions
  BY SessionAssumption
<1>4. \A p \in Questions : node'[p] = IF p = q THEN next ELSE node[p]
  BY <1>2 DEF IInv, TypeOK
<1>5. NewSession \in State
  BY SessionAssumption DEF NewSession, State
<1>6. state' \in [Questions -> State]
  BY <1>5 DEF Finish, Merged, IInv, TypeOK
<1>7. \A r \in State : Asked(r) => Asked(r)'
  <2> SUFFICES ASSUME NEW r \in State, Asked(r), r.response # None
               PROVE  node'[r.response.to] # "unasked"
    BY DEF Asked
  <2>1. r.response.to \in Questions
    BY Fields DEF Response
  <2> QED
    BY <1>1, <1>4, <2>1 DEF Asked
<1>8. Asked(s)'
  <2>1. CASE s.response = None
    BY <2>1 DEF Asked
  <2>2. CASE s.response.to = q
    BY <1>1, <1>4, <2>2 DEF Asked
  <2>3. CASE Asked(s)
    BY <1>7, <2>3 DEF Merged
  <2> QED
    BY <2>1, <2>2, <2>3 DEF Merged
<1>9. SavedSound'
  <2> SUFFICES ASSUME NEW i \in Sessions
               PROVE  (Sound(saved[i]) /\ Asked(saved[i]))'
    BY DEF SavedSound
  <2>1. CASE i = SessionOf[q]
    <3>1. saved'[i] = s
      BY <1>2, <1>3, <2>1 DEF IInv, TypeOK
    <3> QED
      BY <1>8, <3>1 DEF Merged, Sound, Asked
  <2>2. CASE i # SessionOf[q]
    <3>1. saved'[i] = saved[i] /\ saved[i] \in State
      BY <1>2, <1>3, <2>2 DEF IInv, TypeOK
    <3> QED
      BY <1>7, <3>1 DEF IInv, SavedSound, Sound, Asked
  <2> QED
    BY <2>1, <2>2
<1>10. RunsOwn'
  <2> SUFFICES ASSUME NEW p \in Questions, node'[p] \in Nodes
               PROVE  (Sound(state[p]) /\ Asked(state[p]) /\ Run(p, node[p], state[p]))'
    BY DEF RunsOwn
  <2>1. CASE p = q
    <3>1. next \in Nodes /\ next # "answered"
      BY <1>4, <2>1, Names
    <3>2. state'[q] = s
      BY <3>1 DEF Finish, IInv, TypeOK
    <3> QED
      <4>1. Sound(s) /\ Run(q, next, s) /\ node'[p] = next
        BY <1>4, <2>1, <3>1 DEF Merged
      <4> QED
        BY <1>8, <2>1, <3>2, <4>1 DEF Sound, Asked
  <2>2. CASE p # q
    <3>1. state'[p] = state[p] /\ node'[p] = node[p] /\ state[p] \in State
      BY <1>4, <2>2 DEF Finish, IInv, TypeOK
    <3> QED
      BY <1>7, <3>1 DEF IInv, RunsOwn, Sound, Asked
  <2> QED
    BY <2>1, <2>2
<1>11. next = "answered" =>
         LET r == Tell(q, s) IN
         /\ r \in Response
         /\ mode[q] = "stream" => r.to = q
         /\ r.kind = "error" => r.of = r.to
         /\ r.to = q /\ r.kind = "rows" /\ s.intent # "unknown" => r.of = q
  <2> SUFFICES ASSUME Ends(q, s)
               PROVE  LET r == Tell(q, s) IN
                      /\ r \in Response
                      /\ mode[q] = "stream" => r.to = q
                      /\ r.kind = "error" => r.of = r.to
                      /\ r.to = q /\ r.kind = "rows" /\ s.intent # "unknown" => r.of = q
    BY Names DEF Merged
  <2>0. mode[q] \in {"run", "stream"} /\ s.response \in Response \cup {None}
    BY Fields DEF IInv, TypeOK, Merged
  <2>1. CASE mode[q] = "stream" /\ (s.response = None \/ s.response.to # q)
    <3>1. Tell(q, s) = [to |-> q, of |-> s.error.of, kind |-> "error"]
      BY <2>1 DEF Tell
    <3>2. s.error.of = q
      BY <2>1 DEF Ends
    <3> QED
      BY <3>1, <3>2 DEF Response
  <2>2. CASE mode[q] = "run" /\ s.response = None
    <3>1. Tell(q, s) = [to |-> q, of |-> q, kind |-> "blank"]
      BY <2>2 DEF Tell, Blank
    <3> QED
      BY <2>2, <3>1 DEF Response
  <2>3. CASE s.response # None /\ (mode[q] = "run" \/ s.response.to = q)
    <3>1. Tell(q, s) = s.response
      BY <2>0, <2>3 DEF Tell
    <3> QED
      BY <2>0, <2>3, <3>1 DEF Ends, Merged, Sound
  <2> QED
    BY <2>0, <2>1, <2>2, <2>3
<1>12. /\ told' \in [Questions -> Result \cup {None}]
       /\ AnswersOwn'
  <2>1. CASE next = "answered"
    <3> DEFINE answer == [response |-> Tell(q, s), intent |-> s.intent, error |-> s.error]
    <3>1. told' = [told EXCEPT ![q] = answer]
      BY <2>1 DEF Finish
    <3>2. answer \in Result
      BY <1>11, <2>1, Fields DEF Merged, Result
    <3>3. told' \in [Questions -> Result \cup {None}]
      BY <3>1, <3>2 DEF IInv, TypeOK
    <3>4. ToldOwn(q)'
      <4>1. told'[q] = answer
        BY <3>1 DEF IInv, TypeOK
      <4> QED
        BY <1>2, <1>11, <2>1, <3>2, <4>1 DEF ToldOwn, Own
    <3>5. ASSUME NEW p \in Questions, p # q, Answered(p)'
          PROVE  ToldOwn(p)'
      BY <1>2, <1>4, <3>1, <3>5 DEF ToldOwn, Own, Answered, IInv, TypeOK, AnswersOwn
    <3> QED
      BY <3>3, <3>4, <3>5 DEF AnswersOwn
  <2>2. CASE next # "answered"
    <3>1. told' = told
      BY <2>2 DEF Finish
    <3> QED
      BY <1>2, <1>4, <2>2, <3>1 DEF ToldOwn, Own, Answered, IInv, TypeOK, AnswersOwn
  <2> QED
    BY <2>1, <2>2
<1>13. TypeOK'
  <2>1. node' \in [Questions -> Nodes \cup Ended \cup {"unasked"}]
    BY <1>1, <1>2 DEF IInv, TypeOK, Ended
  <2>2. saved' \in [Sessions -> State]
    BY <1>2 DEF Merged, IInv, TypeOK
  <2>3. mode' \in [Questions -> {"run", "stream"}]
    BY <1>2 DEF IInv, TypeOK
  <2> QED
    BY <1>6, <1>12, <2>1, <2>2, <2>3 DEF TypeOK, CacheSound
<1> QED
  BY <1>9, <1>10, <1>12, <1>13 DEF IInv, CacheSound

-----------------------------------------------------------------------------
(* The nodes                                                                *)

\* What a run at the node n can rely on.
LEMMA AtNode ==
  ASSUME IInv, NEW q \in Questions, NEW n \in Nodes, node[q] = n
  PROVE  /\ state[q] \in State
         /\ Sound(state[q]) /\ Asked(state[q]) /\ Run(q, n, state[q])
         /\ cache' = cache => CacheSound'
         /\ CacheSound
         /\ Failed(q, n) \in Error /\ Failed(q, "timeout") \in Error
         /\ Failed(q, "syntax") \in Error
BY DEF IInv, TypeOK, RunsOwn, CacheSound, CacheOwn, Failed, Error

\* None is neither an error nor a response.
LEMMA NoneIsNot ==
  /\ \A x \in Error : x # None
  /\ \A x \in Response : x # None
  /\ \A x \in Query : x # None
  /\ \A x \in Questions : x # None
BY SessionAssumption, NoneAssumption

\* The edges of the graph, one at a time.
LEMMA Edges ==
  ASSUME NEW s
  PROVE  /\ Route("intent_entity_extractor", s) = RouteAfterIntent(s)
         /\ Route("query_decomposer", s) = IF CacheOn THEN "cache_checker"
                                                       ELSE "concept_expander"
         /\ Route("cache_checker", s) = RouteAfterCacheCheck(s)
         /\ Route("concept_expander", s) = "entity_resolver"
         /\ Route("entity_resolver", s) = RouteAfterResolver(s)
         /\ Route("cypher_generator", s) = RouteAfterCypher(s)
         /\ Route("graph_executor", s) = RouteAfterExecutor(s)
         /\ \A n \in Responders : Route(n, s) = "answered"
BY DEF Route, Responders

LEMMA ExtractKeeps ==
  ASSUME IInv, NEW q \in Questions, Extract(q)
  PROVE  IInv'
<1> DEFINE n == "intent_entity_extractor"
           s == state[q]
<1>1. node[q] = n /\ n \in Nodes /\ cache' = cache
  BY DEF Extract, Nodes
<1>2. /\ s \in State /\ Sound(s) /\ Asked(s) /\ Run(q, n, s) /\ CacheSound'
      /\ Failed(q, n) \in Error
  BY <1>1, AtNode
<1>3. ASSUME NEW i \in Intents, NEW found \in BOOLEAN,
             Finish(q, [s EXCEPT !.intent = i, !.entities = IF found THEN q ELSE None])
      PROVE  IInv'
  <2> DEFINE t == [s EXCEPT !.intent = i, !.entities = IF found THEN q ELSE None]
  <2>1. t \in State
    BY <1>2, Updates
  <2>2. /\ t.intent = i
        /\ t.error = s.error /\ t.response = s.response
        /\ t.failed_cypher = s.failed_cypher
        /\ t.cypher_retry_count = s.cypher_retry_count
        /\ t.skip_generation = s.skip_generation /\ t.cache_hit = s.cache_hit
        /\ t.cypher_query = s.cypher_query
    BY <1>2 DEF State
  <2> HIDE DEF t
  <2>3. /\ Route(n, t) = RouteAfterIntent(t)
        /\ RouteAfterIntent(t) \in {"response_generator", "ontology_update_handler",
                                    "query_decomposer"}
        /\ RouteAfterIntent(t) = "response_generator" => t.intent = "unknown"
    BY <2>2, Edges DEF RouteAfterIntent, Intents
  <2>4. Merged(q, n, t)
    BY <1>2, <2>1, <2>2, <2>3
       DEF Merged, Sound, Asked, Run, Early, AtEarly, SyntaxError, AtResponder, Nodes
  <2> QED
    BY <1>1, <1>2, <1>3, <2>4, FinishKeeps DEF t
<1>4. ASSUME Finish(q, [s EXCEPT !.intent = "unknown", !.entities = None,
                                 !.error = Failed(q, n)])
      PROVE  IInv'
  <2> DEFINE t == [s EXCEPT !.intent = "unknown", !.entities = None,
                            !.error = Failed(q, n)]
  <2>1. t \in State
    BY <1>2, Updates DEF Intents
  <2>2. /\ t.intent = "unknown"
        /\ t.error = [of |-> q, at |-> n] /\ t.response = s.response
        /\ t.skip_generation = s.skip_generation /\ t.cache_hit = s.cache_hit
        /\ t.cypher_query = s.cypher_query
    BY <1>2 DEF State, Failed
  <2> HIDE DEF t
  <2>3. Route(n, t) = "response_generator"
    BY <2>2, Edges DEF RouteAfterIntent
  <2>4. Merged(q, n, t)
    BY <1>2, <2>1, <2>2, <2>3
       DEF Merged, Sound, Asked, Run, Early, AtEarly, SyntaxError, AtResponder, Nodes
  <2> QED
    BY <1>1, <1>2, <1>4, <2>4, FinishKeeps DEF t
<1> QED
  BY <1>1, <1>3, <1>4 DEF Extract

LEMMA DecomposeKeeps ==
  ASSUME IInv, NEW q \in Questions, Decompose(q)
  PROVE  IInv'
<1> DEFINE n == "query_decomposer"
           s == state[q]
<1>1. node[q] = n /\ n \in Nodes /\ cache' = cache
  BY DEF Decompose, Nodes
<1>2. /\ s \in State /\ Sound(s) /\ Asked(s) /\ Run(q, n, s) /\ CacheSound'
      /\ Failed(q, n) \in Error
  BY <1>1, AtNode
<1>3. \A t : Route(n, t) = IF CacheOn THEN "cache_checker" ELSE "concept_expander"
  BY Edges
<1>4. Merged(q, n, s)
  BY <1>2, <1>3, SessionAssumption DEF Merged, Sound, Run, Early, AtEarly, Nodes
<1> DEFINE t == [s EXCEPT !.error = Failed(q, n)]
<1>5. t \in State
  BY <1>2, Updates
<1>6. /\ t.error = [of |-> q, at |-> n] /\ t.response = s.response
      /\ t.failed_cypher = s.failed_cypher
      /\ t.cypher_retry_count = s.cypher_retry_count
      /\ t.skip_generation = s.skip_generation /\ t.cache_hit = s.cache_hit
      /\ t.cypher_query = s.cypher_query
      /\ t.question_embedding = s.question_embedding
  BY <1>2 DEF State, Failed
<1> HIDE DEF t
<1>7. Merged(q, n, t)
  BY <1>2, <1>3, <1>5, <1>6, SessionAssumption
     DEF Merged, Sound, Asked, Run, Early, AtEarly, SyntaxError, Nodes
<1> QED
  BY <1>1, <1>2, <1>4, <1>7, FinishKeeps DEF Decompose, t

LEMMA CheckCacheKeeps ==
  ASSUME IInv, NEW q \in Questions, CheckCache(q)
  PROVE  IInv'
<1> DEFINE n == "cache_checker"
           s == state[q]
           checked == [s EXCEPT !.question_embedding = q, !.cache_hit = FALSE,
                                !.skip_generation = FALSE]
<1>1. node[q] = n /\ n \in Nodes
  BY DEF CheckCache, Nodes
<1>2. /\ s \in State /\ Sound(s) /\ Asked(s) /\ Run(q, n, s) /\ CacheSound
      /\ Failed(q, n) \in Error
  BY <1>1, AtNode
<1>3. CacheSound'
  <2>1. cache' \subseteq cache
    BY DEF CheckCache, FindSimilarQuery, DeleteCache
  <2> QED
    BY <1>2, <2>1 DEF CacheSound, CacheOwn
<1>4. ASSUME NEW e \in cache,
             Finish(q, [checked EXCEPT !.cache_hit = TRUE, !.skip_generation = TRUE,
                                       !.cypher_query = e.query])
      PROVE  IInv'
  <2> DEFINE t == [checked EXCEPT !.cache_hit = TRUE, !.skip_generation = TRUE,
                                  !.cypher_query = e.query]
  <2>1. e.query \in Query /\ e.query # None
    BY <1>2, NoneIsNot DEF CacheSound
  <2>2. t \in State
    BY <1>2, <2>1, Updates
  <2>3. /\ t.error = s.error /\ t.response = s.response
        /\ t.failed_cypher = s.failed_cypher
        /\ t.cypher_retry_count = s.cypher_retry_count
        /\ t.skip_generation = TRUE /\ t.cache_hit = TRUE
        /\ t.cypher_query = e.query /\ t.question_embedding = q
    BY <1>2 DEF State
  <2> HIDE DEF t
  <2>4. Route(n, t) = "cypher_generator"
    BY <2>3, Edges DEF RouteAfterCacheCheck
  <2>5. CacheOn
    BY <1>2 DEF Run, Early, AtEarly
  <2>6. Merged(q, n, t)
    BY <1>2, <2>1, <2>2, <2>3, <2>4, <2>5, SessionAssumption
       DEF Merged, Sound, Asked, Run, Early, AtEarly, AtGenerator, WithinBudget,
           SyntaxError, Embedded, Nodes
  <2> QED
    BY <1>1, <1>3, <1>4, <2>6, FinishKeeps DEF t
<1>5. ASSUME Finish(q, checked)
      PROVE  IInv'
  <2>1. checked \in State
    BY <1>2, Updates
  <2>2. /\ checked.error = s.error /\ checked.response = s.response
        /\ checked.failed_cypher = s.failed_cypher
        /\ checked.cypher_retry_count = s.cypher_retry_count
        /\ checked.skip_generation = FALSE
        /\ checked.question_embedding = q
    BY <1>2 DEF State
  <2>3. Finish(q, checked)
    BY <1>5
  <2> HIDE DEF checked
  <2>4. Route(n, checked) = "concept_expander"
    BY <2>2, Edges DEF RouteAfterCacheCheck
  <2>5. Merged(q, n, checked)
    BY <1>2, <2>1, <2>2, <2>4
       DEF Merged, Sound, Asked, Run, Early, AtEarly, SyntaxError, Embedded, Nodes
  <2> QED
    BY <1>1, <1>3, <2>3, <2>5, FinishKeeps
<1>6. ASSUME Finish(q, [checked EXCEPT !.question_embedding = None,
                                       !.error = Failed(q, n)])
      PROVE  IInv'
  <2> DEFINE t == [checked EXCEPT !.question_embedding = None, !.error = Failed(q, n)]
  <2>1. t \in State
    BY <1>2, Updates
  <2>2. /\ t.error = [of |-> q, at |-> n] /\ t.response = s.response
        /\ t.failed_cypher = s.failed_cypher
        /\ t.cypher_retry_count = s.cypher_retry_count
        /\ t.skip_generation = FALSE
        /\ t.question_embedding = None
    BY <1>2 DEF State, Failed
  <2> HIDE DEF t
  <2>3. Route(n, t) = "concept_expander"
    BY <2>2, Edges DEF RouteAfterCacheCheck
  <2>4. Merged(q, n, t)
    BY <1>2, <2>1, <2>2, <2>3
       DEF Merged, Sound, Asked, Run, Early, AtEarly, SyntaxError, Embedded, Nodes
  <2> QED
    BY <1>1, <1>3, <1>6, <2>4, FinishKeeps DEF t
<1> QED
  BY <1>1, <1>4, <1>5, <1>6 DEF CheckCache

LEMMA ExpandKeeps ==
  ASSUME IInv, NEW q \in Questions, Expand(q)
  PROVE  IInv'
<1> DEFINE n == "concept_expander"
           s == state[q]
           t == [s EXCEPT !.expanded = s.entities, !.has_expansion = TRUE]
<1>1. node[q] = n /\ n \in Nodes /\ cache' = cache
  BY DEF Expand, Nodes
<1>2. s \in State /\ Sound(s) /\ Asked(s) /\ Run(q, n, s) /\ CacheSound'
  BY <1>1, AtNode
<1>3. t \in State
  BY <1>2, Fields, Updates
<1>4. /\ t.error = s.error /\ t.response = s.response
      /\ t.failed_cypher = s.failed_cypher
      /\ t.cypher_retry_count = s.cypher_retry_count
      /\ t.skip_generation = s.skip_generation
      /\ t.question_embedding = s.question_embedding
  BY <1>2 DEF State
<1>5. Finish(q, t)
  BY DEF Expand
<1> HIDE DEF t
<1>6. Merged(q, n, t)
  BY <1>2, <1>3, <1>4, Edges
     DEF Merged, Sound, Asked, Run, Early, AtEarly, SyntaxError, Embedded, Nodes
<1> QED
  BY <1>1, <1>2, <1>5, <1>6, FinishKeeps

LEMMA ResolveKeeps ==
  ASSUME IInv, NEW q \in Questions, Resolve(q)
  PROVE  IInv'
<1> DEFINE n == "entity_resolver"
           s == state[q]
<1>1. node[q] = n /\ n \in Nodes /\ cache' = cache
  BY DEF Resolve, Nodes
<1>2. s \in State /\ Sound(s) /\ Asked(s) /\ Run(q, n, s) /\ CacheSound'
  BY <1>1, AtNode
<1>3. ASSUME NEW found \in BOOLEAN, NEW missing \in Questions \cup {None},
             Finish(q, [s EXCEPT !.resolved = found, !.unresolved = missing])
      PROVE  IInv'
  <2> DEFINE t == [s EXCEPT !.resolved = found, !.unresolved = missing]
  <2>1. t \in State
    BY <1>2, Updates
  <2>2. /\ t.error = s.error /\ t.response = s.response
        /\ t.failed_cypher = s.failed_cypher
        /\ t.cypher_retry_count = s.cypher_retry_count
        /\ t.skip_generation = s.skip_generation
        /\ t.question_embedding = s.question_embedding
    BY <1>2 DEF State
  <2> HIDE DEF t
  <2>3. /\ Route(n, t) \in {"response_generator", "cypher_generator",
                            "clarification_handler"}
        /\ t.error # None <=> Route(n, t) = "response_generator"
    BY Edges DEF RouteAfterResolver
  <2>4. Merged(q, n, t)
    BY <1>2, <2>1, <2>2, <2>3, SessionAssumption
       DEF Merged, Sound, Asked, Run, Early, AtEarly, AtGenerator, AtResponder,
           WithinBudget, SyntaxError, Embedded, Nodes
  <2> QED
    BY <1>1, <1>2, <1>3, <2>4, FinishKeeps DEF t
<1> DEFINE names == IF s.has_expansion THEN s.expanded ELSE s.entities
<1>4. names \in Questions \cup {None}
  BY <1>2, Fields
<1> QED
  BY <1>3, <1>4 DEF Resolve

LEMMA GenerateKeeps ==
  ASSUME IInv, NEW q \in Questions, Generate(q)
  PROVE  IInv'
<1> DEFINE n == "cypher_generator"
           s == state[q]
<1>1. node[q] = n /\ n \in Nodes /\ cache' = cache
  BY DEF Generate, Nodes
<1>2. /\ s \in State /\ Sound(s) /\ Asked(s) /\ Run(q, n, s) /\ CacheSound'
      /\ Failed(q, n) \in Error
  BY <1>1, AtNode
<1>3. ASSUME s.skip_generation, Finish(q, s)
      PROVE  IInv'
  <2>1. Route(n, s) = IF s.error # None THEN "response_generator" ELSE "graph_executor"
    BY <1>2, <1>3, Edges DEF Sound, RouteAfterCypher
  <2>2. Merged(q, n, s)
    BY <1>2, <1>3, <2>1
       DEF Merged, Sound, Run, Early, AtGenerator, AtExecutor, AtResponder,
           WithinBudget, SyntaxError, Embedded, Nodes
  <2> QED
    BY <1>1, <1>2, <1>3, <2>2, FinishKeeps
<1>4. ASSUME ~s.skip_generation,
             Finish(q, [s EXCEPT !.cypher_query = [by |-> q, names |-> GeneratorNames(s)],
                                 !.error = None, !.failed_cypher = None])
      PROVE  IInv'
  <2> DEFINE query == [by |-> q, names |-> GeneratorNames(s)]
             t == [s EXCEPT !.cypher_query = query, !.error = None,
                            !.failed_cypher = None]
  <2>1. query \in Query /\ query # None /\ query.by = q
    <3>1. GeneratorNames(s) \in Questions \cup {None}
      BY <1>2, Fields DEF GeneratorNames
    <3>2. query \in Query
      BY <3>1 DEF Query
    <3> QED
      BY <3>2, NoneIsNot
  <2> HIDE DEF query
  <2>2. t \in State
    BY <1>2, <2>1, Updates
  <2>3. /\ t.error = None /\ t.response = s.response
        /\ t.failed_cypher = None /\ t.cypher_query = query
        /\ t.cypher_retry_count = s.cypher_retry_count
        /\ t.skip_generation = s.skip_generation
        /\ t.question_embedding = s.question_embedding
    BY <1>2 DEF State
  <2>4. Finish(q, t)
    BY <1>4 DEF query
  <2> HIDE DEF t
  <2>5. Route(n, t) = "graph_executor"
    BY <2>1, <2>3, Edges DEF RouteAfterCypher
  <2>6. Merged(q, n, t)
    BY <1>2, <1>4, <2>1, <2>2, <2>3, <2>5
       DEF Merged, Sound, Asked, Run, Early, AtGenerator, AtExecutor,
           WithinBudget, SyntaxError, Embedded, Nodes
  <2> QED
    BY <1>1, <1>2, <2>4, <2>6, FinishKeeps
<1>5. ASSUME ~s.skip_generation,
             Finish(q, [s EXCEPT !.cypher_query = None, !.error = Failed(q, n)])
      PROVE  IInv'
  <2> DEFINE t == [s EXCEPT !.cypher_query = None, !.error = Failed(q, n)]
  <2>1. t \in State
    BY <1>2, Updates
  <2>2. /\ t.error = [of |-> q, at |-> n] /\ t.error # None /\ t.response = s.response
        /\ t.skip_generation = s.skip_generation
    BY <1>2, NoneIsNot DEF State, Failed
  <2> HIDE DEF t
  <2>3. Route(n, t) = "response_generator"
    BY <2>2, Edges DEF RouteAfterCypher
  <2>4. Merged(q, n, t)
    BY <1>2, <1>5, <2>1, <2>2, <2>3
       DEF Merged, Sound, Asked, Run, Early, AtResponder, SyntaxError, Nodes
  <2> QED
    BY <1>1, <1>2, <1>5, <2>4, FinishKeeps DEF t
<1> QED
  BY <1>1, <1>3, <1>4, <1>5 DEF Generate

\* What the executor keeps is the query of a question that generated it.
LEMMA KeepKeeps ==
  ASSUME CacheSound, NEW q \in Questions, NEW s \in State, AtExecutor(q, s), Keep(s)
  PROVE  CacheSound'
<1>1. CASE cache' = cache
  BY <1>1 DEF CacheSound, CacheOwn
<1>2. CASE /\ MayCache(s)
           /\ cache' = cache \cup
                {[asked |-> s.question_embedding, query |-> s.cypher_query]}
  <2> DEFINE e == [asked |-> s.question_embedding, query |-> s.cypher_query]
  <2>1. s.question_embedding = q /\ s.cypher_query.by = q
    BY <1>2 DEF MayCache, AtExecutor, Embedded
  <2>2. s.cypher_query \in Query
    BY Fields DEF AtExecutor
  <2>3. e \in [asked: Questions, query: Query] /\ e.query.by = e.asked
    BY <2>1, <2>2
  <2> QED
    BY <1>2, <2>3 DEF CacheSound, CacheOwn
<1> QED
  BY <1>1, <1>2 DEF Keep, CacheQuery

LEMMA ExecuteKeeps ==
  ASSUME IInv, NEW q \in Questions, Execute(q)
  PROVE  IInv'
<1> DEFINE n == "graph_executor"
           s == state[q]
<1>1. node[q] = n /\ n \in Nodes
  BY DEF Execute, Nodes
<1>2. /\ s \in State /\ Sound(s) /\ Asked(s) /\ Run(q, n, s) /\ CacheSound
      /\ Failed(q, n) \in Error /\ Failed(q, "syntax") \in Error
  BY <1>1, AtNode
<1>3. AtExecutor(q, s)
  BY <1>2 DEF Run
<1>4. CacheSound'
  <2>1. Keep(s) \/ cache' = cache
    BY DEF Execute
  <2> QED
    BY <1>1, <1>2, <1>3, <2>1, AtNode, KeepKeeps
<1>5. ASSUME NEW rows \in {q, None},
             Finish(q, [s EXCEPT !.graph_results = rows, !.failed_cypher = None])
      PROVE  IInv'
  <2> DEFINE t == [s EXCEPT !.graph_results = rows, !.failed_cypher = None]
  <2>1. t \in State
    BY <1>2, Updates
  <2>2. /\ t.error = s.error /\ t.response = s.response
        /\ t.failed_cypher = None /\ t.graph_results = rows
        /\ t.skip_generation = s.skip_generation /\ t.cache_hit = s.cache_hit
        /\ t.cypher_query = s.cypher_query
    BY <1>2 DEF State
  <2> HIDE DEF t
  <2>3. Route(n, t) = "response_generator"
    BY <2>2, Edges DEF RouteAfterExecutor
  <2>4. Merged(q, n, t)
    BY <1>2, <1>3, <2>1, <2>2, <2>3
       DEF Merged, Sound, Asked, Run, Early, AtExecutor, AtResponder, SyntaxError, Nodes
  <2> QED
    BY <1>1, <1>4, <1>5, <2>4, FinishKeeps DEF t
<1>6. ASSUME Finish(q, [s EXCEPT !.graph_results = None,
                                 !.error = Failed(q, "syntax"),
                                 !.cypher_retry_count = CountRetry(s),
                                 !.failed_cypher = s.cypher_query,
                                 !.skip_generation = FALSE])
      PROVE  IInv'
  <2> DEFINE count == CountRetry(s)
             t == [s EXCEPT !.graph_results = None, !.error = Failed(q, "syntax"),
                            !.cypher_retry_count = count,
                            !.failed_cypher = s.cypher_query, !.skip_generation = FALSE]
  <2>1. count \in 0 .. MaxRetries + 1 /\ count = s.cypher_retry_count + 1
    BY <1>2, <1>3, Fields, SessionAssumption DEF CountRetry, AtExecutor, WithinBudget
  <2> HIDE DEF count
  <2>2. t \in State
    BY <1>2, <2>1, Fields, Updates
  <2>3. /\ t.error = [of |-> q, at |-> "syntax"] /\ t.error # None
        /\ t.response = s.response
        /\ t.failed_cypher = s.cypher_query /\ t.cache_hit = s.cache_hit
        /\ t.skip_generation = FALSE /\ t.cypher_retry_count = count
        /\ t.question_embedding = s.question_embedding
    BY <1>2, NoneIsNot DEF State, Failed
  <2>4. Finish(q, t)
    BY <1>6 DEF count
  <2> HIDE DEF t
  <2>5. Route(n, t) = IF SelfCorrection /\ count <= MaxRetries
                      THEN "cypher_generator" ELSE "response_generator"
    BY <1>3, <2>3, Edges DEF RouteAfterExecutor, AtExecutor
  <2>6. ASSUME SelfCorrection /\ count <= MaxRetries
        PROVE  Merged(q, n, t)
    BY <1>2, <1>3, <2>2, <2>3, <2>5, <2>6
       DEF Merged, Sound, Asked, Run, Early, AtExecutor, AtGenerator, WithinBudget,
           SyntaxError, Embedded, Nodes
  <2>7. ASSUME ~(SelfCorrection /\ count <= MaxRetries)
        PROVE  Merged(q, n, t)
    <3>1. SelfCorrection => count = MaxRetries + 1
      BY <2>1, <2>7, SessionAssumption
    <3> QED
      BY <1>2, <2>2, <2>3, <2>5, <2>7, <3>1
         DEF Merged, Sound, Asked, Run, Early, AtResponder, SyntaxError, Nodes
  <2>8. Merged(q, n, t)
    BY <2>6, <2>7
  <2> QED
    BY <1>1, <1>4, <2>4, <2>8, FinishKeeps
<1>7. ASSUME Finish(q, [s EXCEPT !.graph_results = None, !.error = Failed(q, n)])
      PROVE  IInv'
  <2> DEFINE t == [s EXCEPT !.graph_results = None, !.error = Failed(q, n)]
  <2>1. t \in State
    BY <1>2, Updates
  <2>2. /\ t.error = [of |-> q, at |-> n] /\ t.error # None /\ t.response = s.response
        /\ t.failed_cypher = s.failed_cypher
        /\ t.skip_generation = s.skip_generation /\ t.cache_hit = s.cache_hit
        /\ t.cypher_query = s.cypher_query
    BY <1>2, NoneIsNot DEF State, Failed
  <2> HIDE DEF t
  <2>3. Route(n, t) = "response_generator"
    BY <1>3, <2>2, Edges DEF RouteAfterExecutor, AtExecutor
  <2>4. Merged(q, n, t)
    BY <1>2, <2>1, <2>2, <2>3
       DEF Merged, Sound, Asked, Run, Early, AtResponder, SyntaxError, Nodes
  <2> QED
    BY <1>1, <1>4, <1>7, <2>4, FinishKeeps DEF t
<1> QED
  BY <1>1, <1>5, <1>6, <1>7 DEF Execute

\* A node that responds ends the run with its response.
LEMMA ResponseEnds ==
  ASSUME NEW q \in Questions, NEW n \in Responders, NEW s \in State, Sound(s),
         NEW r \in Response, r.to = q, r.kind = "error" => r.of = q,
         r.kind = "rows" /\ s.intent # "unknown" => r.of = q,
         NEW e \in Error \cup {None}
  PROVE  /\ Merged(q, n, [s EXCEPT !.response = r])
         /\ Merged(q, n, [s EXCEPT !.response = r, !.error = e])
<1>1. ASSUME NEW t \in State, t.response = r, t.intent = s.intent,
             t.skip_generation = s.skip_generation, t.cache_hit = s.cache_hit,
             t.cypher_query = s.cypher_query
      PROVE  Merged(q, n, t)
  BY <1>1, Edges, NoneIsNot DEF Merged, Sound, Ends
<1>2. Merged(q, n, [s EXCEPT !.response = r])
  <2> DEFINE t == [s EXCEPT !.response = r]
  <2>1. t \in State
    BY Updates
  <2>2. /\ t.response = r /\ t.intent = s.intent
        /\ t.skip_generation = s.skip_generation /\ t.cache_hit = s.cache_hit
        /\ t.cypher_query = s.cypher_query
    BY DEF State
  <2> HIDE DEF t
  <2>3. Merged(q, n, t)
    BY <1>1, <2>1, <2>2
  <2> QED
    BY <2>3 DEF t
<1>3. Merged(q, n, [s EXCEPT !.response = r, !.error = e])
  <2> DEFINE t == [s EXCEPT !.response = r, !.error = e]
  <2>1. t \in State
    BY Updates
  <2>2. /\ t.response = r /\ t.intent = s.intent
        /\ t.skip_generation = s.skip_generation /\ t.cache_hit = s.cache_hit
        /\ t.cypher_query = s.cypher_query
    BY DEF State
  <2> HIDE DEF t
  <2>3. Merged(q, n, t)
    BY <1>1, <2>1, <2>2
  <2> QED
    BY <2>3 DEF t
<1> QED
  BY <1>2, <1>3

LEMMA RespondKeeps ==
  ASSUME IInv, NEW q \in Questions, Respond(q)
  PROVE  IInv'
<1> DEFINE n == "response_generator"
           s == state[q]
           reply == CASE s.error # None ->
                           [to |-> q, of |-> s.error.of, kind |-> "error"]
                      [] s.error = None /\ s.graph_results = None ->
                           [to |-> q, of |-> q, kind |-> "empty"]
                      [] OTHER ->
                           [to |-> q, of |-> s.graph_results, kind |-> "rows"]
<1>1. node[q] = n /\ n \in Nodes /\ n \in Responders /\ cache' = cache
  BY DEF Respond, Nodes, Responders
<1>2. s \in State /\ Sound(s) /\ Run(q, n, s) /\ CacheSound'
  BY <1>1, AtNode
<1>3. AtResponder(q, s)
  BY <1>2 DEF Run
<1>4. /\ reply \in Response /\ reply.to = q
      /\ reply.kind = "error" => reply.of = q
      /\ reply.kind = "rows" /\ s.intent # "unknown" => reply.of = q
  <2>1. CASE s.error # None
    <3>1. reply = [to |-> q, of |-> s.error.of, kind |-> "error"]
      BY <2>1
    <3>2. s.error.of = q
      BY <1>2, <2>1 DEF Run
    <3> QED
      BY <3>1, <3>2 DEF Response
  <2>2. CASE s.error = None /\ s.graph_results = None
    <3>1. reply = [to |-> q, of |-> q, kind |-> "empty"]
      BY <2>2
    <3> QED
      BY <3>1 DEF Response
  <2>3. CASE s.error = None /\ s.graph_results # None
    <3>1. reply = [to |-> q, of |-> s.graph_results, kind |-> "rows"]
      BY <2>3
    <3>2. s.graph_results \in Questions
      BY <1>2, <2>3, Fields
    <3>3. s.intent # "unknown" => s.graph_results = q
      BY <1>3, <2>3 DEF AtResponder
    <3> HIDE DEF reply
    <3> QED
      BY <3>1, <3>2, <3>3 DEF Response
  <2> QED
    BY <2>1, <2>2, <2>3
<1>5. Finish(q, [s EXCEPT !.response = reply])
  BY DEF Respond
<1> HIDE DEF reply
<1>6. Merged(q, n, [s EXCEPT !.response = reply])
  BY <1>1, <1>2, <1>4, ResponseEnds
<1> QED
  BY <1>1, <1>2, <1>5, <1>6, FinishKeeps

LEMMA ClarifyKeeps ==
  ASSUME IInv, NEW q \in Questions, Clarify(q)
  PROVE  IInv'
<1> DEFINE n == "clarification_handler"
           s == state[q]
           reply == [to |-> q, of |-> q, kind |-> "clarify"]
<1>1. node[q] = n /\ n \in Nodes /\ n \in Responders /\ cache' = cache
  BY DEF Clarify, Nodes, Responders
<1>2. s \in State /\ Sound(s) /\ CacheSound'
  BY <1>1, AtNode
<1>3. reply \in Response /\ reply.to = q /\ reply.of = q
  BY DEF Response
<1>4. Finish(q, [s EXCEPT !.response = reply])
  BY DEF Clarify
<1> HIDE DEF reply
<1>5. reply.kind \notin {"error", "rows"}
  BY DEF reply
<1>6. Merged(q, n, [s EXCEPT !.response = reply])
  BY <1>1, <1>2, <1>3, <1>5, ResponseEnds
<1> QED
  BY <1>1, <1>2, <1>4, <1>6, FinishKeeps

LEMMA UpdateOntologyKeeps ==
  ASSUME IInv, NEW q \in Questions, UpdateOntology(q)
  PROVE  IInv'
<1> DEFINE n == "ontology_update_handler"
           s == state[q]
           reply == [to |-> q, of |-> q, kind |-> "update"]
<1>1. node[q] = n /\ n \in Nodes /\ n \in Responders /\ cache' = cache
  BY DEF UpdateOntology, Nodes, Responders
<1>2. s \in State /\ Sound(s) /\ CacheSound' /\ Failed(q, n) \in Error
  BY <1>1, AtNode
<1>3. reply \in Response /\ reply.to = q /\ reply.of = q
  BY DEF Response
<1>4. PICK failure \in {None, Failed(q, n)} :
        Finish(q, [s EXCEPT !.response = reply,
                            !.error = IF failure = None THEN @ ELSE failure])
  BY <1>1 DEF UpdateOntology
<1> DEFINE e == IF failure = None THEN s.error ELSE failure
<1>5. Finish(q, [s EXCEPT !.response = reply, !.error = e])
  <2>1. [s EXCEPT !.response = reply, !.error = IF failure = None THEN @ ELSE failure]
          = [s EXCEPT !.response = reply, !.error = e]
    BY <1>2 DEF State
  <2> QED
    BY <1>4, <2>1
<1>6. e \in Error \cup {None}
  BY <1>2, <1>4, Fields
<1> HIDE DEF reply, e
<1>7. Merged(q, n, [s EXCEPT !.response = reply, !.error = e])
  BY <1>1, <1>2, <1>3, <1>6, ResponseEnds
<1> QED
  BY <1>1, <1>2, <1>5, <1>7, FinishKeeps

\* A node that timed out leaves what was there, and an error that routes past
\* every node that would rely on it.
LEMMA TimeOutKeeps ==
  ASSUME IInv, NEW q \in Questions, TimeOut(q)
  PROVE  IInv'
<1> DEFINE n == node[q]
           s == state[q]
           t == [s EXCEPT !.error = Failed(q, "timeout")]
<1>1. n \in Nodes
  BY DEF TimeOut
<1>2. /\ s \in State /\ Sound(s) /\ Asked(s) /\ Run(q, n, s) /\ CacheSound
      /\ Failed(q, "timeout") \in Error
  BY <1>1, AtNode
<1>3. CacheSound'
  <2>1. CASE n = "graph_executor"
    BY <1>2, <2>1, KeepKeeps DEF TimeOut, Run
  <2>2. CASE n # "graph_executor"
    BY <1>1, <2>2, AtNode DEF TimeOut
  <2> QED
    BY <2>1, <2>2
<1>4. t \in State
  BY <1>2, Updates
<1>5. /\ t.error = [of |-> q, at |-> "timeout"] /\ t.error # None
      /\ t.response = s.response /\ t.intent = s.intent
      /\ t.failed_cypher = s.failed_cypher /\ t.cypher_query = s.cypher_query
      /\ t.cypher_retry_count = s.cypher_retry_count
      /\ t.skip_generation = s.skip_generation /\ t.cache_hit = s.cache_hit
      /\ t.question_embedding = s.question_embedding
  BY <1>2, NoneIsNot DEF State, Failed
<1>6. Finish(q, t)
  BY DEF TimeOut
<1> HIDE DEF t
<1>7. ASSUME n \in {"intent_entity_extractor", "query_decomposer"}
      PROVE  Merged(q, n, t)
  <2>1. Route(n, t) \in {"response_generator", "ontology_update_handler",
                         "query_decomposer", "cache_checker", "concept_expander"}
    BY <1>7, Edges DEF RouteAfterIntent
  <2>2. /\ Route(n, t) = "cache_checker" => CacheOn
        /\ Route(n, t) = "concept_expander" => ~CacheOn
    BY <1>7, Edges DEF RouteAfterIntent
  <2> QED
    BY <1>2, <1>4, <1>5, <1>7, <2>1, <2>2
       DEF Merged, Sound, Asked, Run, Early, AtEarly, AtResponder, SyntaxError, Nodes
<1>8. ASSUME n = "cache_checker"
      PROVE  Merged(q, n, t)
  <2>1. Route(n, t) = IF t.skip_generation THEN "cypher_generator" ELSE "concept_expander"
    BY <1>8, Edges DEF RouteAfterCacheCheck
  <2> QED
    BY <1>2, <1>4, <1>5, <1>8, <2>1, Fields, SessionAssumption
       DEF Merged, Sound, Asked, Run, Early, AtEarly, AtGenerator, WithinBudget,
           SyntaxError, Nodes
<1>9. ASSUME n = "concept_expander"
      PROVE  Merged(q, n, t)
  <2>1. Route(n, t) = "entity_resolver"
    BY <1>9, Edges
  <2> QED
    BY <1>2, <1>4, <1>5, <1>9, <2>1
       DEF Merged, Sound, Asked, Run, Early, AtEarly, SyntaxError, Nodes
<1>10. ASSUME n \in {"entity_resolver", "cypher_generator", "graph_executor"}
       PROVE  Merged(q, n, t)
  <2>1. n = "graph_executor" => t.failed_cypher = None
    BY <1>2, <1>5 DEF Run, AtExecutor
  <2>2. Route(n, t) = "response_generator"
    BY <1>5, <1>10, <2>1, Edges
       DEF RouteAfterResolver, RouteAfterCypher, RouteAfterExecutor
  <2> QED
    BY <1>2, <1>4, <1>5, <2>2
       DEF Merged, Sound, Asked, Run, Early, AtResponder, SyntaxError, Nodes
<1>11. ASSUME n \in Responders
       PROVE  Merged(q, n, t)
  <2>1. Route(n, t) = "answered"
    BY <1>11, Edges
  <2>2. Ends(q, t)
    BY <1>2, <1>5 DEF Run, Ends
  <2> QED
    BY <1>2, <1>4, <1>5, <2>1, <2>2 DEF Merged, Sound, Asked
<1>12. Merged(q, n, t)
  BY <1>1, <1>7, <1>8, <1>9, <1>10, <1>11 DEF Nodes, Responders
<1> QED
  BY <1>1, <1>3, <1>6, <1>12, FinishKeeps

-----------------------------------------------------------------------------
(* Questions come and go                                                    *)

LEMMA AskKeeps ==
  ASSUME IInv, NEW q \in Questions, NEW m \in Modes, Ask(q, m)
  PROVE  IInv'
<1> DEFINE old == saved[SessionOf[q]]
           t == Fresh(old)
<1>1. SessionOf[q] \in Sessions /\ m \in {"run", "stream"}
  BY SessionAssumption
<1>2. old \in State /\ Sound(old) /\ Asked(old)
  BY <1>1 DEF IInv, TypeOK, SavedSound
<1>3. t \in State
  <2>1. 0 \in 0 .. MaxRetries + 1
    BY SessionAssumption
  <2> QED
    BY <1>2, <2>1, Updates DEF Fresh
<1>4. /\ t.error = None /\ t.cypher_retry_count = 0 /\ t.failed_cypher = None
      /\ t.response = old.response /\ t.skip_generation = old.skip_generation
      /\ t.cache_hit = old.cache_hit /\ t.cypher_query = old.cypher_query
  BY <1>2 DEF State, Fresh
<1>5. /\ node[q] = "unasked"
      /\ node' = [node EXCEPT ![q] = "intent_entity_extractor"]
      /\ state' = [state EXCEPT ![q] = t]
      /\ saved' = [saved EXCEPT ![SessionOf[q]] = t]
      /\ mode' = [mode EXCEPT ![q] = m]
      /\ cache' = cache /\ told' = told
  BY <1>1 DEF Ask, IInv, TypeOK
<1> HIDE DEF t
<1>6. \A p \in Questions :
        node'[p] = IF p = q THEN "intent_entity_extractor" ELSE node[p]
  BY <1>5 DEF IInv, TypeOK
<1>7. \A r \in State : Asked(r) => Asked(r)'
  <2> SUFFICES ASSUME NEW r \in State, Asked(r), r.response # None
               PROVE  node'[r.response.to] # "unasked"
    BY DEF Asked
  <2>1. r.response.to \in Questions
    BY Fields DEF Response
  <2> QED
    BY <1>6, <2>1 DEF Asked
<1>8. Sound(t) /\ Asked(t)
  BY <1>2, <1>4 DEF Sound, Asked
<1>9. Run(q, "intent_entity_extractor", t)
  BY <1>4, <1>5, <1>8 DEF Run, Early, AtEarly, SyntaxError, Asked
<1>10. SavedSound'
  <2> SUFFICES ASSUME NEW i \in Sessions
               PROVE  (Sound(saved[i]) /\ Asked(saved[i]))'
    BY DEF SavedSound
  <2>1. saved'[i] = t \/ saved'[i] = saved[i]
    BY <1>5 DEF IInv, TypeOK
  <2>2. saved[i] \in State /\ Sound(saved[i]) /\ Asked(saved[i])
    BY DEF IInv, TypeOK, SavedSound
  <2> QED
    BY <1>3, <1>7, <1>8, <2>1, <2>2 DEF Sound, Asked
<1>11. RunsOwn'
  <2> SUFFICES ASSUME NEW p \in Questions, node'[p] \in Nodes
               PROVE  (Sound(state[p]) /\ Asked(state[p]) /\ Run(p, node[p], state[p]))'
    BY DEF RunsOwn
  <2>1. CASE p = q
    <3>1. state'[q] = t /\ node'[q] = "intent_entity_extractor"
      BY <1>5 DEF IInv, TypeOK
    <3> QED
      BY <1>3, <1>7, <1>8, <1>9, <2>1, <3>1 DEF Sound, Asked
  <2>2. CASE p # q
    <3>1. state'[p] = state[p] /\ node'[p] = node[p] /\ state[p] \in State
      BY <1>5, <2>2 DEF IInv, TypeOK
    <3> QED
      BY <1>7, <3>1 DEF IInv, RunsOwn, Sound, Asked
  <2> QED
    BY <2>1, <2>2
<1>12. AnswersOwn'
  <2> SUFFICES ASSUME NEW p \in Questions, Answered(p)'
               PROVE  ToldOwn(p)'
    BY DEF AnswersOwn
  <2>1. p # q /\ Answered(p) /\ mode'[p] = mode[p]
    BY <1>5, <1>6 DEF Answered, IInv, TypeOK
  <2> QED
    BY <1>5, <2>1 DEF IInv, AnswersOwn, ToldOwn, Own
<1>13. TypeOK'
  BY <1>1, <1>3, <1>5 DEF IInv, TypeOK, Nodes
<1> QED
  BY <1>5, <1>10, <1>11, <1>12, <1>13 DEF IInv, CacheOwn

LEMMA AbortKeeps ==
  ASSUME IInv, NEW q \in Questions, Abort(q)
  PROVE  IInv'
<1>1. NewSession \in State
  BY SessionAssumption DEF NewSession, State
<1>2. /\ node' = [node EXCEPT ![q] = "failed"]
      /\ state' = [state EXCEPT ![q] = NewSession]
      /\ saved' = saved /\ cache' = cache /\ mode' = mode /\ told' = told
  BY DEF Abort
<1>3. \A p \in Questions : node'[p] = IF p = q THEN "failed" ELSE node[p]
  BY <1>2 DEF IInv, TypeOK
<1>4. \A r \in State : Asked(r) => Asked(r)'
  <2> SUFFICES ASSUME NEW r \in State, Asked(r), r.response # None
               PROVE  node'[r.response.to] # "unasked"
    BY DEF Asked
  <2>1. r.response.to \in Questions
    BY Fields DEF Response
  <2> QED
    BY <1>3, <2>1 DEF Asked
<1>5. SavedSound'
  BY <1>2, <1>4 DEF SavedSound, Sound, Asked, IInv, TypeOK
<1>6. RunsOwn'
  <2> SUFFICES ASSUME NEW p \in Questions, node'[p] \in Nodes
               PROVE  (Sound(state[p]) /\ Asked(state[p]) /\ Run(p, node[p], state[p]))'
    BY DEF RunsOwn
  <2>1. p # q /\ node'[p] = node[p] /\ state'[p] = state[p] /\ state[p] \in State
    BY <1>2, <1>3, Names DEF IInv, TypeOK
  <2> QED
    BY <1>4, <2>1 DEF IInv, RunsOwn, Sound, Asked
<1>7. AnswersOwn'
  BY <1>2, <1>3 DEF IInv, AnswersOwn, ToldOwn, Own, Answered
<1>8. TypeOK'
  BY <1>1, <1>2 DEF IInv, TypeOK, Ended
<1> QED
  BY <1>2, <1>5, <1>6, <1>7, <1>8 DEF IInv, CacheOwn

LEMMA InitHolds == Init => IInv
<1> SUFFICES ASSUME Init
             PROVE  IInv
  OBVIOUS
<1>1. NewSession \in State
  BY SessionAssumption DEF NewSession, State
<1>2. Sound(NewSession) /\ NewSession.response = None
  BY DEF NewSession, Sound
<1>3. TypeOK
  BY <1>1 DEF Init, TypeOK
<1>4. \A q \in Questions : node[q] \notin Nodes /\ ~Answered(q)
  BY DEF Init, Nodes, Answered
<1>5. SavedSound
  BY <1>2 DEF Init, SavedSound, Asked
<1> QED
  BY <1>3, <1>4, <1>5 DEF Init, IInv, CacheOwn, RunsOwn, AnswersOwn

LEMMA NextKeeps == IInv /\ [Next]_vars => IInv'
<1> SUFFICES ASSUME IInv, [Next]_vars
             PROVE  IInv'
  OBVIOUS
<1>1. CASE UNCHANGED vars
  BY <1>1 DEF vars, IInv, TypeOK, CacheOwn, SavedSound, RunsOwn, AnswersOwn, Asked,
              Answered, ToldOwn, Own
<1>2. ASSUME NEW q \in Questions, Step(q)
      PROVE  IInv'
  BY <1>2, ExtractKeeps, DecomposeKeeps, CheckCacheKeeps, ExpandKeeps, ResolveKeeps,
     GenerateKeeps, ExecuteKeeps, RespondKeeps, ClarifyKeeps, UpdateOntologyKeeps,
     TimeOutKeeps DEF Step
<1> QED
  BY <1>1, <1>2, AskKeeps, AbortKeeps DEF Next, Rest

-----------------------------------------------------------------------------
(* Theorems                                                                 *)

\* The inductive invariant, of any number of questions and sessions.
THEOREM Invariance == Spec => []IInv
BY InitHolds, NextKeeps, PTL DEF Spec

\* Whatever an earlier or a concurrent question left in the checkpoint, a run
\* starts afresh: it is not told an old error (run() resets it), not asked to
\* correct a query it did not execute, given all its retries, and a stream tells
\* what this run responded.
THEOREM RunsStartFresh == Spec => []FreshTurn
<1>1. IInv => FreshTurn
  <2> SUFFICES ASSUME IInv
               PROVE  FreshTurn
    OBVIOUS
  <2>1. OwnErrors
    BY DEF OwnErrors, IInv, AnswersOwn, ToldOwn
  <2>2. OwnFeedback
    BY DEF OwnFeedback, FoundNow, IInv, RunsOwn, Run, AtGenerator, Nodes
  <2>3. FullBudget
    <3> SUFFICES ASSUME NEW q \in Questions, node[q] = "response_generator",
                        state[q].error = Failed(q, "syntax"), SelfCorrection
                 PROVE  state[q].cypher_retry_count = MaxRetries + 1
      BY DEF FullBudget
    <3>1. Failed(q, "syntax") \in Error /\ Failed(q, "syntax").at = "syntax"
      BY DEF Failed, Error
    <3> QED
      BY <3>1, NoneIsNot DEF IInv, RunsOwn, Run, AtResponder, SyntaxError, Nodes
  <2>4. StreamTellsOwn
    BY DEF StreamTellsOwn, IInv, AnswersOwn, ToldOwn
  <2> QED
    BY <2>1, <2>2, <2>3, <2>4 DEF FreshTurn, IInv
<1> QED
  BY <1>1, Invariance, PTL

\* A run executes a query that it generated or that it found in the cache, and
\* the cache keeps a query for the question it was generated for, however many
\* sessions share it.
THEOREM QueriesAreOwn == Spec => []OwnQueries
<1>1. IInv => OwnQueries
  BY DEF OwnQueries, OwnQuery, FoundNow, IInv, RunsOwn, Run, AtExecutor, Nodes
<1> QED
  BY <1>1, Invariance, PTL

\* Rows told to a client were read by its own run, unless its question was not
\* understood.
THEOREM RowsAreOwn == Spec => []OwnRows
<1>1. IInv => OwnRows
  BY DEF OwnRows, IInv, AnswersOwn, ToldOwn
<1> QED
  BY <1>1, Invariance, PTL

-----------------------------------------------------------------------------
(* The way to an answer                                                      *)

\* How far a node is from the end of the run, if nothing is corrected.
Distance(n) ==
  CASE n = "intent_entity_extractor" -> 8
    [] n = "query_decomposer" -> 7
    [] n = "cache_checker" -> 6
    [] n = "concept_expander" -> 5
    [] n = "entity_resolver" -> 4
    [] n = "cypher_generator" -> 3
    [] n = "graph_executor" -> 2
    [] OTHER -> 1

\* The steps a run can still take at most: a correction is two steps more.
Left(q) ==
  IF node[q] \in Nodes
  THEN 2 * (MaxRetries + 1 - state[q].cypher_retry_count) + Distance(node[q])
  ELSE 0

\* Every step of a run brings it nearer to its end, and no step of another run
\* takes it back, or starts it again when it has ended: the cycle of generator and
\* executor is bounded by the retries (RouteAfterExecutor, and CountRetry on
\* every failure that may be corrected), and nodes that time out lead on.
RunsAdvance ==
  [][\A q \in Questions : node[q] # "unasked" =>
       /\ node'[q] # "unasked"
       /\ Left(q)' \in 0 .. Left(q)
       /\ Step(q) => Left(q)' < Left(q)]_vars

\* Every edge of the graph leads nearer to the end, except that back to the
\* generator, and that is taken only with a query to correct.
LEMMA EdgesLeadOn ==
  ASSUME NEW n \in Nodes, NEW s
  PROVE  \/ Route(n, s) = "answered"
         \/ Route(n, s) \in Nodes /\ Distance(Route(n, s)) < Distance(n)
         \/ /\ n = "graph_executor" /\ Route(n, s) = "cypher_generator"
            /\ s.failed_cypher # None
<1>1. CASE n = "intent_entity_extractor"
  <2>1. Route(n, s) \in {"response_generator", "ontology_update_handler",
                         "query_decomposer"}
    BY <1>1, Edges DEF RouteAfterIntent
  <2> QED BY <1>1, <2>1 DEF Distance, Nodes
<1>2. CASE n = "query_decomposer"
  <2>1. Route(n, s) \in {"cache_checker", "concept_expander"}
    BY <1>2, Edges
  <2> QED BY <1>2, <2>1 DEF Distance, Nodes
<1>3. CASE n = "cache_checker"
  <2>1. Route(n, s) \in {"cypher_generator", "concept_expander"}
    BY <1>3, Edges DEF RouteAfterCacheCheck
  <2> QED BY <1>3, <2>1 DEF Distance, Nodes
<1>4. CASE n = "concept_expander"
  <2>1. Route(n, s) = "entity_resolver"
    BY <1>4, Edges
  <2> QED BY <1>4, <2>1 DEF Distance, Nodes
<1>5. CASE n = "entity_resolver"
  <2>1. Route(n, s) \in {"response_generator", "cypher_generator",
                         "clarification_handler"}
    BY <1>5, Edges DEF RouteAfterResolver
  <2> QED BY <1>5, <2>1 DEF Distance, Nodes
<1>6. CASE n = "cypher_generator"
  <2>1. Route(n, s) \in {"response_generator", "graph_executor"}
    BY <1>6, Edges DEF RouteAfterCypher
  <2> QED BY <1>6, <2>1 DEF Distance, Nodes
<1>7. CASE n = "graph_executor"
  <2>1. \/ Route(n, s) = "response_generator"
        \/ Route(n, s) = "cypher_generator" /\ s.failed_cypher # None
    BY <1>7, Edges DEF RouteAfterExecutor
  <2> QED BY <1>7, <2>1 DEF Distance, Nodes
<1>8. CASE n \in Responders
  BY <1>8, Edges
<1> QED
  BY <1>1, <1>2, <1>3, <1>4, <1>5, <1>6, <1>7, <1>8 DEF Nodes, Responders

\* A node leaves the count as it is; the executor has nothing to be corrected
\* then, or it has counted the failure.
LEMMA StepCounts ==
  ASSUME IInv, NEW q \in Questions, Step(q)
  PROVE  /\ node[q] \in Nodes
         /\ \E s : /\ Finish(q, s)
                   /\ \/ /\ s.cypher_retry_count = state[q].cypher_retry_count
                         /\ node[q] = "graph_executor" => s.failed_cypher = None
                      \/ /\ node[q] = "graph_executor"
                         /\ s.cypher_retry_count = state[q].cypher_retry_count + 1
<1> DEFINE r == state[q]
<1>0. r \in State
  BY DEF IInv, TypeOK
<1>1. ASSUME Extract(q) \/ Decompose(q) \/ CheckCache(q) \/ Expand(q) \/ Resolve(q)
      PROVE  /\ node[q] \in Nodes /\ node[q] # "graph_executor"
             /\ \E s : Finish(q, s) /\ s.cypher_retry_count = r.cypher_retry_count
  <2>1. CASE Extract(q)
    <3>1. \A i, e : [r EXCEPT !.intent = i, !.entities = e]
                      .cypher_retry_count = r.cypher_retry_count
      BY <1>0 DEF State
    <3>2. /\ node[q] = "intent_entity_extractor"
          /\ \/ \E i, e : Finish(q, [r EXCEPT !.intent = i, !.entities = e])
             \/ \E i, e, x : Finish(q, [r EXCEPT !.intent = i, !.entities = e,
                                                 !.error = x])
      BY <2>1, Zenon DEF Extract
    <3>3. node[q] \in Nodes /\ node[q] # "graph_executor"
      BY <3>2, Zenon DEF Nodes
    <3>4. CASE \E i, e : Finish(q, [r EXCEPT !.intent = i, !.entities = e])
      BY <3>1, <3>3, <3>4, Zenon
    <3>5. CASE \E i, e, x : Finish(q, [r EXCEPT !.intent = i, !.entities = e,
                                                !.error = x])
      <4>1. PICK i, e, x : Finish(q, [r EXCEPT !.intent = i, !.entities = e,
                                               !.error = x])
        BY <3>5, Zenon
      <4> DEFINE t == [r EXCEPT !.intent = i, !.entities = e, !.error = x]
      <4>2. t.cypher_retry_count = r.cypher_retry_count
        BY <1>0 DEF State
      <4>3. Finish(q, t)
        BY <4>1
      <4> HIDE DEF t
      <4> QED BY <3>3, <4>2, <4>3, Zenon
    <3> QED BY <3>2, <3>4, <3>5, Zenon
  <2>2. CASE Decompose(q)
    BY <1>0, <2>2 DEF Decompose, Nodes, State
  <2>3. CASE CheckCache(q)
    <3> DEFINE checked == [r EXCEPT !.question_embedding = q, !.cache_hit = FALSE,
                                    !.skip_generation = FALSE]
    <3>1. \A e, x :
            /\ checked.cypher_retry_count = r.cypher_retry_count
            /\ [checked EXCEPT !.cache_hit = TRUE, !.skip_generation = TRUE,
                               !.cypher_query = e].cypher_retry_count
                 = r.cypher_retry_count
            /\ [checked EXCEPT !.question_embedding = None, !.error = x]
                 .cypher_retry_count = r.cypher_retry_count
      BY <1>0 DEF State
    <3>2. /\ node[q] = "cache_checker"
          /\ \/ \E e : Finish(q, [checked EXCEPT !.cache_hit = TRUE,
                                                 !.skip_generation = TRUE,
                                                 !.cypher_query = e])
             \/ Finish(q, checked)
             \/ \E x : Finish(q, [checked EXCEPT !.question_embedding = None,
                                                 !.error = x])
      BY <2>3, Zenon DEF CheckCache
    <3>3. node[q] \in Nodes /\ node[q] # "graph_executor"
      BY <3>2, Zenon DEF Nodes
    <3> HIDE DEF checked
    <3> QED BY <3>1, <3>2, <3>3, Zenon
  <2>4. CASE Expand(q)
    <3>1. \A e :
            /\ [r EXCEPT !.expanded = e, !.has_expansion = TRUE]
              .cypher_retry_count = r.cypher_retry_count
      BY <1>0 DEF State
    <3>2. node[q] \in Nodes /\ node[q] # "graph_executor"
      BY <2>4 DEF Expand, Nodes
    <3> QED BY <2>4, <3>1, <3>2, Zenon DEF Expand
  <2>5. CASE Resolve(q)
    <3>1. \A b, u :
            /\ [r EXCEPT !.resolved = b, !.unresolved = u]
              .cypher_retry_count = r.cypher_retry_count
      BY <1>0 DEF State
    <3>2. node[q] \in Nodes /\ node[q] # "graph_executor"
      BY <2>5 DEF Resolve, Nodes
    <3>3. \E b, u : Finish(q, [r EXCEPT !.resolved = b, !.unresolved = u])
      BY <2>5, Zenon DEF Resolve
    <3> QED BY <3>1, <3>2, <3>3, Zenon
  <2> QED BY <1>1, <2>1, <2>2, <2>3, <2>4, <2>5
<1>2. ASSUME Generate(q) \/ Respond(q) \/ Clarify(q) \/ UpdateOntology(q)
      PROVE  /\ node[q] \in Nodes /\ node[q] # "graph_executor"
             /\ \E s : Finish(q, s) /\ s.cypher_retry_count = r.cypher_retry_count
  <2>1. CASE Generate(q)
    <3>1. \A c, x :
            /\ [r EXCEPT !.cypher_query = c, !.error = None, !.failed_cypher = None]
              .cypher_retry_count = r.cypher_retry_count
            /\ [r EXCEPT !.cypher_query = None, !.error = x]
              .cypher_retry_count = r.cypher_retry_count
      BY <1>0 DEF State
    <3>2. node[q] \in Nodes /\ node[q] # "graph_executor"
      BY <2>1 DEF Generate, Nodes
    <3> QED BY <2>1, <3>1, <3>2, Zenon DEF Generate
  <2>2. CASE Respond(q)
    BY <1>0, <2>2 DEF Respond, Nodes, State
  <2>3. CASE Clarify(q)
    BY <1>0, <2>3 DEF Clarify, Nodes, State
  <2>4. CASE UpdateOntology(q)
    <3>1. \A t, x :
            /\ [r EXCEPT !.response = t, !.error = x]
              .cypher_retry_count = r.cypher_retry_count
      BY <1>0 DEF State
    <3>2. node[q] \in Nodes /\ node[q] # "graph_executor"
      BY <2>4 DEF UpdateOntology, Nodes
    <3>3. \E t, x : Finish(q, [r EXCEPT !.response = t, !.error = x])
      BY <2>4, Zenon DEF UpdateOntology
    <3> QED BY <3>1, <3>2, <3>3, Zenon
  <2> QED BY <1>2, <2>1, <2>2, <2>3, <2>4
<1>3. ASSUME node[q] = "graph_executor"
      PROVE  r.failed_cypher = None
  BY <1>3, AtNode DEF Nodes, Run, AtExecutor
<1>4. ASSUME Execute(q)
      PROVE  /\ node[q] = "graph_executor"
             /\ \E s : /\ Finish(q, s)
                       /\ \/ /\ s.cypher_retry_count = r.cypher_retry_count
                             /\ s.failed_cypher = None
                          \/ s.cypher_retry_count = r.cypher_retry_count + 1
  <2>0. node[q] = "graph_executor" /\ r.failed_cypher = None
    BY <1>3, <1>4 DEF Execute
  <2>1. \/ \E x : Finish(q, [r EXCEPT !.graph_results = x, !.failed_cypher = None])
        \/ \E x, f : Finish(q, [r EXCEPT !.graph_results = None, !.error = x,
                                          !.cypher_retry_count = CountRetry(r),
                                          !.failed_cypher = f,
                                          !.skip_generation = FALSE])
        \/ \E x : Finish(q, [r EXCEPT !.graph_results = None, !.error = x])
    BY <1>4, Zenon DEF Execute
  <2>2. \A x, f :
          /\ [r EXCEPT !.graph_results = x, !.failed_cypher = None]
               .cypher_retry_count = r.cypher_retry_count
          /\ [r EXCEPT !.graph_results = x, !.failed_cypher = None]
               .failed_cypher = None
          /\ [r EXCEPT !.graph_results = None, !.error = x,
                       !.cypher_retry_count = CountRetry(r), !.failed_cypher = f,
                       !.skip_generation = FALSE].cypher_retry_count
               = r.cypher_retry_count + 1
          /\ [r EXCEPT !.graph_results = None, !.error = x].cypher_retry_count
               = r.cypher_retry_count
          /\ [r EXCEPT !.graph_results = None, !.error = x].failed_cypher
               = r.failed_cypher
    BY <1>0 DEF State, CountRetry
  <2>3. CASE \E x : Finish(q, [r EXCEPT !.graph_results = x, !.failed_cypher = None])
    BY <2>0, <2>2, <2>3, Zenon
  <2>4. CASE \E x, f : Finish(q, [r EXCEPT !.graph_results = None, !.error = x,
                                           !.cypher_retry_count = CountRetry(r),
                                           !.failed_cypher = f,
                                           !.skip_generation = FALSE])
    <3>1. PICK x, f : Finish(q, [r EXCEPT !.graph_results = None, !.error = x,
                                          !.cypher_retry_count = CountRetry(r),
                                          !.failed_cypher = f,
                                          !.skip_generation = FALSE])
      BY <2>4, Zenon
    <3> DEFINE t == [r EXCEPT !.graph_results = None, !.error = x,
                              !.cypher_retry_count = CountRetry(r),
                              !.failed_cypher = f, !.skip_generation = FALSE]
    <3>2. Finish(q, t) /\ t.cypher_retry_count = r.cypher_retry_count + 1
      BY <2>2, <3>1, Zenon
    <3> HIDE DEF t
    <3> QED BY <2>0, <3>2, Zenon
  <2>5. CASE \E x : Finish(q, [r EXCEPT !.graph_results = None, !.error = x])
    BY <2>0, <2>2, <2>5, Zenon
  <2> QED BY <2>1, <2>3, <2>4, <2>5, Zenon
<1>5. ASSUME TimeOut(q)
      PROVE  /\ node[q] \in Nodes
             /\ \E s : /\ Finish(q, s)
                       /\ s.cypher_retry_count = r.cypher_retry_count
                       /\ s.failed_cypher = r.failed_cypher
  BY <1>0, <1>5 DEF TimeOut, State
<1> QED
  BY <1>1, <1>2, <1>3, <1>4, <1>5 DEF Step, Nodes

\* The steps that are left, in numbers.
LEMMA LeftIs ==
  ASSUME IInv, NEW q \in Questions, node[q] \in Nodes
  PROVE  Left(q) \in Nat \ {0}
<1>1. PICK c \in 0 .. MaxRetries + 1 : c = state[q].cypher_retry_count
  BY Fields DEF IInv, TypeOK
<1>2. PICK d \in 1 .. 8 : d = Distance(node[q])
  BY DEF Distance
<1>3. Left(q) = 2 * (MaxRetries + 1 - c) + d
  BY <1>1, <1>2 DEF Left
<1>4. PICK m \in Nat : m = MaxRetries
  BY SessionAssumption
<1> QED BY <1>3, <1>4

LEMMA LeftIsNatural == IInv => \A q \in Questions : Left(q) \in Nat
BY LeftIs DEF Left

LEMMA StepAdvances ==
  ASSUME IInv, IInv', NEW q \in Questions, Step(q)
  PROVE  /\ node'[q] # "unasked" /\ Left(q)' < Left(q)
         /\ \A p \in Questions \ {q} : node'[p] = node[p] /\ state'[p] = state[p]
<1>1. node[q] \in Nodes
  BY StepCounts
<1>2. PICK s : /\ Finish(q, s)
               /\ \/ /\ s.cypher_retry_count = state[q].cypher_retry_count
                     /\ node[q] = "graph_executor" => s.failed_cypher = None
                  \/ /\ node[q] = "graph_executor"
                     /\ s.cypher_retry_count = state[q].cypher_retry_count + 1
  BY StepCounts
<1> DEFINE next == Route(node[q], s)
<1>3. node' = [node EXCEPT ![q] = next]
  BY <1>2 DEF Finish
<1>4. node'[q] = next
  BY <1>3 DEF IInv, TypeOK
<1>5. \/ next = "answered"
      \/ next \in Nodes /\ Distance(next) < Distance(node[q])
      \/ /\ node[q] = "graph_executor" /\ next = "cypher_generator"
         /\ s.failed_cypher # None
  BY <1>1, EdgesLeadOn
<1>6. ASSUME next = "answered"
      PROVE  Left(q)' < Left(q)
  <2>1. Left(q)' = 0
    BY <1>4, <1>6, Names DEF Left
  <2>2. PICK k \in Nat \ {0} : k = Left(q)
    BY <1>1, LeftIs
  <2> QED BY <2>1, <2>2
<1>7. ASSUME next # "answered"
      PROVE  Left(q)' < Left(q)
  <2>1. next \in Nodes
    BY <1>5, <1>7 DEF Nodes
  <2>2. state' = [state EXCEPT ![q] = s]
    BY <1>2, <1>7 DEF Finish
  <2>3. state'[q] = s
    BY <2>2 DEF IInv, TypeOK
  <2>4. PICK c \in Int : c = state[q].cypher_retry_count
    BY Fields, SessionAssumption DEF IInv, TypeOK
  <2>5. PICK d \in Int : d = Distance(node[q])
    BY DEF Distance
  <2>6. PICK e \in Int : e = Distance(next)
    BY DEF Distance
  <2>7. PICK k \in Int : k = s.cypher_retry_count
    BY <1>2, <2>4
  <2>8. /\ Left(q) = 2 * (MaxRetries + 1 - c) + d
        /\ Left(q)' = 2 * (MaxRetries + 1 - k) + e
    BY <1>1, <1>4, <2>1, <2>3, <2>4, <2>5, <2>6, <2>7 DEF Left
  <2>9. \/ k \in {c, c + 1} /\ e < d
        \/ k = c + 1 /\ e = d + 1
    <3>1. CASE Distance(next) < Distance(node[q])
      BY <1>2, <2>4, <2>5, <2>6, <2>7, <3>1
    <3>2. CASE ~(Distance(next) < Distance(node[q]))
      <4>1. /\ node[q] = "graph_executor" /\ next = "cypher_generator"
            /\ s.failed_cypher # None
        BY <1>5, <1>7, <3>2
      <4>2. Distance(next) = 3 /\ Distance(node[q]) = 2
        BY <4>1 DEF Distance
      <4> QED BY <1>2, <2>4, <2>5, <2>6, <2>7, <4>1, <4>2
    <3> QED BY <3>1, <3>2
  <2>10. PICK m \in Nat : m = MaxRetries
    BY SessionAssumption
  <2> QED BY <2>8, <2>9, <2>10
<1>8. node'[q] # "unasked"
  BY <1>4, <1>5, Names DEF Nodes
<1>9. \A p \in Questions \ {q} : node'[p] = node[p] /\ state'[p] = state[p]
  BY <1>2, <1>3 DEF Finish, IInv, TypeOK
<1> QED BY <1>6, <1>7, <1>8, <1>9

\* A run that is asked answers or fails after a bounded number of its own steps,
\* whatever other runs do in between: what Answering needs besides fairness, for
\* any number of retries.
THEOREM RunsComeToAnEnd == Spec => RunsAdvance
<1>0. IInv' => (\A q \in Questions : Left(q) \in Nat)'
  BY LeftIsNatural, PTL
<1>1. ASSUME IInv, IInv', [Next]_vars, NEW q \in Questions, node[q] # "unasked"
      PROVE  /\ node'[q] # "unasked"
             /\ Left(q)' \in 0 .. Left(q)
             /\ Step(q) => Left(q)' < Left(q)
  <2>0. Left(q) \in Nat /\ Left(q)' \in Nat
    BY <1>0, <1>1, LeftIsNatural
  <2>1. CASE Step(q)
    BY <1>1, <2>0, <2>1, StepAdvances
  <2>2. ASSUME ~Step(q)
        PROVE  \/ node'[q] = node[q] /\ state'[q] = state[q]
               \/ node'[q] = "failed"
    <3>1. CASE UNCHANGED vars
      BY <3>1 DEF vars
    <3>2. ASSUME NEW p \in Questions, Step(p)
          PROVE  node'[q] = node[q] /\ state'[q] = state[q]
      BY <1>1, <2>2, <3>2, StepAdvances
    <3>3. ASSUME NEW p \in Questions, NEW m \in Modes, Ask(p, m)
          PROVE  node'[q] = node[q] /\ state'[q] = state[q]
      BY <1>1, <3>3 DEF Ask, IInv, TypeOK
    <3>4. ASSUME NEW p \in Questions, Abort(p)
          PROVE  \/ node'[q] = node[q] /\ state'[q] = state[q]
                 \/ node'[q] = "failed"
      BY <1>1, <3>4 DEF Abort, IInv, TypeOK
    <3> QED BY <1>1, <3>1, <3>2, <3>3, <3>4 DEF Next, Rest
  <2>3. CASE ~Step(q) /\ node'[q] = node[q] /\ state'[q] = state[q]
    <3>1. Left(q)' = Left(q)
      BY <2>3 DEF Left
    <3> QED BY <1>1, <2>0, <2>3, <3>1
  <2>4. CASE ~Step(q) /\ node'[q] = "failed"
    <3>1. Left(q)' = 0
      BY <2>4, Names DEF Left
    <3> QED BY <2>0, <2>4, <3>1
  <2> QED BY <2>1, <2>2, <2>3, <2>4
<1>2. IInv /\ IInv' /\ [Next]_vars =>
        [\A q \in Questions : node[q] # "unasked" =>
           /\ node'[q] # "unasked"
           /\ Left(q)' \in 0 .. Left(q)
           /\ Step(q) => Left(q)' < Left(q)]_vars
  BY <1>1
<1> QED
  BY <1>2, Invariance, PTL DEF Spec, RunsAdvance

-----------------------------------------------------------------------------
(* Corrections of the query                                                  *)

\* The two rules that rewrite a line, on that line.
NotIn(l) == IF l.line = "cond" /\ l.keyword /\ l.negated = "infix"
            THEN [l EXCEPT !.negated = "prefix"] ELSE l
InClause(l) == IF Converted(l) THEN [l EXCEPT !.form = "any", !.lowered = TRUE] ELSE l
Rewritten(l) == InClause(NotIn(l))

IsCond(l) ==
  /\ l.line = "cond" /\ l.keyword \in BOOLEAN /\ l.negated \in {"none", "infix", "prefix"}
  /\ l.lowered \in BOOLEAN
  /\ DOMAIN l = {"line", "keyword", "negated", "lowered", "prop", "param", "form"}

LEMMA LineIsCond ==
  ASSUME NEW l \in Lines, l.line = "cond"
  PROVE  /\ IsCond(l) /\ l \in Comparison
         /\ l.negated = "infix" => l.form = "in"
         /\ l.form = "any" => l.lowered
<1>1. l \notin [line: {"match", "order", "limit"}] /\ l \notin [line: {"with", "return"}, aliased: BOOLEAN]
  OBVIOUS
<1>2. l \in Comparison /\ (l.negated = "infix" => l.form = "in") /\ (l.form = "any" => l.lowered)
  BY <1>1 DEF Lines
<1>3. IsCond(l)
  BY <1>2 DEF Comparison, IsCond
<1> QED BY <1>2, <1>3

LEMMA NotInFields ==
  ASSUME NEW l, IsCond(l), NEW c, c = NotIn(l)
  PROVE  /\ IsCond(c) /\ c.keyword = l.keyword /\ c.lowered = l.lowered
         /\ c.prop = l.prop /\ c.param = l.param /\ c.form = l.form
         /\ ~(c.keyword /\ c.negated = "infix")
         /\ c.negated = "none" <=> l.negated = "none"
<1>1. CASE l.keyword /\ l.negated = "infix"
  <2>1. c = [l EXCEPT !.negated = "prefix"]
    BY <1>1 DEF NotIn, IsCond
  <2> QED BY <1>1, <2>1 DEF IsCond
<1>2. CASE ~(l.keyword /\ l.negated = "infix")
  BY <1>2 DEF NotIn, IsCond
<1> QED BY <1>1, <1>2

LEMMA InClauseFields ==
  ASSUME NEW c, IsCond(c), NEW d, d = InClause(c)
  PROVE  /\ IsCond(d) /\ d.keyword = c.keyword /\ d.negated = c.negated
         /\ d.prop = c.prop /\ d.param = c.param
         /\ Converted(c) => d.lowered = TRUE /\ d.form = "any"
         /\ ~Converted(c) => d = c
<1>1. CASE Converted(c)
  <2>1. d = [c EXCEPT !.form = "any", !.lowered = TRUE]
    BY <1>1 DEF InClause
  <2> QED BY <1>1, <2>1 DEF IsCond
<1>2. CASE ~Converted(c)
  BY <1>2 DEF InClause
<1> QED BY <1>1, <1>2

LEMMA OtherLine ==
  ASSUME NEW l, l.line # "cond"
  PROVE  NotIn(l) = l /\ InClause(l) = l /\ Rewritten(l) = l
BY DEF NotIn, InClause, Converted, Rewritten

\* Rewriting a line once is enough.
LEMMA LineSettles ==
  ASSUME NEW l \in Lines
  PROVE  /\ Rewritten(l) \in Lines /\ Rewritten(l).line = l.line
         /\ NotIn(Rewritten(l)) = Rewritten(l)
         /\ InClause(Rewritten(l)) = Rewritten(l)
<1>1. CASE l.line # "cond"
  BY <1>1, OtherLine
<1>2. CASE l.line = "cond"
  <2>1. PICK c, d : c = NotIn(l) /\ d = InClause(c)
    OBVIOUS
  <2>2. Rewritten(l) = d
    BY <2>1 DEF Rewritten
  <2>3. IsCond(c) /\ ~(c.keyword /\ c.negated = "infix")
    BY <1>2, <2>1, LineIsCond, NotInFields
  <2>4. IsCond(d) /\ ~(d.keyword /\ d.negated = "infix")
    BY <2>1, <2>3, InClauseFields
  <2>5. NotIn(d) = d
    BY <2>4 DEF NotIn
  <2>6. ~Converted(d)
    <3>1. CASE Converted(c)
      <4>1. d.form = "any"
        BY <2>1, <2>3, <3>1, InClauseFields
      <4> QED BY <4>1 DEF Converted
    <3>2. CASE ~Converted(c)
      BY <2>1, <2>3, <3>2, InClauseFields
    <3> QED BY <3>1, <3>2
  <2>7. InClause(d) = d
    BY <2>6 DEF InClause
  <2>8. c \in Comparison /\ (c.negated = "infix" => c.form = "in") /\ (c.form = "any" => c.lowered)
    <3>1. CASE l.keyword /\ l.negated = "infix"
      <4>1. c = [l EXCEPT !.negated = "prefix"] /\ l \in Comparison
        BY <1>2, <2>1, <3>1, LineIsCond DEF NotIn
      <4>2. c \in Comparison /\ c.negated = "prefix" /\ c.form = l.form /\ c.lowered = l.lowered
        BY <4>1 DEF Comparison
      <4> QED BY <1>2, <4>2, LineIsCond
    <3>2. CASE ~(l.keyword /\ l.negated = "infix")
      BY <1>2, <2>1, <3>2, LineIsCond DEF NotIn
    <3> QED BY <3>1, <3>2
  <2>9. d \in Lines
    <3>1. CASE Converted(c)
      <4>1. d = [c EXCEPT !.form = "any", !.lowered = TRUE] /\ c.negated # "infix"
        BY <2>1, <3>1 DEF InClause, Converted
      <4>2. d \in Comparison /\ d.negated # "infix" /\ d.lowered
        BY <2>8, <4>1 DEF Comparison
      <4> QED BY <4>2 DEF Lines
    <3>2. CASE ~Converted(c)
      BY <2>1, <2>8, <3>2 DEF InClause, Lines
    <3> QED BY <3>1, <3>2
  <2> QED BY <1>2, <2>2, <2>4, <2>5, <2>7, <2>9 DEF IsCond
<1> QED BY <1>1, <1>2

\* The least of some places
LEMMA FirstOfIs ==
  ASSUME NEW places, places \subseteq Nat, places # {}
  PROVE  FirstOf(places) \in places /\ \A j \in places : FirstOf(places) <= j
<1> DEFINE R == {ss \in Nat \X Nat : ss[1] < ss[2]}
<1>1. IsWellFoundedOn(R, Nat)
  BY NatLessThanWellFounded DEF OpToRel
<1> HIDE DEF R
<1>2. PICK m \in places : \A k \in places : <<k, m>> \notin R
  BY <1>1, WFMin
<1>3. \A k \in places : ~(k < m)
  BY <1>2 DEF R
<1>4. \A k \in places : m <= k
  BY <1>3
<1> QED BY <1>4 DEF FirstOf

\* The first line of a kind
LEMMA FirstLineIs ==
  ASSUME NEW L, NEW c \in Seq(L), NEW from, NEW kind, NEW n, n = FirstLine(c, from, kind)
  PROVE  /\ n = 0 => \A i \in DOMAIN c : i >= from => c[i].line # kind
         /\ n # 0 => /\ n \in DOMAIN c /\ n >= from /\ c[n].line = kind
                     /\ \A i \in DOMAIN c : i >= from /\ c[i].line = kind => n <= i
         /\ n \in Nat
<1> DEFINE places == {i \in DOMAIN c : i >= from /\ c[i].line = kind}
<1>1. DOMAIN c \subseteq Nat \ {0} /\ places \subseteq Nat
  OBVIOUS
<1>2. CASE places = {}
  BY <1>1, <1>2 DEF FirstLine
<1>3. CASE places # {}
  <2>1. n = FirstOf(places)
    BY <1>3 DEF FirstLine
  <2> HIDE DEF places
  <2>2. n \in places /\ \A j \in places : n <= j
    BY <1>1, <1>3, <2>1, FirstOfIs
  <2> QED BY <1>1, <2>2 DEF places
<1> QED BY <1>2, <1>3

\* r is what a query c becomes that is cut before its second MATCH.
CutAt(c, r) ==
  \E w, m, t \in DOMAIN c :
    /\ r = SubSeq(c, 1, m - 1) \o <<[line |-> "return", aliased |-> TRUE], [line |-> "order"]>>
    /\ FixAggregationTypeAReturn(r) = r
    /\ w < m /\ m <= t
    /\ c[w].line = "with" /\ c[w].aliased /\ c[m].line = "match"
    /\ c[t].line = "return" /\ ~c[t].aliased

\* A query is kept, or cut before its second MATCH, and cutting again is nothing.
LEMMA CutSettles ==
  ASSUME NEW L, NEW c \in Seq(L), NEW r, r = FixAggregationTypeAReturn(c)
  PROVE  r = c \/ CutAt(c, r)
<1> DEFINE with == FirstLine(c, 1, "with")
           match == FirstLine(c, with + 1, "match")
           return == FirstLine(c, match, "return")
           last == [line |-> "return", aliased |-> TRUE]
           order == [line |-> "order"]
<1>1. CASE 0 \in {with, match, return} \/ ~c[with].aliased \/ c[return].aliased
  BY <1>1 DEF FixAggregationTypeAReturn
<1>2. CASE ~(0 \in {with, match, return} \/ ~c[with].aliased \/ c[return].aliased)
  <2>0. r = SubSeq(c, 1, match - 1) \o <<last, order>>
    BY <1>2 DEF FixAggregationTypeAReturn
  <2>1. with \in DOMAIN c /\ c[with].line = "with"
        /\ \A i \in DOMAIN c : i >= 1 /\ c[i].line = "with" => with <= i
    BY <1>2, FirstLineIs
  <2>2. /\ match \in DOMAIN c /\ match >= with + 1 /\ c[match].line = "match"
        /\ \A i \in DOMAIN c : i >= with + 1 /\ c[i].line = "match" => match <= i
    BY <1>2, FirstLineIs
  <2>e. return \in DOMAIN c /\ match <= return /\ c[return].line = "return"
    <3>1. PICK y : y = match
      OBVIOUS
    <3>2. return = FirstLine(c, y, "return") /\ return # 0
      BY <1>2, <3>1
    <3>3. return \in DOMAIN c /\ return >= y /\ c[return].line = "return"
      BY <3>2, FirstLineIs
    <3>4. match \in DOMAIN c /\ DOMAIN c \subseteq Nat
      BY <2>2
    <3> QED BY <3>1, <3>3, <3>4
  <2>3. PICK w, m, t : w = with /\ m = match /\ t = return
    OBVIOUS
  <2>f. c[w].aliased /\ ~c[t].aliased
    BY <1>2, <2>3
  <2> HIDE DEF with, match, return, last, order
  <2>4. w \in DOMAIN c /\ m \in DOMAIN c /\ w < m /\ DOMAIN c = 1 .. Len(c) /\ Len(c) \in Nat
    BY <2>1, <2>2, <2>3
  <2>5. PICK LL : L \cup {last, order} \subseteq LL
    OBVIOUS
  <2>6. c \in Seq(LL) /\ last \in LL /\ order \in LL
    BY <2>5
  <2>7. r \in Seq(LL) /\ DOMAIN r = 1 .. m + 1
        /\ \A i \in 1 .. m - 1 : r[i] = c[i]
        /\ r[m] = last /\ r[m + 1] = order
    BY <2>0, <2>3, <2>4, <2>6
  <2>8. last.line = "return" /\ order.line = "order"
    BY DEF last, order
  <2>9. PICK x, one, withs, matches :
          /\ one = 1 /\ withs = "with" /\ matches = "match"
          /\ x = FirstLine(r, one, withs)
    OBVIOUS
  <2>a. r \in Seq(LL)
    BY <2>7
  <2>b. x = FirstLine(r, one, withs)
    BY <2>9
  <2>c. /\ x = 0 => \A i \in DOMAIN r : i >= one => r[i].line # withs
        /\ x # 0 => /\ x \in DOMAIN r /\ x >= one /\ r[x].line = withs
                    /\ \A i \in DOMAIN r : i >= one /\ r[i].line = withs => x <= i
    BY <2>a, <2>b, FirstLineIs
  <2>10. x \in DOMAIN r /\ x <= w /\ x >= w
    <3>1. w \in DOMAIN r /\ r[w].line = "with" /\ w >= 1
      BY <2>1, <2>3, <2>4, <2>7
    <3>3. x \in DOMAIN r /\ x <= w /\ r[x].line = "with"
      BY <2>9, <2>c, <3>1
    <3>4. x \in DOMAIN c /\ c[x].line = "with" /\ x >= 1
      BY <2>4, <2>7, <3>3
    <3> QED BY <2>1, <2>3, <3>3, <3>4
  <2>11. x = w
    BY <2>4, <2>7, <2>10
  <2>12. PICK from : from = w + 1
    OBVIOUS
  <2>13. PICK y : y = FirstLine(r, from, matches)
    OBVIOUS
  <2>d. y # 0 => y \in DOMAIN r /\ y >= from /\ r[y].line = matches
    BY <2>a, <2>13, FirstLineIs
  <2>14. y = 0
    <3>1. SUFFICES ASSUME y # 0
                   PROVE  FALSE
      OBVIOUS
    <3>2. y \in DOMAIN r /\ y >= w + 1 /\ r[y].line = "match"
      BY <2>9, <2>12, <2>d, <3>1
    <3>3. y \in 1 .. m - 1
      BY <2>4, <2>7, <2>8, <3>2
    <3>4. y \in DOMAIN c /\ c[y].line = "match"
      BY <2>4, <2>7, <3>2, <3>3
    <3>5. m <= y
      BY <2>2, <2>3, <3>2, <3>4
    <3> QED BY <2>4, <3>3, <3>5
  <2>15. FixAggregationTypeAReturn(r) = r
    <3>1. FirstLine(r, FirstLine(r, 1, "with") + 1, "match") = 0
      BY <2>9, <2>11, <2>12, <2>13, <2>14
    <3> QED BY <3>1 DEF FixAggregationTypeAReturn
  <2>16. w \in DOMAIN c /\ m \in DOMAIN c /\ t \in DOMAIN c /\ w < m /\ m <= t
         /\ c[w].line = "with" /\ c[m].line = "match" /\ c[t].line = "return"
    <3>1. c[w].line = "with"
      BY <2>1, <2>3
    <3>2. c[m].line = "match"
      BY <2>2, <2>3
    <3>3. t \in DOMAIN c /\ m <= t /\ c[t].line = "return"
      BY <2>3, <2>e
    <3> QED BY <2>4, <3>1, <3>2, <3>3
  <2>17. r = SubSeq(c, 1, m - 1) \o <<last, order>>
    BY <2>0, <2>3
  <2> QED BY <2>15, <2>16, <2>17, <2>f DEF CutAt, last, order
<1> QED BY <1>1, <1>2

-----------------------------------------------------------------------------
(* Corrections of the parameters                                             *)

\* Texts that are the same but for case
LEMMA SameText ==
  ASSUME NEW a \in Spelled, NEW b \in Spelled, Same(a, b)
  PROVE  /\ Len(a) = Len(b) /\ Same(b, a)
         /\ \A i \in 1 .. Len(a) : LowerOf[a[i]] = LowerOf[b[i]]
         /\ \A c : Same(c, a) <=> Same(c, b)
<1>1. Lower(a) = Lower(b)
  BY DEF Same
<1>2. DOMAIN Lower(a) = 1 .. Len(a) /\ DOMAIN Lower(b) = 1 .. Len(b) /\ Len(a) \in Nat /\ Len(b) \in Nat
  BY DEF Lower, Spelled
<1>3. Len(a) = Len(b)
  BY <1>1, <1>2
<1>4. \A i \in 1 .. Len(a) : LowerOf[a[i]] = Lower(a)[i] /\ LowerOf[b[i]] = Lower(b)[i]
  BY <1>3 DEF Lower, Spelled
<1> QED BY <1>1, <1>3, <1>4 DEF Same

\* One text within another, letter by letter
LEMMA WithinIs ==
  ASSUME NEW a \in Spelled, NEW b \in Spelled
  PROVE  Within(a, b) <=>
           \E i \in 0 .. Len(b) - Len(a) :
             \A k \in 1 .. Len(a) : LowerOf[a[k]] = LowerOf[b[i + k]]
<1>1. Len(a) \in Nat /\ Len(b) \in Nat
  BY DEF Spelled
<1>2. ASSUME NEW i \in 0 .. Len(b) - Len(a)
      PROVE  Lower(a) = Lower(SubSeq(b, i + 1, i + Len(a)))
             <=> \A k \in 1 .. Len(a) : LowerOf[a[k]] = LowerOf[b[i + k]]
  <2>1. PICK D, n, from, to, t :
          D = DOMAIN LowerOf /\ n = Len(a) /\ from = i + 1 /\ to = i + n /\ t = SubSeq(b, from, to)
    OBVIOUS
  <2>2. t \in Spelled /\ Len(t) = Len(a) /\ \A k \in 1 .. Len(a) : t[k] = b[i + k]
    <3>1. b \in Seq(D) /\ n \in Nat /\ from \in 1 .. Len(b) + 1 /\ to \in from - 1 .. Len(b)
      BY <1>1, <2>1 DEF Spelled
    <3>2. t = [k \in 1 .. to - from + 1 |-> b[k + from - 1]] /\ to - from + 1 = n
      BY <1>1, <2>1, <3>1
    <3>3. \A k \in 1 .. n : t[k] = b[i + k] /\ b[i + k] \in D
      BY <1>1, <2>1, <3>1, <3>2
    <3>4. t \in Seq(D) /\ Len(t) = n
      BY <3>1, <3>2, <3>3
    <3> QED BY <2>1, <3>3, <3>4 DEF Spelled
  <2>3. Lower(a) = [k \in 1 .. Len(a) |-> LowerOf[a[k]]]
    BY DEF Lower, Spelled
  <2>4. Lower(t) = [k \in 1 .. Len(a) |-> LowerOf[t[k]]]
    BY <2>2 DEF Lower, Spelled
  <2>5. Lower(a) = Lower(t) <=> \A k \in 1 .. Len(a) : LowerOf[a[k]] = LowerOf[t[k]]
    <3>1. Lower(a) = Lower(t) => \A k \in 1 .. Len(a) : LowerOf[a[k]] = LowerOf[t[k]]
      <4>1. \A k \in 1 .. Len(a) : Lower(a)[k] = LowerOf[a[k]] /\ Lower(t)[k] = LowerOf[t[k]]
        BY <2>3, <2>4
      <4> QED BY <4>1
    <3>2. (\A k \in 1 .. Len(a) : LowerOf[a[k]] = LowerOf[t[k]]) => Lower(a) = Lower(t)
      BY <2>3, <2>4
    <3> QED BY <3>1, <3>2
  <2> QED BY <2>1, <2>2, <2>5
<1> QED BY <1>2 DEF Within

\* So a text is within the same texts as one that differs in case only.
LEMMA WithinSame ==
  ASSUME NEW a \in Spelled, NEW b \in Spelled, NEW v \in Spelled, Same(a, b)
  PROVE  (Within(a, v) <=> Within(b, v)) /\ (Within(v, a) <=> Within(v, b))
<1>1. Len(a) = Len(b) /\ \A i \in 1 .. Len(a) : LowerOf[a[i]] = LowerOf[b[i]]
  BY SameText
<1>2. Len(a) \in Nat /\ Len(v) \in Nat
  BY DEF Spelled
<1>3. Within(a, v) <=> Within(b, v)
  <2>1. Within(a, v) <=> \E i \in 0 .. Len(v) - Len(a) :
          \A k \in 1 .. Len(a) : LowerOf[a[k]] = LowerOf[v[i + k]]
    BY WithinIs
  <2>2. Within(b, v) <=> \E i \in 0 .. Len(v) - Len(b) :
          \A k \in 1 .. Len(b) : LowerOf[b[k]] = LowerOf[v[i + k]]
    BY WithinIs
  <2> QED BY <1>1, <2>1, <2>2
<1>4. \A i \in 0 .. Len(a) - Len(v), k \in 1 .. Len(v) : i + k \in 1 .. Len(a)
  BY <1>2
<1>5. Within(v, a) <=> Within(v, b)
  <2>1. Within(v, a) <=> \E i \in 0 .. Len(a) - Len(v) :
          \A k \in 1 .. Len(v) : LowerOf[v[k]] = LowerOf[a[i + k]]
    BY WithinIs
  <2>2. Within(v, b) <=> \E i \in 0 .. Len(b) - Len(v) :
          \A k \in 1 .. Len(v) : LowerOf[v[k]] = LowerOf[b[i + k]]
    BY WithinIs
  <2>3. \A i \in 0 .. Len(a) - Len(v), k \in 1 .. Len(v) : LowerOf[a[i + k]] = LowerOf[b[i + k]]
    BY <1>1, <1>4
  <2>4. PICK R, K : R = 0 .. Len(a) - Len(v) /\ K = 1 .. Len(v)
    OBVIOUS
  <2>5. \A i \in R : (\A k \in K : LowerOf[v[k]] = LowerOf[a[i + k]])
                     <=> (\A k \in K : LowerOf[v[k]] = LowerOf[b[i + k]])
    <3>1. SUFFICES ASSUME NEW i \in R
                   PROVE  (\A k \in K : LowerOf[v[k]] = LowerOf[a[i + k]])
                          <=> (\A k \in K : LowerOf[v[k]] = LowerOf[b[i + k]])
      OBVIOUS
    <3>2. \A k \in K : LowerOf[a[i + k]] = LowerOf[b[i + k]]
      BY <2>3, <2>4
    <3> QED BY <3>2
  <2>6. (\E i \in R : \A k \in K : LowerOf[v[k]] = LowerOf[a[i + k]])
        <=> (\E i \in R : \A k \in K : LowerOf[v[k]] = LowerOf[b[i + k]])
    BY <2>5
  <2>7. R = 0 .. Len(b) - Len(v)
    BY <1>1, <2>4
  <2>8. Within(v, a) <=> \E i \in R : \A k \in K : LowerOf[v[k]] = LowerOf[a[i + k]]
    BY <2>1, <2>4
  <2>9. Within(v, b) <=> \E i \in R : \A k \in K : LowerOf[v[k]] = LowerOf[b[i + k]]
    BY <2>2, <2>4, <2>7
  <2> QED BY <2>6, <2>8, <2>9
<1> QED BY <1>3, <1>5

LEMMA WithinLen ==
  ASSUME NEW a \in Spelled, NEW b \in Spelled, Within(a, b)
  PROVE  Len(a) <= Len(b)
<1>1. Len(a) \in Nat /\ Len(b) \in Nat
  BY DEF Spelled
<1>2. PICK i : i \in 0 .. Len(b) - Len(a)
  BY WithinIs
<1> QED BY <1>1, <1>2

\* Among some names there is a shortest ...
LEMMA ShortestThere ==
  ASSUME NEW es, NEW P, P # {}, \A i \in P : Len(es[i]) \in Nat
  PROVE  \E i \in P : \A j \in P : Len(es[i]) <= Len(es[j])
<1>1. PICK T : T = {Len(es[i]) : i \in P}
  OBVIOUS
<1>2. T \subseteq Nat /\ T # {}
  BY <1>1
<1>3. FirstOf(T) \in T /\ \A n \in T : FirstOf(T) <= n
  BY <1>2, FirstOfIs
<1> QED BY <1>1, <1>3

\* ... and a longest: the first places have a bound, else there were a first
\* place up to which they have none.
LEMMA LongestThere ==
  ASSUME NEW es \in Seq(Spelled), NEW P, P # {}, P \subseteq DOMAIN es
  PROVE  \E i \in P : \A j \in P : Len(es[i]) >= Len(es[j])
<1>1. P \subseteq 1 .. Len(es) /\ Len(es) \in Nat /\ \A i \in P : Len(es[i]) \in Nat
  BY DEF Spelled
<1> DEFINE B(k) == {b \in Nat : \A i \in P : i <= k => Len(es[i]) <= b}
<1>2. \A k \in Nat : B(k) # {}
  <2> DEFINE Not == {k \in Nat : B(k) = {}}
  <2>1. SUFFICES ASSUME Not # {}
                 PROVE  FALSE
    OBVIOUS
  <2>2. PICK k : k \in Not /\ \A j \in Not : k <= j
    <3>1. Not \subseteq Nat
      OBVIOUS
    <3> HIDE DEF Not
    <3> QED BY <2>1, <3>1, FirstOfIs
  <2>3. k # 0
    <3>1. 0 \in B(0)
      BY <1>1
    <3> QED BY <2>2, <3>1
  <2>4. k - 1 \in Nat /\ k - 1 \notin Not
    BY <2>2, <2>3
  <2>5. PICK b \in Nat : \A i \in P : i <= k - 1 => Len(es[i]) <= b
    BY <2>4
  <2>6. CASE k \in P
    <3>1. PICK m \in Nat : m >= b /\ m >= Len(es[k])
      <4>1. Len(es[k]) \in Nat
        BY <1>1, <2>6
      <4> QED BY <2>5, <4>1
    <3>2. \A i \in P : i <= k => Len(es[i]) <= m
      <4>1. SUFFICES ASSUME NEW i \in P, i <= k
                     PROVE  Len(es[i]) <= m
        OBVIOUS
      <4>2. i \in Nat /\ k \in Nat /\ Len(es[i]) \in Nat
        BY <1>1, <2>2
      <4>3. CASE i <= k - 1
        <5>1. Len(es[i]) <= b
          BY <2>5, <4>3
        <5> QED BY <3>1, <4>2, <5>1
      <4> QED BY <3>1, <4>1, <4>2, <4>3
    <3> QED BY <2>2, <3>1, <3>2
  <2>7. CASE k \notin P
    <3>1. \A i \in P : i <= k => i <= k - 1
      BY <1>1, <2>2, <2>7
    <3> QED BY <2>2, <2>5, <3>1
  <2> QED BY <2>6, <2>7
<1>3. PICK T : T = B(Len(es))
  OBVIOUS
<1>4. T # {} /\ T \subseteq Nat
  BY <1>1, <1>2, <1>3
<1>5. PICK b : b \in T /\ \A c \in T : b <= c
  BY <1>4, FirstOfIs
<1>6. b \in Nat /\ \A i \in P : Len(es[i]) <= b
  BY <1>1, <1>3, <1>5
<1>7. \E i \in P : Len(es[i]) = b
  <2>1. SUFFICES ASSUME \A i \in P : Len(es[i]) # b
                 PROVE  FALSE
    OBVIOUS
  <2>2. \A i \in P : Len(es[i]) <= b - 1
    BY <1>1, <1>6, <2>1
  <2>3. b - 1 \in Nat
    BY <1>1, <1>6, <2>2
  <2>4. b - 1 \in T
    BY <1>3, <2>2, <2>3
  <2> QED BY <1>5, <1>6, <2>4
<1> QED BY <1>6, <1>7

Exact(v, es) == {i \in DOMAIN es : Same(es[i], v)}
Contained(v, es) == {i \in DOMAIN es : Within(es[i], v)}
Containing(v, es) == {i \in DOMAIN es : Within(v, es[i])}

\* What becomes of a text: the first name that is the same, or the first of the
\* longest it contains, or the first of the shortest that contain it, or itself.
LEMMA CorrectedIs ==
  ASSUME NEW es \in Seq(Spelled), NEW v \in Spelled, NEW o, o = CorrectSingleValue(v, es)
  PROVE  \/ \E k \in Exact(v, es) : o = es[k] /\ \A j \in Exact(v, es) : k <= j
         \/ /\ Exact(v, es) = {}
            /\ \E k \in Contained(v, es) :
                 /\ o = es[k]
                 /\ \A j \in Contained(v, es) : Len(es[j]) <= Len(es[k])
                 /\ \A j \in Contained(v, es) : Len(es[j]) = Len(es[k]) => k <= j
         \/ /\ Exact(v, es) = {} /\ Contained(v, es) = {}
            /\ \E k \in Containing(v, es) :
                 /\ o = es[k]
                 /\ \A j \in Containing(v, es) : Len(es[j]) >= Len(es[k])
                 /\ \A j \in Containing(v, es) : Len(es[j]) = Len(es[k]) => k <= j
         \/ /\ Exact(v, es) = {} /\ Contained(v, es) = {} /\ Containing(v, es) = {} /\ o = v
<1>1. DOMAIN es = 1 .. Len(es) /\ \A i \in DOMAIN es : Len(es[i]) \in Nat
  BY DEF Spelled
<1>2. /\ Exact(v, es) \subseteq DOMAIN es /\ Contained(v, es) \subseteq DOMAIN es
      /\ Containing(v, es) \subseteq DOMAIN es
  BY DEF Exact, Contained, Containing
<1>3. o = CASE Exact(v, es) # {} -> es[FirstOf(Exact(v, es))]
            [] Exact(v, es) = {} /\ Contained(v, es) # {} -> LongestOf(es, Contained(v, es))
            [] Exact(v, es) = {} /\ Contained(v, es) = {} /\ Containing(v, es) # {} ->
                 ShortestOf(es, Containing(v, es))
            [] OTHER -> v
  BY DEF CorrectSingleValue, Exact, Contained, Containing
<1>4. ASSUME NEW P, P \subseteq DOMAIN es, P # {}
      PROVE  /\ FirstOf(P) \in P /\ \A j \in P : FirstOf(P) <= j
             /\ \E k \in P : LongestOf(es, P) = es[k]
                  /\ (\A j \in P : Len(es[j]) <= Len(es[k]))
                  /\ (\A j \in P : Len(es[j]) = Len(es[k]) => k <= j)
             /\ \E k \in P : ShortestOf(es, P) = es[k]
                  /\ (\A j \in P : Len(es[j]) >= Len(es[k]))
                  /\ (\A j \in P : Len(es[j]) = Len(es[k]) => k <= j)
  <2>1. P \subseteq Nat
    BY <1>1, <1>4
  <2>2. FirstOf(P) \in P /\ \A j \in P : FirstOf(P) <= j
    BY <1>4, <2>1, FirstOfIs
  <2>3. \E k \in P : LongestOf(es, P) = es[k]
                  /\ (\A j \in P : Len(es[j]) <= Len(es[k]))
                  /\ (\A j \in P : Len(es[j]) = Len(es[k]) => k <= j)
    <3> DEFINE Q == {i \in P : \A j \in P : Len(es[i]) >= Len(es[j])}
    <3>1. Q # {}
      BY <1>1, <1>4, LongestThere
    <3>2. FirstOf(Q) \in Q /\ \A j \in Q : FirstOf(Q) <= j
      <4>1. Q \subseteq Nat
        BY <2>1
      <4> HIDE DEF Q
      <4> QED BY <3>1, <4>1, FirstOfIs
    <3>3. PICK k : k = FirstOf(Q)
      OBVIOUS
    <3>4. LongestOf(es, P) = es[k]
      BY <3>3 DEF LongestOf
    <3>5. k \in P /\ \A j \in P : Len(es[j]) <= Len(es[k])
      <4>1. \A j \in P : Len(es[j]) \in Nat /\ Len(es[k]) \in Nat
        BY <1>1, <1>4, <3>2, <3>3
      <4> QED BY <3>2, <3>3, <4>1
    <3>6. \A j \in P : Len(es[j]) = Len(es[k]) => j \in Q
      BY <3>2, <3>3
    <3> HIDE DEF Q
    <3> QED BY <3>2, <3>3, <3>4, <3>5, <3>6
  <2>4. \E k \in P : ShortestOf(es, P) = es[k]
                  /\ (\A j \in P : Len(es[j]) >= Len(es[k]))
                  /\ (\A j \in P : Len(es[j]) = Len(es[k]) => k <= j)
    <3> DEFINE Q == {i \in P : \A j \in P : Len(es[i]) <= Len(es[j])}
    <3>1. Q # {}
      BY <1>1, <1>4, ShortestThere
    <3>2. FirstOf(Q) \in Q /\ \A j \in Q : FirstOf(Q) <= j
      <4>1. Q \subseteq Nat
        BY <2>1
      <4> HIDE DEF Q
      <4> QED BY <3>1, <4>1, FirstOfIs
    <3>3. PICK k : k = FirstOf(Q)
      OBVIOUS
    <3>4. ShortestOf(es, P) = es[k]
      BY <3>3 DEF ShortestOf
    <3>5. k \in P /\ \A j \in P : Len(es[j]) >= Len(es[k])
      <4>1. \A j \in P : Len(es[j]) \in Nat /\ Len(es[k]) \in Nat
        BY <1>1, <1>4, <3>2, <3>3
      <4> QED BY <3>2, <3>3, <4>1
    <3>6. \A j \in P : Len(es[j]) = Len(es[k]) => j \in Q
      BY <3>2, <3>3
    <3> HIDE DEF Q
    <3> QED BY <3>2, <3>3, <3>4, <3>5, <3>6
  <2> QED BY <2>2, <2>3, <2>4
<1>5. CASE Exact(v, es) # {}
  <2>1. o = es[FirstOf(Exact(v, es))]
    BY <1>3, <1>5
  <2> QED BY <1>2, <1>4, <1>5, <2>1
<1>6. CASE Exact(v, es) = {} /\ Contained(v, es) # {}
  <2>1. o = LongestOf(es, Contained(v, es))
    BY <1>3, <1>6
  <2> QED BY <1>2, <1>4, <1>6, <2>1
<1>7. CASE Exact(v, es) = {} /\ Contained(v, es) = {} /\ Containing(v, es) # {}
  <2>1. o = ShortestOf(es, Containing(v, es))
    BY <1>3, <1>7
  <2> QED BY <1>2, <1>4, <1>7, <2>1
<1>8. CASE Exact(v, es) = {} /\ Contained(v, es) = {} /\ Containing(v, es) = {}
  BY <1>3, <1>8
<1> QED BY <1>5, <1>6, <1>7, <1>8

\* A text is corrected once for all, to a name or to itself, and to nothing
\* shorter than a name it contains.
LEMMA CorrectedSettles ==
  ASSUME NEW es \in Seq(Spelled), NEW v \in Spelled, NEW o, o = CorrectSingleValue(v, es)
  PROVE  /\ CorrectSingleValue(o, es) = o
         /\ o # v => o \in Range(es)
         /\ \A e \in Range(es) : Within(e, v) => ~(Within(o, e) /\ Len(o) < Len(e))
<1>1. /\ Range(es) = {es[i] : i \in DOMAIN es}
      /\ \A i \in DOMAIN es : es[i] \in Spelled /\ Len(es[i]) \in Nat
      /\ Len(v) \in Nat /\ DOMAIN es \subseteq Nat
  BY DEF Spelled, Range
<1>2. ASSUME NEW k \in DOMAIN es, o = es[k], \A j \in Exact(o, es) : k <= j
      PROVE  CorrectSingleValue(o, es) = o
  <2>1. k \in Exact(o, es)
    BY <1>2 DEF Exact, Same
  <2>2. o \in Spelled
    BY <1>1, <1>2
  <2>3. PICK w : w = CorrectSingleValue(o, es)
    OBVIOUS
  <2>4. PICK n \in Exact(o, es) : w = es[n] /\ \A j \in Exact(o, es) : n <= j
    BY <2>1, <2>2, <2>3, CorrectedIs
  <2>5. n = k
    BY <1>1, <1>2, <2>1, <2>4 DEF Exact
  <2> QED BY <1>2, <2>3, <2>4, <2>5
<1>3. ASSUME NEW k \in Exact(v, es), o = es[k], \A j \in Exact(v, es) : k <= j
      PROVE  /\ CorrectSingleValue(o, es) = o /\ o \in Range(es)
             /\ \A e \in Range(es) : Within(e, v) => ~(Len(o) < Len(e))
  <2>1. k \in DOMAIN es /\ Same(o, v) /\ o \in Spelled
    BY <1>1, <1>3 DEF Exact
  <2>2. Exact(o, es) = Exact(v, es)
    BY <2>1, SameText DEF Exact
  <2>3. CorrectSingleValue(o, es) = o
    BY <1>2, <1>3, <2>1, <2>2
  <2>4. Len(o) = Len(v)
    BY <2>1, SameText
  <2>5. \A e \in Range(es) : Within(e, v) => Len(e) <= Len(v) /\ Len(e) \in Nat
    BY <1>1, WithinLen
  <2> QED BY <1>1, <1>3, <2>1, <2>3, <2>4, <2>5
<1>4. ASSUME NEW k \in Contained(v, es), o = es[k],
             \A j \in Contained(v, es) : Len(es[j]) <= Len(es[k]),
             \A j \in Contained(v, es) : Len(es[j]) = Len(es[k]) => k <= j
      PROVE  /\ CorrectSingleValue(o, es) = o /\ o \in Range(es)
             /\ \A e \in Range(es) : Within(e, v) => ~(Len(o) < Len(e))
  <2>1. k \in DOMAIN es /\ Within(o, v) /\ o \in Spelled
    BY <1>1, <1>4 DEF Contained
  <2>2. ASSUME NEW j \in Exact(o, es)
        PROVE  k <= j
    <3>1. j \in DOMAIN es /\ es[j] \in Spelled /\ Same(es[j], o)
      BY <1>1 DEF Exact
    <3>2. Len(es[j]) = Len(es[k]) /\ Within(es[j], v)
      BY <1>4, <2>1, <3>1, SameText, WithinSame
    <3> QED BY <1>4, <3>1, <3>2 DEF Contained
  <2>3. CorrectSingleValue(o, es) = o
    BY <1>2, <1>4, <2>1, <2>2
  <2>4. \A e \in Range(es) : Within(e, v) => Len(e) <= Len(o) /\ Len(e) \in Nat
    BY <1>1, <1>4 DEF Contained
  <2> QED BY <1>1, <1>4, <2>1, <2>3, <2>4
<1>5. ASSUME NEW k \in Containing(v, es), o = es[k],
             \A j \in Containing(v, es) : Len(es[j]) >= Len(es[k]),
             \A j \in Containing(v, es) : Len(es[j]) = Len(es[k]) => k <= j
      PROVE  CorrectSingleValue(o, es) = o /\ o \in Range(es)
  <2>1. k \in DOMAIN es /\ Within(v, o) /\ o \in Spelled
    BY <1>1, <1>5 DEF Containing
  <2>2. ASSUME NEW j \in Exact(o, es)
        PROVE  k <= j
    <3>1. j \in DOMAIN es /\ es[j] \in Spelled /\ Same(es[j], o)
      BY <1>1 DEF Exact
    <3>2. Len(es[j]) = Len(es[k]) /\ Within(v, es[j])
      BY <1>5, <2>1, <3>1, SameText, WithinSame
    <3> QED BY <1>5, <3>1, <3>2 DEF Containing
  <2>3. CorrectSingleValue(o, es) = o
    BY <1>2, <1>5, <2>1, <2>2
  <2> QED BY <1>1, <1>5, <2>1, <2>3
<1>6. Contained(v, es) = {} => \A e \in Range(es) : ~Within(e, v)
  BY <1>1 DEF Contained
<1>7. CASE o = v /\ Contained(v, es) = {}
  <2>1. CorrectSingleValue(o, es) = o
    BY <1>7
  <2> QED BY <1>6, <1>7, <2>1
<1> QED BY <1>3, <1>4, <1>5, <1>6, <1>7, CorrectedIs

-----------------------------------------------------------------------------
(* All corrections together                                                  *)

Fixed(cypher) ==
  FixAggregationTypeAReturn(FixInClauseToToLower(FixNotInSyntax(cypher)))

\* The lines of a corrected query: those of the query, rewritten, or those before
\* its second MATCH and two others.
Rewrites(out, q) ==
  \/ Len(out) = Len(q) /\ \A i \in 1 .. Len(q) : out[i] = Rewritten(q[i])
  \/ \E with, match, return \in DOMAIN q :
       /\ with < match /\ match <= return
       /\ q[with].line = "with" /\ q[with].aliased
       /\ q[match].line = "match"
       /\ q[return].line = "return" /\ ~q[return].aliased
       /\ Len(out) = match + 1
       /\ \A i \in 1 .. match - 1 : out[i] = Rewritten(q[i])
       /\ out[match] = [line |-> "return", aliased |-> TRUE]
       /\ out[match + 1] = [line |-> "order"]

LEMMA AppendIs ==
  ASSUME NEW L, NEW s \in Seq(L), NEW e \in Seq(L)
  PROVE  /\ s \o e \in Seq(L) /\ Len(s \o e) = Len(s) + Len(e)
         /\ \A i \in 1 .. Len(s) : (s \o e)[i] = s[i]
         /\ \A i \in 1 .. Len(e) : (s \o e)[Len(s) + i] = e[i]
OBVIOUS

LEMMA TwoIs ==
  ASSUME NEW L, NEW a \in L, NEW b \in L
  PROVE  <<a, b>> \in Seq(L) /\ Len(<<a, b>>) = 2 /\ <<a, b>>[1] = a /\ <<a, b>>[2] = b
OBVIOUS

LEMMA BeforeIs ==
  ASSUME NEW L, NEW r \in Seq(L), NEW m \in 1 .. Len(r)
  PROVE  /\ SubSeq(r, 1, m - 1) \in Seq(L) /\ Len(SubSeq(r, 1, m - 1)) = m - 1
         /\ \A i \in 1 .. m - 1 : SubSeq(r, 1, m - 1)[i] = r[i]
OBVIOUS

\* A sequence cut before the place m, and its new end
IsCut(out, r, m, a, b) == out = SubSeq(r, 1, m - 1) \o <<a, b>>

LEMMA CutIs ==
  ASSUME NEW L, NEW r \in Seq(L), NEW m \in 1 .. Len(r), NEW a \in L, NEW b \in L,
         NEW out, IsCut(out, r, m, a, b)
  PROVE  /\ out \in Seq(L) /\ DOMAIN out = 1 .. m + 1 /\ Len(out) = m + 1
         /\ \A i \in 1 .. m - 1 : out[i] = r[i]
         /\ out[m] = a /\ out[m + 1] = b
<1>1. PICK s, e : s = SubSeq(r, 1, m - 1) /\ e = <<a, b>>
  OBVIOUS
<1>2. s \in Seq(L) /\ Len(s) = m - 1 /\ \A i \in 1 .. m - 1 : s[i] = r[i]
  BY <1>1, BeforeIs
<1>3. e \in Seq(L) /\ Len(e) = 2 /\ e[1] = a /\ e[2] = b
  BY <1>1, TwoIs
<1>4. out = s \o e
  BY <1>1 DEF IsCut
<1>5. /\ out \in Seq(L) /\ Len(out) = Len(s) + Len(e)
      /\ \A i \in 1 .. Len(s) : out[i] = s[i]
      /\ \A i \in 1 .. Len(e) : out[Len(s) + i] = e[i]
  <2>1. s \in Seq(L) /\ e \in Seq(L)
    BY <1>2, <1>3
  <2>2. /\ s \o e \in Seq(L) /\ Len(s \o e) = Len(s) + Len(e)
        /\ \A i \in 1 .. Len(s) : (s \o e)[i] = s[i]
        /\ \A i \in 1 .. Len(e) : (s \o e)[Len(s) + i] = e[i]
    BY <2>1, AppendIs
  <2> QED BY <1>4, <2>2, Zenon
<1>6. m \in Nat /\ Len(out) = m + 1 /\ out[m] = a /\ out[m + 1] = b
  BY <1>2, <1>3, <1>5
<1>7. DOMAIN out = 1 .. Len(out)
  BY <1>5
<1> QED BY <1>2, <1>5, <1>6, <1>7

\* A corrected query is not changed by any of the rules again.
LEMMA FixedSettles ==
  ASSUME NEW q \in Seq(Lines), NEW out, out = Fixed(q)
  PROVE  out \in Seq(Lines) /\ Rewrites(out, q) /\ Fixed(out) = out
<1>1. PICK r : r = [i \in DOMAIN q |-> Rewritten(q[i])]
  OBVIOUS
<1>2. FixInClauseToToLower(FixNotInSyntax(q)) = r
  <2>1. PICK n : n = [i \in DOMAIN q |-> NotIn(q[i])]
    OBVIOUS
  <2>2. FixNotInSyntax(q) = n
    BY <2>1 DEF FixNotInSyntax, NotIn
  <2>3. FixInClauseToToLower(n) = [i \in DOMAIN n |-> InClause(n[i])]
    BY DEF FixInClauseToToLower, InClause
  <2>4. [i \in DOMAIN n |-> InClause(n[i])] = r
    BY <1>1, <2>1 DEF Rewritten
  <2> QED BY <2>2, <2>3, <2>4
<1>3. /\ DOMAIN q = 1 .. Len(q) /\ Len(q) \in Nat
      /\ \A i \in DOMAIN q : q[i] \in Lines /\ r[i] = Rewritten(q[i]) /\ r[i] \in Lines
  BY <1>1, LineSettles
<1>4. r \in Seq(Lines) /\ DOMAIN r = DOMAIN q /\ Len(r) = Len(q)
  BY <1>1, <1>3
<1>5. out = FixAggregationTypeAReturn(r)
  BY <1>2 DEF Fixed
<1>6. ASSUME NEW c, c = [i \in DOMAIN c |-> c[i]],
             \A i \in DOMAIN c : NotIn(c[i]) = c[i] /\ InClause(c[i]) = c[i],
             FixAggregationTypeAReturn(c) = c
      PROVE  Fixed(c) = c
  <2>1. FixNotInSyntax(c) = [i \in DOMAIN c |-> NotIn(c[i])]
    BY DEF FixNotInSyntax, NotIn
  <2>2. FixInClauseToToLower(c) = [i \in DOMAIN c |-> InClause(c[i])]
    BY DEF FixInClauseToToLower, InClause
  <2>3. FixNotInSyntax(c) = c /\ FixInClauseToToLower(c) = c
    BY <1>6, <2>1, <2>2
  <2> QED BY <1>6, <2>3 DEF Fixed
<1>7. \A i \in DOMAIN r : NotIn(r[i]) = r[i] /\ InClause(r[i]) = r[i]
  BY <1>3, <1>4, LineSettles
<1>8. CASE out = r
  <2>1. Fixed(r) = r
    BY <1>1, <1>4, <1>5, <1>6, <1>7, <1>8
  <2>2. Len(out) = Len(q) /\ \A i \in 1 .. Len(q) : out[i] = Rewritten(q[i])
    BY <1>3, <1>4, <1>8
  <2> QED BY <1>4, <1>8, <2>1, <2>2 DEF Rewrites
<1>9. CASE CutAt(r, out)
  <2>1. PICK last, order : last = [line |-> "return", aliased |-> TRUE] /\ order = [line |-> "order"]
    OBVIOUS
  <2>2. last \in Lines /\ order \in Lines /\ last.line = "return" /\ order.line = "order"
    BY <2>1 DEF Lines
  <2>3. PICK w, m, t \in DOMAIN r :
          /\ out = SubSeq(r, 1, m - 1) \o <<last, order>>
          /\ FixAggregationTypeAReturn(out) = out
          /\ w < m /\ m <= t
          /\ r[w].line = "with" /\ r[w].aliased /\ r[m].line = "match"
          /\ r[t].line = "return" /\ ~r[t].aliased
    BY <1>9, <2>1 DEF CutAt
  <2>4. PICK LL : LL = Lines
    OBVIOUS
  <2>5. r \in Seq(LL) /\ last \in LL /\ order \in LL
    BY <1>4, <2>2, <2>4
  <2>e. m \in DOMAIN r /\ out = SubSeq(r, 1, m - 1) \o <<last, order>>
    BY <2>3
  <2>f. /\ out \in Seq(LL) /\ DOMAIN out = 1 .. m + 1
        /\ (\A i \in 1 .. m - 1 : out[i] = r[i]) /\ out[m] = last /\ out[m + 1] = order
    <3>1. m \in 1 .. Len(r)
      BY <1>3, <1>4, <2>3
    <3>2. IsCut(out, r, m, last, order)
      BY <2>e DEF IsCut
    <3> QED BY <2>5, <3>1, <3>2, CutIs
  <2>7. m \in Nat /\ DOMAIN out = 1 .. m + 1
    BY <1>3, <1>4, <2>e, <2>f
  <2>6. /\ out \in Seq(LL) /\ Len(out) = m + 1
        /\ (\A i \in 1 .. m - 1 : out[i] = r[i]) /\ out[m] = last /\ out[m + 1] = order
    <3>1. Len(out) = m + 1
      BY <2>7, <2>f
    <3> QED BY <2>f, <3>1
  <2>8. ASSUME NEW i \in DOMAIN out
        PROVE  NotIn(out[i]) = out[i] /\ InClause(out[i]) = out[i]
    <3>1. i \in 1 .. m - 1 \/ i = m \/ i = m + 1
      BY <2>7
    <3>2. CASE i \in 1 .. m - 1
      <4>1. i \in DOMAIN r /\ out[i] = r[i]
        BY <1>3, <1>4, <2>3, <2>6, <2>7, <3>2
      <4> QED BY <1>7, <4>1
    <3>3. CASE i = m \/ i = m + 1
      BY <2>2, <2>6, <3>3, OtherLine
    <3> QED BY <3>1, <3>2, <3>3
  <2>9. out = [i \in DOMAIN out |-> out[i]]
    BY <2>6
  <2>10. Fixed(out) = out
    BY <1>6, <2>3, <2>8, <2>9
  <2>11. ASSUME NEW i \in DOMAIN q, r[i].line # "cond"
         PROVE  r[i] = q[i]
    <3>1. q[i].line # "cond"
      BY <1>3, <2>11, LineSettles
    <3> QED BY <1>3, <3>1, OtherLine
  <2>12. r[w] = q[w] /\ r[m] = q[m] /\ r[t] = q[t]
    BY <1>4, <2>3, <2>11
  <2>13. \A i \in 1 .. m - 1 : out[i] = Rewritten(q[i])
    <3>1. \A i \in 1 .. m - 1 : i \in DOMAIN q
      BY <1>3, <1>4, <2>e, <2>7
    <3> QED BY <1>3, <2>f, <3>1
  <2>14. w \in DOMAIN q /\ m \in DOMAIN q /\ t \in DOMAIN q
    BY <1>4, <2>3
  <2>15. Rewrites(out, q)
    BY <2>1, <2>3, <2>6, <2>12, <2>13, <2>14 DEF Rewrites
  <2> QED BY <2>4, <2>6, <2>10, <2>15
<1> QED BY <1>4, <1>5, <1>8, <1>9, CutSettles

\* A rewritten condition passes the rows the written one was meant to pass.
LEMMA LineKept ==
  ASSUME NEW c \in Lines, NEW d, d = Rewritten(c), NEW params
  PROVE  Keeps(c, d, params)
<1>1. CASE c.line # "cond"
  BY <1>1, OtherLine DEF Keeps
<1>2. CASE c.line = "cond"
  <2>1. PICK n : n = NotIn(c)
    OBVIOUS
  <2>2. IsCond(c)
    BY <1>2, LineIsCond
  <2>3. /\ IsCond(n) /\ n.keyword = c.keyword /\ n.lowered = c.lowered
        /\ n.prop = c.prop /\ n.param = c.param /\ n.form = c.form
        /\ ~(n.keyword /\ n.negated = "infix")
        /\ n.negated = "none" <=> c.negated = "none"
    BY <2>1, <2>2, NotInFields
  <2>4. d = InClause(n)
    BY <2>1 DEF Rewritten
  <2>5. /\ IsCond(d) /\ d.keyword = n.keyword /\ d.negated = n.negated /\ d.param = n.param
        /\ Converted(n) => d.lowered = TRUE /\ d.form = "any"
        /\ ~Converted(n) => d = n
    BY <2>3, <2>4, InClauseFields
  <2>6. Converted(n) <=> c.keyword /\ ~c.lowered /\ c.form = "in" /\ c.prop \in CaseInsensitiveProps
    <3>1. n.line = "cond" /\ n.keyword => n.negated \in {"none", "prefix"}
      BY <2>3 DEF IsCond
    <3> QED BY <2>3, <3>1 DEF Converted, IsCond
  <2>7. PICK e : e = IF Converted(n) THEN [c EXCEPT !.form = "any", !.lowered = TRUE] ELSE c
    OBVIOUS
  <2>8. e.form = d.form /\ e.lowered = d.lowered /\ e.negated = c.negated
    <3>1. CASE Converted(n)
      <4>1. e = [c EXCEPT !.form = "any", !.lowered = TRUE]
        BY <2>7, <3>1
      <4>2. e.form = "any" /\ e.lowered = TRUE /\ e.negated = c.negated
        BY <2>2, <4>1 DEF IsCond
      <4> QED BY <2>5, <3>1, <4>2
    <3>2. CASE ~Converted(n)
      BY <2>3, <2>5, <2>7, <3>2
    <3> QED BY <3>1, <3>2
  <2>9. ASSUME NEW v, NEW items
        PROVE  Passes(d, v, items) = Intended(c, v, items)
    <3>1. Intended(c, v, items) = Passes(e, v, items)
      BY <2>6, <2>7 DEF Intended
    <3>2. (d.negated # "none") = (e.negated # "none")
      BY <2>3, <2>5, <2>8
    <3> QED BY <2>8, <3>1, <3>2 DEF Passes
  <2>10. c.keyword => Executable(d)
    BY <2>3, <2>5 DEF Executable
  <2>11. d.line = "cond" /\ d.param = c.param
    BY <2>3, <2>5 DEF IsCond
  <2> QED BY <1>2, <2>9, <2>10, <2>11 DEF Keeps
<1> QED BY <1>1, <1>2

LEMMA LinesKept ==
  ASSUME NEW q \in Seq(Lines), NEW out, Rewrites(out, q), NEW params
  PROVE  KeepsLines(q, out, params)
<1>1. DOMAIN q = 1 .. Len(q) /\ Len(q) \in Nat
  OBVIOUS
<1>2. ASSUME NEW i \in DOMAIN q, out[i] = Rewritten(q[i])
      PROVE  Keeps(q[i], out[i], params)
  BY <1>2, LineKept
<1>3. CASE Len(out) = Len(q) /\ \A i \in 1 .. Len(q) : out[i] = Rewritten(q[i])
  <2>1. \A i \in 1 .. Len(q) : Keeps(q[i], out[i], params)
    BY <1>1, <1>2, <1>3
  <2> QED BY <1>3, <2>1 DEF KeepsLines
<1>4. ASSUME NEW with \in DOMAIN q, NEW match \in DOMAIN q, NEW return \in DOMAIN q,
             with < match /\ match <= return,
             q[with].line = "with" /\ q[with].aliased,
             q[match].line = "match",
             q[return].line = "return" /\ ~q[return].aliased,
             Len(out) = match + 1,
             \A i \in 1 .. match - 1 : out[i] = Rewritten(q[i]),
             out[match] = [line |-> "return", aliased |-> TRUE],
             out[match + 1] = [line |-> "order"]
      PROVE  KeepsLines(q, out, params)
  <2>1. \A i \in 1 .. match - 1 : i \in DOMAIN q
    BY <1>1
  <2>2. \A i \in 1 .. match - 1 : Keeps(q[i], out[i], params)
    BY <1>2, <1>4, <2>1
  <2> QED BY <1>4, <2>2, Zenon DEF KeepsLines
<1> QED BY <1>3, <1>4, Zenon DEF Rewrites

\* What becomes of a value of a parameter.
Once(x, es) == IF x.number THEN x ELSE Text(CorrectSingleValue(x.text, es))
Final(x, es, lower) == IF lower THEN Text(Once(x, es).text) ELSE Once(x, es)

LEMMA ValueKept ==
  ASSUME NEW es \in Seq(Spelled), NEW x \in Value, NEW lower,
         NEW out, out = Final(x, es, lower)
  PROVE  /\ out \in Value /\ KeepsValue(x, out, es, lower)
         /\ ~x.number => Final(out, es, lower) = out
<1>1. x.number \in BOOLEAN /\ x.text \in Spelled
  BY DEF Value
<1>2. CASE x.number
  <2>1. out = IF lower THEN Text(x.text) ELSE x
    BY <1>2 DEF Final, Once
  <2>2. out \in Value
    BY <1>1, <2>1 DEF Value, Text
  <2> QED BY <1>2, <2>1, <2>2 DEF KeepsValue
<1>3. CASE ~x.number
  <2>1. PICK o : o = CorrectSingleValue(x.text, es)
    OBVIOUS
  <2>2. /\ CorrectSingleValue(o, es) = o
        /\ o # x.text => o \in Range(es)
        /\ \A e \in Range(es) : Within(e, x.text) => ~(Within(o, e) /\ Len(o) < Len(e))
    BY <1>1, <2>1, CorrectedSettles
  <2>3. Once(x, es) = [number |-> FALSE, text |-> o]
    BY <1>3, <2>1 DEF Once, Text
  <2>4. out = [number |-> FALSE, text |-> o]
    BY <2>3 DEF Final, Text
  <2>5. Range(es) \subseteq Spelled
    BY DEF Range
  <2>6. out \in Value /\ ~out.number /\ out.text = o
    BY <1>1, <2>2, <2>4, <2>5 DEF Value
  <2>7. KeepsValue(x, out, es, lower)
    BY <1>3, <2>2, <2>6 DEF KeepsValue
  <2>8. Once(out, es) = [number |-> FALSE, text |-> o]
    BY <2>2, <2>6 DEF Once, Text
  <2>9. Final(out, es, lower) = out
    <3>1. Once(out, es) = out /\ Text(out.text) = out
      BY <2>4, <2>6, <2>8 DEF Text
    <3> QED BY <3>1 DEF Final
  <2> QED BY <2>6, <2>7, <2>9
<1> QED BY <1>1, <1>2, <1>3

\* The parameters of a query, corrected together
LEMMA ParamsAre ==
  ASSUME NEW f \in [Params -> Seq(Value)], NEW es \in Seq(Spelled), NEW cypher,
         NEW out, out = CoerceToLowerParams(cypher, CorrectParameters(f, es))
  PROVE  /\ out \in [Params -> Seq(Value)]
         /\ \A p \in Params :
              /\ DOMAIN out[p] = DOMAIN f[p]
              /\ \A i \in DOMAIN f[p] :
                   /\ f[p][i] \in Value
                   /\ out[p][i] = Final(f[p][i], es, p \in ToLowerParams(cypher))
<1>1. PICK g : g = CorrectParameters(f, es)
  OBVIOUS
<1>2. /\ DOMAIN g = Params
      /\ \A p \in Params : g[p] = [i \in DOMAIN f[p] |-> Once(f[p][i], es)]
  BY <1>1 DEF CorrectParameters, Once
<1>3. /\ out = [p \in Params |-> out[p]]
      /\ \A p \in Params : out[p] = IF p \in ToLowerParams(cypher)
                                    THEN [i \in DOMAIN g[p] |-> Text(g[p][i].text)] ELSE g[p]
  BY <1>1, <1>2 DEF CoerceToLowerParams
<1>4. ASSUME NEW p \in Params
      PROVE  /\ out[p] \in Seq(Value) /\ DOMAIN out[p] = DOMAIN f[p]
             /\ \A i \in DOMAIN f[p] :
                  /\ f[p][i] \in Value
                  /\ out[p][i] = Final(f[p][i], es, p \in ToLowerParams(cypher))
  <2>1. PICK n \in Nat : f[p] \in Seq(Value) /\ n = Len(f[p]) /\ DOMAIN f[p] = 1 .. n
    OBVIOUS
  <2>2. PICK low : low = (p \in ToLowerParams(cypher))
    OBVIOUS
  <2>3. \A i \in DOMAIN f[p] : f[p][i] \in Value
    BY <2>1
  <2>4. out[p] = [i \in 1 .. n |-> Final(f[p][i], es, low)]
    <3>1. CASE low
      <4>1. out[p] = [i \in DOMAIN g[p] |-> Text(g[p][i].text)]
        BY <1>3, <2>2, <3>1
      <4>2. DOMAIN g[p] = 1 .. n /\ \A i \in 1 .. n : g[p][i] = Once(f[p][i], es)
        BY <1>2, <2>1
      <4> QED BY <3>1, <4>1, <4>2 DEF Final
    <3>2. CASE ~low
      <4>1. out[p] = [i \in 1 .. n |-> Once(f[p][i], es)]
        BY <1>2, <1>3, <2>1, <2>2, <3>2
      <4> QED BY <3>2, <4>1 DEF Final
    <3> QED BY <3>1, <3>2
  <2>5. ASSUME NEW i \in 1 .. n
        PROVE  Final(f[p][i], es, low) \in Value
    <3>1. f[p][i] \in Value
      BY <2>1
    <3> QED BY <3>1, ValueKept
  <2>6. out[p] \in Seq(Value)
    <3> DEFINE F(i) == Final(f[p][i], es, low)
    <3>1. out[p] = [i \in 1 .. n |-> F(i)] /\ \A i \in 1 .. n : F(i) \in Value
      BY <2>4, <2>5
    <3> HIDE DEF F
    <3> QED BY <3>1
  <2>7. DOMAIN out[p] = 1 .. n /\ \A i \in 1 .. n : out[p][i] = Final(f[p][i], es, low)
    BY <2>4
  <2> QED BY <2>1, <2>2, <2>3, <2>6, <2>7
<1>5. out \in [Params -> Seq(Value)]
  BY <1>3, <1>4
<1> QED BY <1>4, <1>5

\* Whatever the LLM writes, also a query that was corrected before.
LEMMA TextIsCorrected ==
  ASSUME NEW written \in CypherText, NEW names \in Questions \cup {None},
         NEW t, t = Corrected(written, names)
  PROVE  /\ t \in CorrectedText /\ WellCorrected(t) /\ t.names = names
<1>1. PICK es \in Seq(Spelled), q \in Seq(Lines), f \in [Params -> Seq(Value)] :
        es = NamesOf[names] /\ q = written.cypher /\ f = written.params
  BY WrittenAssumption DEF CypherText
<1>2. PICK c, g : /\ c = Fixed(q)
                  /\ g = CoerceToLowerParams(c, CorrectParameters(f, es))
  OBVIOUS
<1>3. ApplyCorrections(q, f, es) = [cypher |-> c, params |-> g]
  BY <1>2 DEF ApplyCorrections, Fixed
<1>4. t = [written |-> written, names |-> names, cypher |-> c, params |-> g]
  BY <1>1, <1>3 DEF Corrected
<1>5. c \in Seq(Lines) /\ Rewrites(c, q) /\ Fixed(c) = c
  BY <1>2, FixedSettles
<1>6. PICK lower \in SUBSET Params : \A p \in Params : p \in lower <=> p \in ToLowerParams(c)
  <2>1. {p \in Params : p \in ToLowerParams(c)} \in SUBSET Params
    OBVIOUS
  <2> QED BY <2>1
<1>7. /\ g \in [Params -> Seq(Value)]
      /\ \A p \in Params :
           /\ DOMAIN g[p] = DOMAIN f[p]
           /\ \A i \in DOMAIN f[p] :
                f[p][i] \in Value /\ g[p][i] = Final(f[p][i], es, p \in ToLowerParams(c))
  BY <1>2, ParamsAre
<1>8. PICK h : h = CoerceToLowerParams(c, CorrectParameters(g, es))
  OBVIOUS
<1>9. \A p \in Params : \A i \in DOMAIN g[p] :
        h[p][i] = Final(g[p][i], es, p \in ToLowerParams(c))
  BY <1>7, <1>8, ParamsAre
<1>10. ApplyCorrections(c, g, es) = [cypher |-> c, params |-> h]
  BY <1>5, <1>8 DEF ApplyCorrections, Fixed
<1>11. ASSUME NEW p \in Params, NEW i \in DOMAIN f[p]
       PROVE  /\ KeepsValue(f[p][i], g[p][i], es, p \in ToLowerParams(c))
              /\ ~f[p][i].number => h[p][i] = g[p][i]
  <2>1. PICK low : low = (p \in ToLowerParams(c))
    OBVIOUS
  <2>2. f[p][i] \in Value /\ g[p][i] = Final(f[p][i], es, low) /\ i \in DOMAIN g[p]
    BY <1>7, <2>1
  <2>3. h[p][i] = Final(g[p][i], es, low)
    BY <1>9, <2>1, <2>2
  <2>4. KeepsValue(f[p][i], g[p][i], es, low)
        /\ (~f[p][i].number => Final(g[p][i], es, low) = g[p][i])
    BY <2>2, ValueKept
  <2> QED BY <2>1, <2>3, <2>4
<1>12. KeepsLines(q, c, g)
  BY <1>5, LinesKept
<1>13. t.written = written /\ t.names = names /\ t.cypher = c /\ t.params = g
  BY <1>4
<1>14. t \in CorrectedText
  BY <1>4, <1>5, <1>7 DEF CorrectedText
<1>15. WellCorrected(t)
  <2>1. /\ NamesOf[t.names] = es /\ t.written.cypher = q /\ t.written.params = f
        /\ ApplyCorrections(t.cypher, t.params, es) = [cypher |-> c, params |-> h]
    BY <1>1, <1>10, <1>13
  <2>2. PICK again : again = [cypher |-> c, params |-> h]
    OBVIOUS
  <2>3. again.cypher = c /\ again.params = h
    BY <2>2
  <2>4. \A p \in Params :
          /\ DOMAIN g[p] = DOMAIN f[p]
          /\ \A i \in DOMAIN f[p] :
               /\ KeepsValue(f[p][i], g[p][i], es, p \in ToLowerParams(c))
               /\ ~f[p][i].number => again.params[p][i] = g[p][i]
    BY <1>7, <1>11, <2>3
  <2> QED BY <1>12, <1>13, <2>1, <2>2, <2>3, <2>4 DEF WellCorrected
<1> QED BY <1>13, <1>14, <1>15

-----------------------------------------------------------------------------
(* The texts of the runs                                                     *)

\* A query stands for the text its run was given last, whose names are its own.
Has(x) == x # None => text[x.by] # None /\ text[x.by].names = x.names
Carries(s) == Has(s.cypher_query) /\ Has(s.failed_cypher)

AtText == {"cypher_generator", "graph_executor"}

\* A run has no text before it generates a query, and its names do not change
\* any more then; what stays in checkpoints and in the cache has a text.
TextsOwn ==
  /\ text \in [Questions -> CorrectedText \cup {None}]
  /\ \A q \in Questions :
       /\ text[q] # None => WellCorrected(text[q])
       /\ node[q] \in Early \cup {"unasked"} => text[q] = None
       /\ node[q] \in AtText /\ text[q] # None =>
            text[q].names = GeneratorNames(state[q])
       /\ Carries(state[q])
  /\ \A i \in Sessions : Carries(saved[i])
  /\ \A e \in cache : Has(e.query)

LEMMA EdgesOfTexts ==
  ASSUME NEW n \in Nodes, NEW s
  PROVE  /\ Route(n, s) \in Early => n \in Early
         /\ Route(n, s) \in AtText => n \in Early \cup AtText
         /\ Route(n, s) # "unasked"
         /\ n = "cypher_generator" /\ s.error = None /\ s.cypher_query # None =>
              Route(n, s) = "graph_executor"
         /\ n = "cypher_generator" /\ (s.error # None \/ s.cypher_query = None) =>
              Route(n, s) # "graph_executor"
<1>1. CASE n \in Early
  <2>1. Route(n, s) \in Nodes
    BY <1>1, Edges DEF Early, Nodes, RouteAfterIntent, RouteAfterCacheCheck, RouteAfterResolver
  <2> QED BY <1>1, <2>1, Names DEF Early
<1>2. CASE n = "cypher_generator"
  BY <1>2, Edges DEF RouteAfterCypher, Early, AtText
<1>3. CASE n = "graph_executor"
  BY <1>3, Edges DEF RouteAfterExecutor, Early, AtText
<1>4. CASE n \in Responders
  BY <1>4, Edges DEF Responders, Early, AtText
<1> QED BY <1>1, <1>2, <1>3, <1>4 DEF Nodes, Early, Responders

\* Which query is in the state a step leaves, and whose names.
Moves(q, r, s) ==
  /\ \/ s.cypher_query \in {r.cypher_query, None}
     \/ \E e \in cache : s.cypher_query = e.query
     \/ /\ node[q] = "cypher_generator" /\ ~r.skip_generation /\ s.error = None
        /\ s.cypher_query = [by |-> q, names |-> GeneratorNames(r)]
  /\ s.failed_cypher \in {r.failed_cypher, r.cypher_query, None}
  /\ node[q] \in AtText => s.entities = r.entities /\ s.expanded = r.expanded

LEMMA StepMoves ==
  ASSUME IInv, NEW q \in Questions, Step(q)
  PROVE  /\ node[q] \in Nodes
         /\ \E s : Finish(q, s) /\ Moves(q, state[q], s)
         /\ \A e \in cache' : e \in cache \/ e.query = state[q].cypher_query
<1> DEFINE r == state[q]
<1>0. r \in State
  BY DEF IInv, TypeOK
<1>1. ASSUME NEW s, s.cypher_query = r.cypher_query, s.failed_cypher \in {r.failed_cypher, r.cypher_query, None},
             s.entities = r.entities, s.expanded = r.expanded
      PROVE  Moves(q, r, s)
  BY <1>1 DEF Moves
<1>2. ASSUME NEW s, s.cypher_query = r.cypher_query, s.failed_cypher = r.failed_cypher,
             node[q] \notin AtText
      PROVE  Moves(q, r, s)
  BY <1>2 DEF Moves
<1>3. ASSUME Keep(r)
      PROVE  \A e \in cache' : e \in cache \/ e.query = r.cypher_query
  BY <1>3 DEF Keep, CacheQuery
<1> HIDE DEF r
<1>4. CASE Extract(q)
  <2>1. node[q] = "intent_entity_extractor" /\ cache' = cache
        /\ \/ \E i, e : Finish(q, [r EXCEPT !.intent = i, !.entities = e])
           \/ \E i, e, x : Finish(q, [r EXCEPT !.intent = i, !.entities = e, !.error = x])
    BY <1>4, Zenon DEF Extract, r
  <2>2. node[q] \in Nodes /\ node[q] \notin AtText
    BY <2>1 DEF Nodes, AtText
  <2>3. \A i, e, x :
          /\ Moves(q, r, [r EXCEPT !.intent = i, !.entities = e])
          /\ Moves(q, r, [r EXCEPT !.intent = i, !.entities = e, !.error = x])
    BY <1>0, <1>2, <2>2 DEF State
  <2> QED BY <2>1, <2>2, <2>3, Zenon DEF r
<1>5. CASE Decompose(q)
  <2>1. node[q] = "query_decomposer" /\ cache' = cache
        /\ (Finish(q, r) \/ \E x : Finish(q, [r EXCEPT !.error = x]))
    BY <1>5, Zenon DEF Decompose, r
  <2>2. node[q] \in Nodes /\ node[q] \notin AtText
    BY <2>1 DEF Nodes, AtText
  <2>3. Moves(q, r, r) /\ \A x : Moves(q, r, [r EXCEPT !.error = x])
    BY <1>0, <1>2, <2>2 DEF State
  <2> QED BY <2>1, <2>2, <2>3, Zenon DEF r
<1>6. CASE CheckCache(q)
  <2> DEFINE checked == [r EXCEPT !.question_embedding = q, !.cache_hit = FALSE,
                                  !.skip_generation = FALSE]
  <2>1. /\ node[q] = "cache_checker"
        /\ \/ \E e \in cache : Finish(q, [checked EXCEPT !.cache_hit = TRUE,
                                               !.skip_generation = TRUE,
                                               !.cypher_query = e.query])
           \/ Finish(q, checked)
           \/ \E x : Finish(q, [checked EXCEPT !.question_embedding = None,
                                               !.error = x])
    BY <1>6, Zenon DEF CheckCache, r
  <2>2. node[q] \in Nodes /\ node[q] \notin AtText
    BY <2>1 DEF Nodes, AtText
  <2>3. \A e \in cache' : e \in cache
    BY <1>6 DEF CheckCache, FindSimilarQuery, DeleteCache
  <2>4. /\ checked.cypher_query = r.cypher_query /\ checked.failed_cypher = r.failed_cypher
        /\ \A x : /\ [checked EXCEPT !.question_embedding = None, !.error = x].cypher_query = r.cypher_query
                  /\ [checked EXCEPT !.question_embedding = None, !.error = x].failed_cypher = r.failed_cypher
        /\ \A c : /\ [checked EXCEPT !.cache_hit = TRUE, !.skip_generation = TRUE,
                                     !.cypher_query = c].cypher_query = c
                  /\ [checked EXCEPT !.cache_hit = TRUE, !.skip_generation = TRUE,
                                     !.cypher_query = c].failed_cypher = r.failed_cypher
    BY <1>0 DEF State
  <2> HIDE DEF checked
  <2>5. Moves(q, r, checked) /\ \A x : Moves(q, r, [checked EXCEPT !.question_embedding = None, !.error = x])
    BY <1>2, <2>2, <2>4
  <2>6. \A e \in cache : Moves(q, r, [checked EXCEPT !.cache_hit = TRUE, !.skip_generation = TRUE,
                                                     !.cypher_query = e.query])
    <3>1. ASSUME NEW e \in cache, NEW s,
                 s.cypher_query = e.query, s.failed_cypher = r.failed_cypher
          PROVE  Moves(q, r, s)
      BY <2>2, <3>1 DEF Moves
    <3> QED BY <2>4, <3>1
  <2> QED BY <2>1, <2>2, <2>3, <2>5, <2>6, Zenon DEF r
<1>7. CASE Expand(q)
  <2>1. node[q] = "concept_expander" /\ cache' = cache
        /\ \E e : Finish(q, [r EXCEPT !.expanded = e, !.has_expansion = TRUE])
    BY <1>7, Zenon DEF Expand, r
  <2>2. node[q] \in Nodes /\ node[q] \notin AtText
    BY <2>1 DEF Nodes, AtText
  <2>3. \A e : Moves(q, r, [r EXCEPT !.expanded = e, !.has_expansion = TRUE])
    BY <1>0, <1>2, <2>2 DEF State
  <2> QED BY <2>1, <2>2, <2>3, Zenon DEF r
<1>8. CASE Resolve(q)
  <2>1. node[q] = "entity_resolver" /\ cache' = cache
        /\ \E b, u : Finish(q, [r EXCEPT !.resolved = b, !.unresolved = u])
    BY <1>8, Zenon DEF Resolve, r
  <2>2. node[q] \in Nodes /\ node[q] \notin AtText
    BY <2>1 DEF Nodes, AtText
  <2>3. \A b, u : Moves(q, r, [r EXCEPT !.resolved = b, !.unresolved = u])
    BY <1>0, <1>2, <2>2 DEF State
  <2> QED BY <2>1, <2>2, <2>3, Zenon DEF r
<1>9. CASE Generate(q)
  <2>1. /\ node[q] = "cypher_generator" /\ cache' = cache
        /\ \/ Finish(q, r)
           \/ /\ ~r.skip_generation
              /\ Finish(q, [r EXCEPT !.cypher_query = [by |-> q, names |-> GeneratorNames(r)],
                                     !.error = None, !.failed_cypher = None])
           \/ \E x : Finish(q, [r EXCEPT !.cypher_query = None, !.error = x])
    BY <1>9, Zenon DEF Generate, r
  <2>2. node[q] \in Nodes
    BY <2>1 DEF Nodes
  <2>3. Moves(q, r, r)
    BY <1>1
  <2>4. \A x : Moves(q, r, [r EXCEPT !.cypher_query = None, !.error = x])
    BY <1>0 DEF State, Moves
  <2>5. PICK new : new = [by |-> q, names |-> GeneratorNames(r)]
    OBVIOUS
  <2>6. ~r.skip_generation =>
          Moves(q, r, [r EXCEPT !.cypher_query = new, !.error = None, !.failed_cypher = None])
    BY <1>0, <2>1, <2>5 DEF State, Moves
  <2> QED BY <2>1, <2>2, <2>3, <2>4, <2>5, <2>6, Zenon DEF r
<1>10. CASE Execute(q)
  <2>1. /\ node[q] = "graph_executor"
        /\ \/ \E x : Finish(q, [r EXCEPT !.graph_results = x, !.failed_cypher = None])
           \/ \E x, n : Finish(q, [r EXCEPT !.graph_results = None, !.error = x,
                                             !.cypher_retry_count = n,
                                             !.failed_cypher = r.cypher_query,
                                             !.skip_generation = FALSE])
           \/ \E x : Finish(q, [r EXCEPT !.graph_results = None, !.error = x])
    BY <1>10, Zenon DEF Execute, r
  <2>2. node[q] \in Nodes
    BY <2>1 DEF Nodes
  <2>3. \A e \in cache' : e \in cache \/ e.query = r.cypher_query
    BY <1>3, <1>10, Zenon DEF Execute, r
  <2>4. \A x, n :
          /\ Moves(q, r, [r EXCEPT !.graph_results = x, !.failed_cypher = None])
          /\ Moves(q, r, [r EXCEPT !.graph_results = None, !.error = x])
    BY <1>0, <1>1 DEF State
  <2>5. \A x, n :
          Moves(q, r, [r EXCEPT !.graph_results = None, !.error = x, !.cypher_retry_count = n,
                                !.failed_cypher = r.cypher_query, !.skip_generation = FALSE])
    BY <1>0, <1>1 DEF State
  <2> QED BY <2>1, <2>2, <2>3, <2>4, <2>5, Zenon DEF r
<1>11. CASE Respond(q) \/ Clarify(q) \/ UpdateOntology(q)
  <2>1. node[q] \in Responders /\ cache' = cache
        /\ \/ \E t : Finish(q, [r EXCEPT !.response = t])
           \/ \E t, x : Finish(q, [r EXCEPT !.response = t, !.error = x])
    BY <1>11, Zenon DEF Respond, Clarify, UpdateOntology, Responders, r
  <2>2. node[q] \in Nodes
    BY <2>1 DEF Nodes, Responders
  <2>3. \A t, x : /\ Moves(q, r, [r EXCEPT !.response = t])
                  /\ Moves(q, r, [r EXCEPT !.response = t, !.error = x])
    BY <1>0, <1>1 DEF State
  <2> QED BY <2>1, <2>2, <2>3, Zenon DEF r
<1>12. CASE TimeOut(q)
  <2>1. node[q] \in Nodes /\ \E x : Finish(q, [r EXCEPT !.error = x])
    BY <1>12, Zenon DEF TimeOut, r
  <2>2. \A e \in cache' : e \in cache \/ e.query = r.cypher_query
    BY <1>3, <1>12 DEF TimeOut, r
  <2>3. \A x : Moves(q, r, [r EXCEPT !.error = x])
    BY <1>0, <1>1 DEF State
  <2> QED BY <2>1, <2>2, <2>3, Zenon DEF r
<1> QED
  BY <1>4, <1>5, <1>6, <1>7, <1>8, <1>9, <1>10, <1>11, <1>12 DEF Step

LEMMA ShownIsText ==
  ASSUME NEW t \in CorrectedText
  PROVE  Shown(t) \in CypherText
BY DEF Shown, CorrectedText, CypherText

\* Texts that are written keep the names their question has given them.
Wrote(q) ==
  \/ UNCHANGED text
  \/ /\ text[q] # None => text[q].names = GeneratorNames(state[q])
     /\ \E t \in CorrectedText :
          /\ WellCorrected(t) /\ t.names = GeneratorNames(state[q])
          /\ text' = [text EXCEPT ![q] = t]

LEMMA HasStays ==
  ASSUME TextsOwn, NEW q \in Questions, Wrote(q), NEW x, Has(x),
         x = None \/ x.by \in Questions
  PROVE  Has(x)'
<1>1. CASE UNCHANGED text
  BY <1>1 DEF Has
<1>2. ASSUME NEW t \in CorrectedText, t.names = GeneratorNames(state[q]),
             text[q] # None => text[q].names = GeneratorNames(state[q]),
             text' = [text EXCEPT ![q] = t], x # None, x.by \in Questions
      PROVE  text'[x.by] # None /\ text'[x.by].names = x.names
  <2>1. text[x.by] # None /\ text[x.by].names = x.names
    BY <1>2 DEF Has
  <2>2. CASE x.by = q
    <3>1. text'[x.by] = t
      BY <1>2, <2>2 DEF TextsOwn
    <3>2. t # None
      BY WrittenAssumption
    <3> QED BY <1>2, <2>1, <2>2, <3>1, <3>2
  <2>3. CASE x.by # q
    BY <1>2, <2>1, <2>3 DEF TextsOwn
  <2> QED BY <2>2, <2>3
<1> QED BY <1>1, <1>2 DEF Wrote, Has

\* Queries in a state, a checkpoint or the cache are of some question.
LEMMA QueriesAre ==
  ASSUME IInv
  PROVE  /\ \A s \in State : /\ s.cypher_query = None \/ s.cypher_query.by \in Questions
                             /\ s.failed_cypher = None \/ s.failed_cypher.by \in Questions
         /\ \A q \in Questions : state[q] \in State
         /\ \A i \in Sessions : saved[i] \in State
         /\ \A e \in cache : e.query.by \in Questions
BY Fields DEF IInv, TypeOK, Query

LEMMA CarriesStays ==
  ASSUME IInv, TextsOwn, NEW q \in Questions, Wrote(q), NEW s \in State, Carries(s)
  PROVE  Carries(s)'
<1>1. Has(s.cypher_query)'
  BY QueriesAre, HasStays DEF Carries
<1>2. Has(s.failed_cypher)'
  BY QueriesAre, HasStays DEF Carries
<1> QED BY <1>1, <1>2 DEF Carries

LEMMA NewCarries ==
  /\ Has(None) /\ NewSession.cypher_query = None /\ NewSession.failed_cypher = None
  /\ Has(None)'
BY DEF Has, NewSession

\* A step of q's run
LEMMA StepTexts ==
  ASSUME IInv, TextsOwn, NEW q \in Questions, Step(q),
         \/ Write(q)
         \/ ~Generates(q) /\ UNCHANGED text
  PROVE  TextsOwn'
<1> DEFINE r == state[q]
<1>1. PICK s : Finish(q, s) /\ Moves(q, r, s)
  BY StepMoves
<1>2. PICK n \in Nodes : n = node[q]
  BY StepMoves
<1>3. PICK next : next = Route(n, s)
  OBVIOUS
<1>4. r \in State /\ Carries(r)
  BY QueriesAre DEF TextsOwn
<1>5. /\ \A p \in Questions : node'[p] = IF p = q THEN next ELSE node[p]
      /\ saved' = [saved EXCEPT ![SessionOf[q]] = s]
      /\ \A p \in Questions : state'[p] = IF p # q THEN state[p]
                                          ELSE IF next = "answered" THEN NewSession ELSE s
  <2>1. node' = [node EXCEPT ![q] = next] /\ saved' = [saved EXCEPT ![SessionOf[q]] = s]
        /\ state' = [state EXCEPT ![q] = IF next = "answered" THEN NewSession ELSE s]
    BY <1>1, <1>2, <1>3 DEF Finish
  <2> QED BY <2>1 DEF IInv, TypeOK
<1>6. /\ next \in Early => n \in Early
      /\ next \in AtText => n \in Early \cup AtText
      /\ next # "unasked"
      /\ n = "cypher_generator" /\ s.error = None /\ s.cypher_query # None => next = "graph_executor"
      /\ n = "cypher_generator" /\ (s.error # None \/ s.cypher_query = None) => next # "graph_executor"
  BY <1>3, EdgesOfTexts
<1>7. n \in AtText => GeneratorNames(s) = GeneratorNames(r)
  BY <1>1, <1>2 DEF Moves, GeneratorNames
<1>8. n \in AtText /\ text[q] # None => text[q].names = GeneratorNames(r)
  BY <1>2 DEF TextsOwn
<1>9. ASSUME Write(q)
      PROVE  /\ n = "cypher_generator" /\ next = "graph_executor"
             /\ \E t \in CorrectedText :
                  /\ WellCorrected(t) /\ t.names = GeneratorNames(r)
                  /\ text' = [text EXCEPT ![q] = t]
  <2>1. n = "cypher_generator" /\ next = "graph_executor"
    BY <1>2, <1>5, <1>9 DEF Write, Generates
  <2>2. PICK written \in Answers(q, GeneratorNames(r)) :
          text' = [text EXCEPT ![q] = Corrected(written, GeneratorNames(r))]
    BY <1>9 DEF Write
  <2>3. GeneratorNames(r) \in Questions \cup {None}
    BY <1>4, Fields DEF GeneratorNames
  <2>4. written \in CypherText
    <3>1. Written \subseteq CypherText
      BY WrittenAssumption
    <3>2. ASSUME NEW first \in Rewritable(q)
          PROVE  first \in CypherText
      <4>1. PICK f : f = r.failed_cypher
        OBVIOUS
      <4>2. f # None /\ first = Shown(text[f.by])
        BY <3>2, <4>1 DEF Rewritable
      <4>3. f.by \in Questions /\ text[f.by] # None
        BY <1>4, <4>1, <4>2, QueriesAre DEF Carries, Has
      <4>4. text[f.by] \in CorrectedText
        BY <4>3 DEF TextsOwn
      <4> QED BY <4>2, <4>4, ShownIsText
    <3>3. ASSUME NEW first \in Written \cup Rewritable(q)
          PROVE  Shown(Corrected(first, GeneratorNames(r))) \in CypherText
      <4>1. first \in CypherText
        BY <3>1, <3>2
      <4>2. PICK t : t = Corrected(first, GeneratorNames(r))
        OBVIOUS
      <4>3. t \in CorrectedText
        BY <2>3, <4>1, <4>2, TextIsCorrected
      <4> QED BY <4>2, <4>3, ShownIsText
    <3> QED BY <2>2, <3>1, <3>2, <3>3 DEF Answers
  <2>5. PICK t : t = Corrected(written, GeneratorNames(r))
    OBVIOUS
  <2>6. t \in CorrectedText /\ WellCorrected(t) /\ t.names = GeneratorNames(r)
    BY <2>3, <2>4, <2>5, TextIsCorrected
  <2> QED BY <2>1, <2>2, <2>5, <2>6
<1>10. Wrote(q)
  <2>1. CASE Write(q)
    <3>1. text[q] # None => text[q].names = GeneratorNames(r)
      BY <1>8, <1>9, <2>1 DEF AtText
    <3> QED BY <1>9, <2>1, <3>1 DEF Wrote
  <2> QED BY <2>1 DEF Wrote
<1>11. /\ text' \in [Questions -> CorrectedText \cup {None}]
       /\ \A p \in Questions : text'[p] # None => WellCorrected(text'[p])
  BY <1>10 DEF Wrote, TextsOwn
<1>12. Carries(s)'
  <2>1. /\ r.cypher_query = None \/ r.cypher_query.by \in Questions
        /\ r.failed_cypher = None \/ r.failed_cypher.by \in Questions
    BY <1>4, QueriesAre
  <2>a. PICK x, y : x = r.cypher_query /\ y = r.failed_cypher
    OBVIOUS
  <2>2. Has(x)' /\ Has(y)'
    BY <1>4, <1>10, <2>1, <2>a, HasStays DEF Carries
  <2>3. Has(s.failed_cypher)'
    <3>1. s.failed_cypher \in {x, y, None}
      BY <1>1, <2>a DEF Moves
    <3> QED BY <2>2, <3>1, NewCarries
  <2>4. ASSUME s.cypher_query \in {r.cypher_query, None}
        PROVE  Has(s.cypher_query)'
    BY <2>2, <2>4, <2>a, NewCarries
  <2>5. ASSUME NEW e \in cache, s.cypher_query = e.query
        PROVE  Has(s.cypher_query)'
    <3>1. Has(e.query) /\ e.query.by \in Questions
      BY QueriesAre DEF TextsOwn
    <3> QED BY <1>10, <2>5, <3>1, HasStays
  <2>6. ASSUME n = "cypher_generator", ~r.skip_generation, s.error = None,
               s.cypher_query = [by |-> q, names |-> GeneratorNames(r)]
        PROVE  Has(s.cypher_query)'
    <3>1. GeneratorNames(r) \in Questions \cup {None}
      BY <1>4, Fields DEF GeneratorNames
    <3>2. s.cypher_query \in Query
      BY <2>6, <3>1 DEF Query
    <3>3. next = "graph_executor"
      BY <1>6, <2>6, <3>2, NoneIsNot
    <3>4. Generates(q)
      BY <1>2, <1>5, <2>6, <3>3 DEF Generates
    <3>5. PICK t \in CorrectedText : t.names = GeneratorNames(r) /\ text' = [text EXCEPT ![q] = t]
      BY <1>9, <3>4
    <3>6. text'[q] = t /\ t # None
      BY <3>5, WrittenAssumption DEF TextsOwn
    <3>7. s.cypher_query.by = q /\ s.cypher_query.names = GeneratorNames(r)
      BY <2>6
    <3> QED BY <3>5, <3>6, <3>7 DEF Has
  <2>7. Has(s.cypher_query)'
    BY <1>1, <1>2, <2>4, <2>5, <2>6 DEF Moves
  <2> QED BY <2>3, <2>7 DEF Carries
<1> HIDE DEF r
<1>13. ASSUME NEW p \in Questions
       PROVE  /\ node'[p] \in Early \cup {"unasked"} => text'[p] = None
              /\ node'[p] \in AtText /\ text'[p] # None => text'[p].names = GeneratorNames(state'[p])
              /\ Carries(state[p])'
  <2>1. CASE p # q
    <3>1. node'[p] = node[p] /\ state'[p] = state[p] /\ text'[p] = text[p]
      BY <1>5, <1>10, <2>1 DEF Wrote, TextsOwn
    <3>2. state[p] \in State /\ Carries(state[p])
      BY QueriesAre DEF TextsOwn
    <3>3. Carries(state[p])'
      <4>1. PICK y : y = state[p]
        OBVIOUS
      <4>2. y \in State /\ Carries(y)
        BY <3>2, <4>1
      <4>3. Carries(y)'
        BY <1>10, <4>2, CarriesStays
      <4> QED BY <3>1, <4>1, <4>3 DEF Carries, Has
    <3> QED BY <3>1, <3>3 DEF TextsOwn
  <2>2. CASE p = q
    <3>1. node'[q] = next /\ state'[q] = IF next = "answered" THEN NewSession ELSE s
      BY <1>5
    <3>2. Carries(state[q])'
      BY <1>12, <3>1, NewCarries DEF Carries, Has
    <3>3. next \in Early \cup {"unasked"} => text'[q] = None
      <4>1. SUFFICES ASSUME next \in Early
                     PROVE  text'[q] = None
        BY <1>6
      <4>2. n \in Early /\ next # "graph_executor"
        BY <1>6, <4>1 DEF Early
      <4>3. text[q] = None /\ text' = text
        BY <1>2, <1>9, <4>2 DEF TextsOwn
      <4> QED BY <4>3
    <3>4. next \in AtText /\ text'[q] # None => text'[q].names = GeneratorNames(s)
      <4>1. CASE Write(q)
        <5>1. PICK t \in CorrectedText : t.names = GeneratorNames(r) /\ text' = [text EXCEPT ![q] = t]
          BY <1>9, <4>1
        <5>2. text'[q] = t
          BY <5>1 DEF TextsOwn
        <5> QED BY <1>7, <1>9, <4>1, <5>1, <5>2 DEF AtText
      <4>2. CASE text' = text
        <5>1. CASE n \in Early
          BY <1>2, <4>2, <5>1 DEF TextsOwn
        <5>2. CASE n \in AtText
          BY <1>7, <1>8, <4>2, <5>2
        <5> QED BY <1>6, <5>1, <5>2
      <4> QED BY <4>1, <4>2
    <3>5. next \in AtText => next # "answered"
      BY DEF AtText
    <3> QED BY <2>2, <3>1, <3>2, <3>3, <3>4, <3>5
  <2> QED BY <2>1, <2>2
<1>14. ASSUME NEW i \in Sessions
       PROVE  Carries(saved[i])'
  <2>1. CASE i = SessionOf[q]
    <3>1. saved'[i] = s
      BY <1>5, <2>1 DEF IInv, TypeOK
    <3> QED BY <1>12, <3>1 DEF Carries, Has
  <2>2. CASE i # SessionOf[q]
    <3>1. PICK y : y = saved[i]
      OBVIOUS
    <3>2. saved'[i] = y /\ y \in State /\ Carries(y)
      BY <1>5, <2>2, <3>1, QueriesAre DEF IInv, TypeOK, TextsOwn
    <3>3. Carries(y)'
      BY <1>10, <3>2, CarriesStays
    <3> QED BY <3>2, <3>3 DEF Carries, Has
  <2> QED BY <2>1, <2>2
<1>15. ASSUME NEW e \in cache'
       PROVE  Has(e.query)'
  <2>1. e \in cache \/ e.query = r.cypher_query
    BY <1>15, StepMoves DEF r
  <2>2. CASE e \in cache
    <3>1. Has(e.query) /\ e.query.by \in Questions
      BY <2>2, QueriesAre DEF TextsOwn
    <3> QED BY <1>10, <3>1, HasStays
  <2>3. CASE e.query = r.cypher_query
    <3>1. Has(e.query) /\ (e.query = None \/ e.query.by \in Questions)
      BY <1>4, <2>3, QueriesAre DEF Carries
    <3> QED BY <1>10, <3>1, HasStays
  <2> QED BY <2>1, <2>2, <2>3
<1> QED BY <1>11, <1>13, <1>14, <1>15 DEF TextsOwn

\* Asking and aborting write no text.
LEMMA AskTexts ==
  ASSUME IInv, TextsOwn, NEW q \in Questions, NEW m \in Modes, Ask(q, m), UNCHANGED text
  PROVE  TextsOwn'
<1>1. SessionOf[q] \in Sessions
  BY SessionAssumption
<1>2. PICK old \in State : old = saved[SessionOf[q]] /\ Carries(old)
  BY <1>1, QueriesAre DEF TextsOwn
<1>3. PICK s : s = Fresh(old)
  OBVIOUS
<1>4. s.cypher_query = old.cypher_query /\ s.failed_cypher = None
  BY <1>3 DEF Fresh, State
<1>5. Carries(s)
  BY <1>2, <1>4 DEF Carries, Has
<1>6. /\ \A p \in Questions : node'[p] = IF p = q THEN "intent_entity_extractor" ELSE node[p]
      /\ \A p \in Questions : state'[p] = IF p = q THEN s ELSE state[p]
      /\ \A i \in Sessions : saved'[i] = IF i = SessionOf[q] THEN s ELSE saved[i]
      /\ cache' = cache /\ node[q] = "unasked"
  BY <1>2, <1>3 DEF Ask, IInv, TypeOK
<1>7. text[q] = None
  BY <1>6 DEF TextsOwn
<1> QED BY <1>5, <1>6, <1>7 DEF TextsOwn, AtText, Carries, Has

LEMMA AbortTexts ==
  ASSUME IInv, TextsOwn, NEW q \in Questions, Abort(q), UNCHANGED text
  PROVE  TextsOwn'
<1>1. /\ \A p \in Questions : node'[p] = IF p = q THEN "failed" ELSE node[p]
      /\ \A p \in Questions : state'[p] = IF p = q THEN NewSession ELSE state[p]
      /\ saved' = saved /\ cache' = cache
  BY DEF Abort, IInv, TypeOK
<1>2. Carries(NewSession)
  BY NewCarries DEF Carries
<1> QED BY <1>1, <1>2 DEF TextsOwn, AtText, Early, Carries, Has

LEMMA TextsKeep ==
  ASSUME IInv, TextsOwn, [CNext]_cvars
  PROVE  [Next]_vars /\ TextsOwn'
<1>1. ASSUME NEW q \in Questions, Write(q)
      PROVE  Next /\ TextsOwn'
  <2>1. Step(q)
    BY <1>1 DEF Write, Step
  <2> QED BY <1>1, <2>1, StepTexts DEF Next
<1>2. ASSUME NEW q \in Questions, Step(q), WriteNothing
      PROVE  TextsOwn'
  BY <1>2, StepTexts DEF WriteNothing
<1>3. CASE WriteNothing
  <2>1. UNCHANGED text /\ Next
    BY <1>3 DEF WriteNothing
  <2>2. CASE Rest
    BY <2>1, <2>2 DEF Rest, vars, TextsOwn, Carries, Has
  <2> QED BY <1>2, <1>3, <2>1, <2>2, AskTexts, AbortTexts DEF Next
<1>4. CASE UNCHANGED cvars
  BY <1>4 DEF cvars, vars, TextsOwn, Carries, Has
<1> QED BY <1>1, <1>3, <1>4 DEF CNext

\* A run of the questions together with their texts is a run of the questions,
\* and what is true of the texts is kept.
THEOREM TextsInvariance == CSpec => Spec /\ [](IInv /\ TextsOwn)
<1>1. CInit => Init /\ IInv /\ TextsOwn
  <2> SUFFICES ASSUME CInit
               PROVE  Init /\ IInv /\ TextsOwn
    OBVIOUS
  <2>1. Init /\ IInv
    BY InitHolds DEF CInit
  <2>2. TextsOwn
    BY NewCarries DEF CInit, Init, TextsOwn, Carries
  <2> QED BY <2>1, <2>2
<1>2. IInv /\ TextsOwn /\ [CNext]_cvars => [Next]_vars /\ IInv' /\ TextsOwn'
  BY TextsKeep, NextKeeps
<1> QED BY <1>1, <1>2, PTL DEF CSpec, Spec

\* Whatever the LLM writes, the query a run executes, its own or one of the cache,
\* was corrected with the names it was generated for, and asks for what the LLM
\* asked for: conditions pass the same rows, but for the case of names in
\* x.name IN $p, and lines are lost only where a query aggregates and matches
\* again (apply_corrections()).
THEOREM ExecutedIsCorrected == CSpec => []CorrectionsSound
<1>1. IInv /\ TextsOwn => CorrectionsSound
  <2> SUFFICES ASSUME IInv, TextsOwn, NEW q \in Questions, node[q] = "graph_executor"
               PROVE  LET query == state[q].cypher_query
                          t == text[query.by]
                      IN t # None /\ t.names = query.names /\ WellCorrected(t)
    BY DEF CorrectionsSound
  <2>1. state[q].cypher_query # None /\ state[q].cypher_query.by \in Questions
    BY QueriesAre DEF IInv, RunsOwn, Run, AtExecutor, Nodes
  <2>2. Has(state[q].cypher_query)
    BY DEF TextsOwn, Carries
  <2> QED BY <2>1, <2>2 DEF Has, TextsOwn
<1> QED BY <1>1, TextsInvariance, PTL

=============================================================================
