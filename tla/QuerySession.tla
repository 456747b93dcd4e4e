---------------------------- MODULE QuerySession ----------------------------
(***************************************************************************)
(* The question pipeline (graph/pipeline.py and graph/nodes): a LangGraph   *)
(* state machine whose nodes read and update the state of a session.        *)
(*                                                                         *)
(* A question starts from the checkpoint of its session, with some fields   *)
(* reset; each node runs under a timeout, its update is merged, the merged  *)
(* state is saved as the session's checkpoint and a router picks the next   *)
(* node.  Fields no node of this question wrote keep what an earlier        *)
(* question left in them, so the state records whose data a field holds.    *)
(*                                                                         *)
(* Questions run concurrently, also within a session: a run works on its    *)
(* own copy and the checkpoint is the one saved last.  The cache of Cypher  *)
(* queries is shared by all sessions.                                       *)
(***************************************************************************)
EXTENDS Integers, FiniteSets

CONSTANTS
  Questions,      \* the questions of a behaviour, each asked once
  Sessions,
  SessionOf,      \* the session (thread_id) of each question
  None,
  MaxRetries,     \* cypher_max_retries
  SelfCorrection, \* cypher_self_correction_enabled
  CacheOn,        \* vector_search_enabled
  HandlerOn,      \* the pipeline was given an ontology service
  Modes,          \* bound: the endpoints clients use
  MaxOpen         \* bound: questions under way at the same time

ASSUME SessionAssumption ==
  /\ SessionOf \in [Questions -> Sessions]
  /\ None \notin Questions
  /\ MaxRetries \in Nat
  /\ {SelfCorrection, CacheOn, HandlerOn} \subseteq BOOLEAN
  /\ Modes \subseteq {"run", "stream"}

VARIABLES
  node,     \* the node each question's run executes next
  state,    \* the GraphRAGState of each run
  saved,    \* the latest checkpoint of each session
  cache,    \* CachedQuery: questions and the queries kept for them
  mode,     \* "run" (POST /query) or "stream" (POST /query/stream)
  told      \* the PipelineResult each client got

vars == <<node, state, saved, cache, mode, told>>

-----------------------------------------------------------------------------
(* The state                                                                *)

Nodes == {"intent_entity_extractor", "query_decomposer", "cache_checker",
          "concept_expander", "entity_resolver", "clarification_handler",
          "cypher_generator", "graph_executor", "response_generator",
          "ontology_update_handler"}

Responders == {"response_generator", "clarification_handler",
               "ontology_update_handler"}

Ended == {"answered", "failed"}

\* "search" stands for the intents that are none of the others.
Intents == {"search", "aggregate", "ontology_update", "unknown"}

\* A Cypher query, the run that generated it, and the question whose names it
\* was given.
Query == [by: Questions, names: Questions \cup {None}]

\* A response, and the run whose rows or whose error it reports.
Response == [to: Questions, of: Questions,
             kind: {"rows", "empty", "error", "clarify", "update", "blank"}]

\* What made a run fail.  An exception and a timeout of a node differ.
Error == [of: Questions, at: Nodes \cup {"syntax", "timeout"}]

State == [intent: Intents \cup {None},
          entities: Questions \cup {None}, \* whose names
          expanded: Questions \cup {None}, \* whose names, expanded
          has_expansion: BOOLEAN, \* concept_expander ran in this session
          resolved: BOOLEAN,
          unresolved: Questions \cup {None},
          cypher_query: Query \cup {None},
          graph_results: Questions \cup {None},
          cypher_retry_count: 0 .. MaxRetries + 1,
          failed_cypher: Query \cup {None}, \* and with it cypher_error
          response: Response \cup {None},
          error: Error \cup {None},
          question_embedding: Questions \cup {None},
          cache_hit: BOOLEAN,
          skip_generation: BOOLEAN]

Result == [response: Response, intent: Intents \cup {None},
           error: Error \cup {None}]

\* Python's None is none of the values a field may have.
ASSUME NoneAssumption ==
  None \notin Intents \cup Query \cup Response \cup Error \cup Result

NewSession ==
  [intent |-> None, entities |-> None, expanded |-> None,
   has_expansion |-> FALSE, resolved |-> FALSE, unresolved |-> None,
   cypher_query |-> None, graph_results |-> None, cypher_retry_count |-> 0,
   failed_cypher |-> None, response |-> None, error |-> None,
   question_embedding |-> None, cache_hit |-> FALSE, skip_generation |-> FALSE]

\* The state a question starts from: run() resets these fields of the
\* checkpoint, LangGraph keeps the others.
FreshKeepsError(s) == \* error is not reset
  [s EXCEPT !.cypher_retry_count = 0, !.failed_cypher = None]

FreshKeepsCount(s) == \* cypher_retry_count is not reset
  [s EXCEPT !.error = None, !.failed_cypher = None]

FreshKeepsFeedback(s) == \* cypher_error and failed_cypher are not reset
  [s EXCEPT !.error = None, !.cypher_retry_count = 0]

Fresh(s) == [s EXCEPT !.error = None, !.cypher_retry_count = 0,
                      !.failed_cypher = None]

-----------------------------------------------------------------------------
(* Routing                                                                  *)

RouteAfterIntentMutant(s) == \* a request to change the ontology is not handled
  CASE s.intent \in {"unknown", "ontology_update"} -> "response_generator"
    [] OTHER -> "query_decomposer"

RouteAfterIntent(s) ==
  CASE s.intent = "unknown" -> "response_generator"
    [] s.intent = "ontology_update" /\ HandlerOn -> "ontology_update_handler"
    [] OTHER -> "query_decomposer"

RouteAfterCacheCheck(s) ==
  IF s.skip_generation THEN "cypher_generator" ELSE "concept_expander"

RouteAfterResolver(s) ==
  CASE s.error # None -> "response_generator"
    [] s.error = None /\ (\/ s.unresolved = None
                          \/ s.resolved
                          \/ s.intent = "aggregate") -> "cypher_generator"
    [] OTHER -> "clarification_handler"

RouteAfterCypherMutant(s) == \* the error is not looked at
  IF s.cypher_query = None THEN "response_generator" ELSE "graph_executor"

RouteAfterCypher(s) ==
  IF s.error # None \/ s.cypher_query = None THEN "response_generator"
                                             ELSE "graph_executor"

RouteAfterExecutorMutant(s) == \* one retry less
  IF SelfCorrection /\ s.failed_cypher # None /\
     s.cypher_retry_count < MaxRetries
  THEN "cypher_generator" ELSE "response_generator"

RouteAfterExecutor(s) ==
  IF SelfCorrection /\ s.failed_cypher # None /\
     s.cypher_retry_count <= MaxRetries
  THEN "cypher_generator" ELSE "response_generator"

\* The edges of the compiled graph.
Route(n, s) ==
  CASE n = "intent_entity_extractor" -> RouteAfterIntent(s)
    [] n = "query_decomposer" -> IF CacheOn THEN "cache_checker"
                                            ELSE "concept_expander"
    [] n = "cache_checker" -> RouteAfterCacheCheck(s)
    [] n = "concept_expander" -> "entity_resolver"
    [] n = "entity_resolver" -> RouteAfterResolver(s)
    [] n = "cypher_generator" -> RouteAfterCypher(s)
    [] n = "graph_executor" -> RouteAfterExecutor(s)
    [] n \in Responders -> "answered"

-----------------------------------------------------------------------------
(* A node's step                                                            *)

Blank(q) == [to |-> q, of |-> q, kind |-> "blank"]

TellMutant(q, s) == \* the state's response, as run() does
  IF s.response = None THEN Blank(q) ELSE s.response

\* What the client gets when the run ends in the state s.  run() returns the
\* state's response whoever wrote it, a stream only what its own nodes wrote.
Tell(q, s) ==
  CASE mode[q] = "stream" /\ (s.response = None \/ s.response.to # q) ->
         [to |-> q, of |-> s.error.of, kind |-> "error"]
    [] mode[q] = "run" /\ s.response = None -> Blank(q)
    [] OTHER -> s.response

\* The merged state is saved and the next node is chosen.  The run's copy is
\* dropped when the run ends.
Finish(q, s) ==
  LET next == Route(node[q], s) IN
  /\ node' = [node EXCEPT ![q] = next]
  /\ saved' = [saved EXCEPT ![SessionOf[q]] = s]
  /\ IF next = "answered"
     THEN /\ state' = [state EXCEPT ![q] = NewSession]
          /\ told' = [told EXCEPT ![q] =
               [response |-> Tell(q, s), intent |-> s.intent,
                error |-> s.error]]
     ELSE /\ state' = [state EXCEPT ![q] = s]
          /\ UNCHANGED told
  /\ UNCHANGED mode

Failed(q, n) == [of |-> q, at |-> n]

\* A question arrives: the run's copy is the session's latest checkpoint.
Ask(q, m) ==
  /\ node[q] = "unasked"
  /\ Cardinality({p \in Questions : node[p] \in Nodes}) < MaxOpen
  /\ node' = [node EXCEPT ![q] = "intent_entity_extractor"]
  /\ state' = [state EXCEPT ![q] = Fresh(saved[SessionOf[q]])]
  /\ saved' = [saved EXCEPT ![SessionOf[q]] = Fresh(@)]
  /\ mode' = [mode EXCEPT ![q] = m]
  /\ UNCHANGED <<cache, told>>

Extract(q) ==
  LET s == state[q] IN
  /\ node[q] = "intent_entity_extractor"
  /\ \/ \E i \in Intents, found \in BOOLEAN :
          Finish(q, [s EXCEPT
            !.intent = i,
            !.entities = IF found THEN q ELSE None])
     \/ Finish(q, [s EXCEPT !.intent = "unknown", !.entities = None,
                            !.error = Failed(q, node[q])])
  /\ UNCHANGED cache

\* The plan itself is not modelled.
Decompose(q) ==
  /\ node[q] = "query_decomposer"
  /\ \/ Finish(q, state[q])
     \/ /\ state[q].intent # "unknown"
        /\ Finish(q, [state[q] EXCEPT !.error = Failed(q, node[q])])
  /\ UNCHANGED cache

DeleteCache(e) == cache' = cache \ {e}

\* The nearest entry, whichever that is, or None: nothing is similar, the
\* database fails, or the nearest was kept for too long and is deleted.
FindSimilarQuery(found) ==
  \/ found \in cache /\ UNCHANGED cache
  \/ found = None /\ UNCHANGED cache
  \/ found = None /\ \E e \in cache : DeleteCache(e)

CheckCache(q) ==
  LET checked == [state[q] EXCEPT !.question_embedding = q,
                                  !.cache_hit = FALSE,
                                  !.skip_generation = FALSE]
  IN /\ node[q] = "cache_checker"
     /\ \/ \E e \in cache :
             /\ FindSimilarQuery(e)
             /\ Finish(q, [checked EXCEPT !.cache_hit = TRUE,
                                          !.skip_generation = TRUE,
                                          !.cypher_query = e.query])
        \/ FindSimilarQuery(None) /\ Finish(q, checked)
        \/ /\ Finish(q, [checked EXCEPT !.question_embedding = None,
                                        !.error = Failed(q, node[q])])
           /\ UNCHANGED cache

Expand(q) ==
  /\ node[q] = "concept_expander"
  /\ Finish(q, [state[q] EXCEPT !.expanded = state[q].entities,
                                 !.has_expansion = TRUE])
  /\ UNCHANGED cache

\* Every name is looked up.  What a lookup finds corrects the name; whether a
\* name is corrected is not modelled.
Resolve(q) ==
  LET s == state[q]
      names == IF s.has_expansion THEN s.expanded ELSE s.entities
  IN /\ node[q] = "entity_resolver"
     /\ \/ /\ names = None
           /\ Finish(q, [s EXCEPT !.resolved = FALSE, !.unresolved = None])
        \/ /\ names # None
           /\ Finish(q, [s EXCEPT !.resolved = FALSE, !.unresolved = names])
        \/ /\ names # None
           /\ \E missing \in {None, names} :
                Finish(q, [s EXCEPT !.resolved = TRUE,
                                    !.unresolved = missing])
  /\ UNCHANGED cache

\* The names a query is generated for: the expanded ones come first.
GeneratorNames(s) == IF s.expanded # None THEN s.expanded ELSE s.entities

\* A cached query stays; a new one clears the error it was to correct.
Generate(q) ==
  LET s == state[q] IN
  /\ node[q] = "cypher_generator"
  /\ \/ s.skip_generation /\ Finish(q, s)
     \/ /\ ~s.skip_generation
        /\ Finish(q, [s EXCEPT
             !.cypher_query = [by |-> q, names |-> GeneratorNames(s)],
             !.error = None, !.failed_cypher = None])
     \/ /\ ~s.skip_generation
        /\ Finish(q, [s EXCEPT !.cypher_query = None,
                               !.error = Failed(q, node[q])])
  /\ UNCHANGED cache

MayCacheMutant(s) == \* the query of a hit is kept for the new question too
  CacheOn /\ s.question_embedding # None

\* Only a query that was not itself found in the cache is kept.
MayCache(s) == CacheOn /\ s.question_embedding # None /\ ~s.cache_hit

\* A failed one leaves the cache as it is.
CacheQuery(question, query) ==
  \/ cache' = cache \cup {[asked |-> question, query |-> query]}
  \/ UNCHANGED cache

Keep(s) ==
  \/ MayCache(s) /\ CacheQuery(s.question_embedding, s.cypher_query)
  \/ ~MayCache(s) /\ UNCHANGED cache

CountRetryMutant(s) == s.cypher_retry_count \* not counted

CountRetry(s) == s.cypher_retry_count + 1

\* Rows that pass the access policy, none, a syntax error, or another failure
\* (a write query is refused, the database fails).
Execute(q) ==
  LET s == state[q] IN
  /\ node[q] = "graph_executor"
  /\ \/ Keep(s) /\ Finish(q, [s EXCEPT !.graph_results = q,
                                       !.failed_cypher = None])
     \/ /\ Finish(q, [s EXCEPT !.graph_results = None,
                               !.failed_cypher = None])
        /\ UNCHANGED cache
     \/ /\ Finish(q, [s EXCEPT !.graph_results = None,
                               !.error = Failed(q, "syntax"),
                               !.cypher_retry_count = CountRetry(s),
                               !.failed_cypher = s.cypher_query,
                               !.skip_generation = FALSE])
        /\ UNCHANGED cache
     \/ /\ Finish(q, [s EXCEPT !.graph_results = None,
                               !.error = Failed(q, node[q])])
        /\ UNCHANGED cache

\* The error is told, or that nothing was found, or the rows.  When the LLM
\* fails on the rows, a summary of them is told instead.
Respond(q) ==
  LET s == state[q]
      reply == CASE s.error # None ->
                      [to |-> q, of |-> s.error.of, kind |-> "error"]
                 [] s.error = None /\ s.graph_results = None ->
                      [to |-> q, of |-> q, kind |-> "empty"]
                 [] OTHER ->
                      [to |-> q, of |-> s.graph_results, kind |-> "rows"]
  IN /\ node[q] = "response_generator"
     /\ Finish(q, [s EXCEPT !.response = reply])
     /\ UNCHANGED cache

Clarify(q) ==
  /\ node[q] = "clarification_handler"
  /\ Finish(q, [state[q] EXCEPT
       !.response = [to |-> q, of |-> q, kind |-> "clarify"]])
  /\ UNCHANGED cache

\* OntologyProposals models what the handler does to the proposals.
UpdateOntology(q) ==
  /\ node[q] = "ontology_update_handler"
  /\ \E failure \in {None, Failed(q, node[q])} :
       Finish(q, [state[q] EXCEPT
         !.response = [to |-> q, of |-> q, kind |-> "update"],
         !.error = IF failure = None THEN @ ELSE failure])
  /\ UNCHANGED cache

\* BaseNode.__call__: the node's update is lost, except what the executor has
\* already kept in the cache.
TimeOut(q) ==
  /\ node[q] \in Nodes
  /\ IF node[q] = "graph_executor" THEN Keep(state[q]) ELSE UNCHANGED cache
  /\ Finish(q, [state[q] EXCEPT !.error = Failed(q, "timeout")])

\* The run ends between two nodes: concept_expander raised, the checkpoint
\* could not be saved, or the client went away.
Abort(q) ==
  /\ node[q] \in Nodes
  /\ node' = [node EXCEPT ![q] = "failed"]
  /\ state' = [state EXCEPT ![q] = NewSession]
  /\ UNCHANGED <<saved, cache, mode, told>>

Done == \A q \in Questions : node[q] \in Ended
Rest == Done /\ UNCHANGED vars

-----------------------------------------------------------------------------

Init ==
  /\ node = [q \in Questions |-> "unasked"]
  /\ state = [q \in Questions |-> NewSession]
  /\ saved = [i \in Sessions |-> NewSession]
  /\ cache = {}
  /\ mode = [q \in Questions |-> "run"]
  /\ told = [q \in Questions |-> None]

Step(q) ==
  \/ Extract(q)
  \/ Decompose(q)
  \/ CheckCache(q)
  \/ Expand(q)
  \/ Resolve(q)
  \/ Generate(q)
  \/ Execute(q)
  \/ Respond(q)
  \/ Clarify(q)
  \/ UpdateOntology(q)
  \/ TimeOut(q)

Next ==
  \/ \E q \in Questions : \/ \E m \in Modes : Ask(q, m)
                          \/ Step(q)
                          \/ Abort(q)
  \/ Rest

\* A node that was started ends: asyncio.wait_for bounds it.  Nobody is bound
\* to ask a question, and no run is bound to be aborted.
Fairness == \A q \in Questions : WF_vars(Step(q))

Spec == Init /\ [][Next]_vars
FairSpec == Spec /\ Fairness

-----------------------------------------------------------------------------
(* Properties                                                               *)

\* Nodes, states, checkpoints, cache and answers stay within what the pipeline
\* can put in them.
TypeOK ==
  /\ node \in [Questions -> Nodes \cup Ended \cup {"unasked"}]
  /\ state \in [Questions -> State]
  /\ saved \in [Sessions -> State]
  /\ cache \subseteq [asked: Questions, query: Query]
  /\ mode \in [Questions -> {"run", "stream"}]
  /\ told \in [Questions -> Result \cup {None}]

Answered(q) == node[q] = "answered"
Own(q) == told[q].response.to = q

\* No question is answered with the error of an earlier one of its session
\* (the reset of error in run(), against the checkpoint that keeps it).
OwnErrors ==
  \A q \in Questions :
    Answered(q) /\ told[q].response.kind = "error" =>
      told[q].response.of = told[q].response.to

\* This run looked for its question in the cache and found a query, however the
\* fields that tell of a hit were left by earlier questions of the session.
FoundNow(q) == state[q].cache_hit /\ state[q].question_embedding = q

\* The query a run executes is its own, or one it just found in the cache: no
\* failed or late generation lets the query of an earlier question run.
OwnQuery ==
  \A q \in Questions : node[q] = "graph_executor" =>
    state[q].cypher_query.by = q \/ (state[q].skip_generation /\ FoundNow(q))

\* Rows told to a client were read by its own run, unless the question was
\* not understood: then the rows of the question before are told again.
OwnRows ==
  \A q \in Questions :
    Answered(q) /\ Own(q) /\ told[q].response.kind = "rows"
      /\ told[q].intent # "unknown" => told[q].response.of = q

\* The LLM is asked to correct a query only if this run executed it.
OwnFeedback ==
  \A q \in Questions :
    node[q] = "cypher_generator" /\ state[q].failed_cypher # None =>
      state[q].failed_cypher.by = q \/ FoundNow(q)

\* A query is kept for the question it was generated for, and only for that.
CacheOwn == \A e \in cache : e.query.by = e.asked

\* No question is answered with a syntax error before all its retries failed:
\* earlier questions of the session do not use them up.
FullBudget ==
  \A q \in Questions :
    node[q] = "response_generator" /\ state[q].error = Failed(q, "syntax")
      /\ SelfCorrection => state[q].cypher_retry_count = MaxRetries + 1

\* A stream tells what its own run responded.
StreamTellsOwn ==
  \A q \in Questions : Answered(q) /\ mode[q] = "stream" => Own(q)

\* Every question that was asked is answered, or its run fails: the cycle of
\* correction ends.
Answering ==
  \A q \in Questions : node[q] \in Nodes ~> node[q] \in Ended

\* Whatever an earlier or a concurrent question left in the checkpoint of the
\* session, a run starts with a fresh turn (the resets of run() and
\* run_with_streaming()): it is not told an old error, not corrected with an old
\* query, not short of retries, and its stream is its own.
FreshTurn == TypeOK /\ OwnErrors /\ OwnFeedback /\ FullBudget /\ StreamTellsOwn

\* Queries stay with the question they were generated for, in the state of a
\* run and in the cache that all sessions share.
OwnQueries == OwnQuery /\ CacheOwn

=============================================================================
