------------------------------ MODULE ApiWorker ------------------------------
(***************************************************************************)
(* A worker of the API (main.py): what it opens when it starts, what its    *)
(* requests and background tasks use, and what it closes when it stops.     *)
(*                                                                         *)
(* Requests call the LLM through one gateway (infrastructure/llm), whose    *)
(* client is made at the first call and shared, and the database through    *)
(* one Neo4jClient; an ingestion opens a client of its own.  A question may *)
(* leave a learning task behind that outlives its request.  The server      *)
(* (uvicorn) stops a worker only when no request is left; nobody waits for  *)
(* the learning tasks, so they still run while the worker closes what they  *)
(* use.                                                                    *)
(***************************************************************************)
EXTENDS Integers, Sequences, SequencesExt, FiniteSets

CONSTANTS
  Requests,    \* what arrives in a behaviour, each of them once
  Kinds,       \* bound: which of "question" and "ingest" they are
  Calls,       \* bound: the calls they make, of AllCalls
  Outcomes,    \* bound: what the calls meet
  None,
  MaxMade,     \* bound: LLM clients made
  MaxCalls,    \* bound: calls of one task
  MaxFailed    \* bound: steps that open or close something and fail

ASSUME WorkerAssumption ==
  /\ Kinds \subseteq {"question", "ingest"}
  /\ None \notin Requests
  /\ {MaxMade, MaxCalls, MaxFailed} \subseteq Nat

VARIABLES
  stage,    \* where the lifespan of the worker is
  driver,   \* Neo4jClient._driver is set
  client,   \* AzureOpenAIGateway._client: its number, 0 for None
  makers,   \* the task that made each LLM client: its request and role
  schema,   \* what the pipeline was given as graph_schema
  open,     \* opened at another system and not yet closed
  task,     \* the request or background task of each question
  failed    \* the steps of opening and closing that failed

vars == <<stage, driver, client, makers, schema, open, task, failed>>
worker == <<stage, schema, driver>>
lifespanLeaves == <<client, makers, task>>

Stages == {"connect", "verify", "schema", "checkpointer", "gds", "serving",
           "draining", "close_gds", "close_llm", "forget_llm", "close_neo4j",
           "forget_neo4j", "stopped", "failed"}

Handle(of, n) == [of |-> of, n |-> n]
LlmClient(n) == Handle("llm", n)
Driver == Handle("neo4j", None)
JobDriver(q) == Handle("job", q)

Opens(h) == open' = open \cup {h}
Closes(h) == open' = open \ {h}

Fails(step, of) ==
  /\ Cardinality(failed) < MaxFailed
  /\ failed' = failed \cup {Handle(step, of)}

-----------------------------------------------------------------------------
(* What a call may meet, and what its caller gets for it                     *)

\* An HTTP error of the LLM: a refused prompt is told apart, other statuses
\* are not.
ClassifyApiStatusError ==
  [filter |-> "LLMContentFilterError", status |-> "LLMResponseError"]

GenerateMutant ==
  [answer |-> "ok", no_choices |-> "LLMResponseError",
   rate |-> "LLMRateLimitError", connection |-> "LLMConnectionError",
   filter |-> "LLMResponseError", \* as any other status
   status |-> ClassifyApiStatusError["status"], other |-> "LLMResponseError"]

Generate ==
  [answer |-> "ok", no_choices |-> "LLMResponseError",
   rate |-> "LLMRateLimitError", connection |-> "LLMConnectionError",
   filter |-> ClassifyApiStatusError["filter"],
   status |-> ClassifyApiStatusError["status"], other |-> "LLMResponseError"]

GenerateJson ==
  [o \in DOMAIN Generate \cup {"not_json"} |->
     IF o = "not_json" THEN "LLMResponseError" ELSE Generate[o]]

\* A chunk without choices is skipped.  What was streamed before an error
\* stays with the client.
GenerateStream == [o \in DOMAIN Generate \ {"no_choices"} |-> Generate[o]]

\* Embeddings have no case for the content filter.
GetEmbedding ==
  [o \in DOMAIN Generate \ {"no_choices"} |->
     IF o = "filter" THEN "LLMResponseError" ELSE Generate[o]]

\* Only the server's errors are translated: errors of the driver itself (a
\* lost connection) pass as they are.
ExecuteQuery ==
  [answer |-> "ok", refused |-> "DatabaseError", lost |-> "driver's own",
   unconnected |-> "DatabaseConnectionError"]

ExecuteWrite == ExecuteQuery

Wrapped(statement, error) ==
  [o \in DOMAIN statement |-> IF o = "answer" THEN "ok" ELSE error]

VectorSearch == Wrapped(ExecuteQuery, "DatabaseError")
UpsertEmbedding == Wrapped(ExecuteWrite, "DatabaseError")
BatchUpsertEmbeddings == Wrapped(ExecuteWrite, "DatabaseError")
SearchNodesByVector == Wrapped(VectorSearch, "QueryExecutionError")
FindSimilarNodes == Wrapped(VectorSearch, "QueryExecutionError")
HealthCheck ==
  [o \in DOMAIN ExecuteQuery |-> IF o = "answer" THEN "ok" ELSE "degraded"]

-----------------------------------------------------------------------------
(* The calls: which tier they ask first and whether they fall back           *)

Llm(first, tellsOf, fallsBack) ==
  [to |-> "llm", tier |-> first, gives |-> tellsOf, fallsBack |-> fallsBack]

Statement(tellsOf) == [to |-> "neo4j", gives |-> tellsOf]

ClassifyIntent == Llm("light", GenerateJson, FALSE)
DecomposeQuery == Llm("light", GenerateJson, FALSE)
GenerateCypher == Llm("heavy", GenerateJson, TRUE)
GenerateResponse == Llm("heavy", Generate, TRUE)
GenerateResponseStream == Llm("heavy", GenerateStream, FALSE)
GenerateClarification == Llm("light", Generate, FALSE)
AnalyzeWithLlm == Llm("light", GenerateJson, FALSE)
EmbedQuestion == Llm("embedding", GetEmbedding, FALSE)

AllCalls ==
  [classify |-> ClassifyIntent, decompose |-> DecomposeQuery,
   cypher |-> GenerateCypher, respond |-> GenerateResponse,
   stream |-> GenerateResponseStream, clarify |-> GenerateClarification,
   analyze |-> AnalyzeWithLlm, embed |-> EmbedQuestion,
   query |-> Statement(ExecuteQuery), write |-> Statement(ExecuteWrite),
   search |-> Statement(VectorSearch), upsert |-> Statement(UpsertEmbedding),
   batch_upsert |-> Statement(BatchUpsertEmbeddings),
   nodes |-> Statement(SearchNodesByVector),
   similar |-> Statement(FindSimilarNodes), health |-> Statement(HealthCheck)]

ASSUME CallsAssumption ==
  /\ Calls \subseteq DOMAIN AllCalls
  /\ \A c \in DOMAIN AllCalls :
       c # None /\ \A o \in DOMAIN AllCalls[c].gives : AllCalls[c].gives[o] # None
  /\ Outcomes \subseteq {"answer", "no_choices", "rate", "connection", "filter",
                         "status", "other", "not_json", "lost", "refused"}

FallbackErrorsMutant == \* a refused prompt is tried again too
  {"LLMRateLimitError", "LLMConnectionError", "LLMResponseError",
   "LLMContentFilterError"}

FallbackErrors ==
  {"LLMRateLimitError", "LLMConnectionError", "LLMResponseError"}

\* The tasks that may make a call: classify and so on are a question's,
\* analyze is the learner's.
MayCall(q, c) ==
  CASE task[q].role = "learner" -> c \in {"analyze", "query", "write"}
    [] task[q].role = "question" -> c # "analyze"
    [] OTHER -> FALSE

-----------------------------------------------------------------------------
(* A call                                                                    *)

NoCall == [of |-> None]
Idle(role, calls) == [role |-> role, calls |-> calls, call |-> NoCall]

Calling(q) == task[q].call.of # None /\ task[q].call.told = None
Resting(q) == ~Calling(q)

\* tried holds what the call met so far; with is the client it was sent by.
Begin(q, c) ==
  /\ Resting(q) /\ MayCall(q, c) /\ task[q].calls < MaxCalls
  /\ task' = [task EXCEPT
       ![q].calls = @ + 1,
       ![q].call = [of |-> c, tried |-> <<>>, with |-> None, told |-> None,
                    tier |-> IF AllCalls[c].to = "llm" THEN AllCalls[c].tier
                                                       ELSE "neo4j"]]
  /\ UNCHANGED <<worker, client, makers, open, failed>>

SettledMutant(call, met) == \* starts over when both tiers failed
  LET error == AllCalls[call.of].gives[met] IN
  CASE AllCalls[call.of].to = "llm" /\ AllCalls[call.of].fallsBack
       /\ error \in FallbackErrors ->
         [call EXCEPT !.with = None,
                      !.tried = IF @ = <<>> THEN <<met>> ELSE <<>>]
    [] OTHER -> [call EXCEPT !.tried = Append(@, met), !.told = error]

\* With a fallback the second failure is told as "all model tiers failed".
Settled(call, met) ==
  LET kind == AllCalls[call.of]
      error == kind.gives[met]
      retried == call.tried # <<>>
  IN CASE kind.to = "llm" /\ kind.fallsBack /\ error \in FallbackErrors
          /\ ~retried ->
            [call EXCEPT !.tried = Append(@, met), !.tier = "light",
                         !.with = None]
       [] kind.to = "llm" /\ retried /\ error \in FallbackErrors ->
            [call EXCEPT !.tried = Append(@, met), !.told = "LLMResponseError"]
       [] OTHER -> [call EXCEPT !.tried = Append(@, met), !.told = error]

Settle(q, met) == task' = [task EXCEPT ![q].call = Settled(@, met)]

SentBy(q, h) == task' = [task EXCEPT ![q].call.with = h]

GetClientMutant(q) == \* the client is not kept
  /\ client' = client
  /\ makers' = Append(makers, [by |-> q, role |-> task[q].role,
                               at |-> stage])
  /\ Opens(LlmClient(Len(makers) + 1))
  /\ SentBy(q, LlmClient(Len(makers) + 1))
  /\ Len(makers) < MaxMade

\* _get_client: there is no await between the test and the assignment.
GetClient(q) ==
  \/ /\ client # 0
     /\ SentBy(q, LlmClient(client))
     /\ UNCHANGED <<client, makers, open>>
  \/ /\ client = 0 /\ Len(makers) < MaxMade
     /\ client' = Len(makers) + 1
     /\ makers' = Append(makers, [by |-> q, role |-> task[q].role,
                                  at |-> stage])
     /\ Opens(LlmClient(Len(makers) + 1))
     /\ SentBy(q, LlmClient(Len(makers) + 1))

\* A call is sent; a client that cannot be made is a connection error.
Send(q) ==
  /\ Calling(q) /\ task[q].call.with = None
  /\ IF AllCalls[task[q].call.of].to = "llm"
     THEN \/ GetClient(q) /\ UNCHANGED failed
          \/ /\ client = 0 /\ Fails("client", q) /\ Settle(q, "connection")
             /\ UNCHANGED <<client, makers, open>>
     ELSE /\ IF driver THEN SentBy(q, Driver) ELSE Settle(q, "unconnected")
          /\ UNCHANGED <<client, makers, open, failed>>
  /\ UNCHANGED worker

\* What a closed client or driver gives a call that was sent by it.
MetWhenClosed == {"connection", "lost"}

\* Any outcome of an open client or driver; an error of the connection when
\* it was closed in the meantime.
Answer(q) ==
  /\ Calling(q) /\ task[q].call.with # None
  /\ \E met \in Outcomes \cap DOMAIN AllCalls[task[q].call.of].gives :
       /\ task[q].call.with \in open \/ met \in MetWhenClosed
       /\ Settle(q, met)
  /\ UNCHANGED <<worker, client, makers, open, failed>>

\* The caller's timeout (BaseNode, the learner's wait_for) cancels the call.
TimeOut(q) ==
  /\ Calling(q)
  /\ task' = [task EXCEPT ![q].call = NoCall]
  /\ UNCHANGED <<worker, client, makers, open, failed>>

-----------------------------------------------------------------------------
(* Requests and what they leave behind                                       *)

Running(q) == task[q].role \in {"question", "connecting", "ingest", "closing"}

\* An ingestion connects its own client before anything is guarded by
\* finally.
Arrive(q, kind) ==
  /\ stage = "serving" /\ task[q].role = "awaited"
  /\ \/ kind = "question" /\ UNCHANGED open
     \/ kind = "ingest" /\ Opens(JobDriver(q))
  /\ task' = [task EXCEPT
       ![q] = Idle(IF kind = "ingest" THEN "connecting" ELSE kind, 0)]
  /\ UNCHANGED <<worker, client, makers, failed>>

\* A question ends; names it could not resolve are left to a learning task.
Respond(q) ==
  /\ task[q].role = "question" /\ Resting(q)
  /\ \E role \in {"ended", "learner"} : task' = [task EXCEPT ![q] = Idle(role, 0)]
  /\ UNCHANGED <<worker, client, makers, open, failed>>

Learned(q) ==
  /\ task[q].role = "learner" /\ Resting(q)
  /\ task' = [task EXCEPT ![q] = Idle("ended", 0)]
  /\ UNCHANGED <<worker, client, makers, open, failed>>

\* The driver of a job that could not connect is not closed.
ConnectJob(q) ==
  /\ task[q].role = "connecting"
  /\ \/ task' = [task EXCEPT ![q].role = "ingest"] /\ UNCHANGED failed
     \/ Fails("connect", q) /\ task' = [task EXCEPT ![q].role = "ended"]
  /\ UNCHANGED <<worker, client, makers, open>>

FinishJobMutant(q) == \* closed only if all went well
  /\ task[q].role = "ingest"
  /\ \E role \in {"closing", "ended"} : task' = [task EXCEPT ![q].role = role]
  /\ UNCHANGED <<worker, client, makers, open, failed>>

\* The job ends, however: the client is closed.
FinishJob(q) ==
  /\ task[q].role = "ingest"
  /\ task' = [task EXCEPT ![q].role = "closing"]
  /\ UNCHANGED <<worker, client, makers, open, failed>>

CloseJobMutant(q) == \* the job was lent the worker's driver
  /\ task[q].role = "closing"
  /\ Closes(Driver)
  /\ task' = [task EXCEPT ![q].role = "ended"]
  /\ UNCHANGED <<worker, client, makers, failed>>

CloseJob(q) ==
  /\ task[q].role = "closing"
  /\ \/ Closes(JobDriver(q)) /\ UNCHANGED failed
     \/ Fails("close", q) /\ UNCHANGED open
  /\ task' = [task EXCEPT ![q].role = "ended"]
  /\ UNCHANGED <<worker, client, makers>>

-----------------------------------------------------------------------------
(* lifespan                                                                  *)

Goes(from, to) == stage = from /\ stage' = to

\* Neo4jClient.connect: the driver is kept before it is verified.
Connect ==
  /\ Goes("connect", "verify")
  /\ driver' = TRUE /\ Opens(Driver)
  /\ UNCHANGED <<lifespanLeaves, schema, failed>>

Verify ==
  /\ \/ Goes("verify", "schema") /\ UNCHANGED failed
     \/ Goes("verify", "failed") /\ Fails("verify", None)
  /\ UNCHANGED <<lifespanLeaves, driver, schema, open>>

\* get_schema_info answers with what it read before a statement failed: it
\* never raises, and the pipeline keeps what it is given.
LoadSchema ==
  /\ Goes("schema", "checkpointer")
  /\ \/ schema' = "whole" /\ UNCHANGED failed
     \/ schema' = "partial" /\ Fails("schema", None)
  /\ UNCHANGED <<lifespanLeaves, driver, open>>

\* In memory, or a SQLite file whose connection nobody closes.
CreateCheckpointer ==
  /\ UNCHANGED open \/ Opens(Handle("sqlite", None))
  /\ \/ Goes("checkpointer", "gds") /\ UNCHANGED failed
     \/ Goes("checkpointer", "failed") /\ Fails("checkpointer", None)
  /\ UNCHANGED <<lifespanLeaves, driver, schema>>

ConnectGds ==
  /\ \/ /\ Goes("gds", "serving")
        /\ Opens(Handle("gds", None)) /\ UNCHANGED failed
     \/ Goes("gds", "failed") /\ Fails("gds", None) /\ UNCHANGED open
  /\ UNCHANGED <<lifespanLeaves, driver, schema>>

\* The server is told to stop: it takes no more requests.
Stop ==
  /\ Goes("serving", "draining")
  /\ UNCHANGED <<lifespanLeaves, driver, schema, open, failed>>

\* lifespan goes on when no request is left.
Drained ==
  /\ Goes("draining", "close_gds")
  /\ \A q \in Requests : ~Running(q)
  /\ UNCHANGED <<lifespanLeaves, driver, schema, open, failed>>

\* GDSService.close drops its client without closing it, and waits for its
\* threads.
CloseGds ==
  /\ Goes("close_gds", "close_llm")
  /\ UNCHANGED <<lifespanLeaves, driver, schema, open, failed>>

CloseLlmMutant == \* the client is forgotten without being closed
  /\ Goes("close_llm", "forget_llm")
  /\ UNCHANGED <<lifespanLeaves, driver, schema, open, failed>>

\* AzureOpenAIGateway.close: the field is cleared when the client is closed.
\* A failure ends the shutdown there.
CloseLlm ==
  /\ \/ client = 0 /\ Goes("close_llm", "close_neo4j") /\ UNCHANGED <<open, failed>>
     \/ /\ client # 0 /\ Goes("close_llm", "forget_llm")
        /\ Closes(LlmClient(client)) /\ UNCHANGED failed
     \/ /\ client # 0 /\ Goes("close_llm", "failed")
        /\ Fails("close_llm", None) /\ UNCHANGED open
  /\ UNCHANGED <<lifespanLeaves, driver, schema>>

ForgetLlm ==
  /\ Goes("forget_llm", "close_neo4j")
  /\ client' = 0
  /\ UNCHANGED <<makers, task, driver, schema, open, failed>>

CloseNeo4j ==
  /\ \/ /\ Goes("close_neo4j", "forget_neo4j")
        /\ Closes(Driver) /\ UNCHANGED failed
     \/ /\ Goes("close_neo4j", "failed")
        /\ Fails("close_neo4j", None) /\ UNCHANGED open
  /\ UNCHANGED <<lifespanLeaves, driver, schema>>

ForgetNeo4j ==
  /\ Goes("forget_neo4j", "stopped")
  /\ driver' = FALSE
  /\ UNCHANGED <<lifespanLeaves, schema, open, failed>>

\* The event loop ends: tasks that are left are cancelled.
CancelLearner(q) ==
  /\ stage \in {"stopped", "failed"} /\ task[q].role = "learner"
  /\ task' = [task EXCEPT ![q] = Idle("ended", 0)]
  /\ UNCHANGED <<worker, client, makers, open, failed>>

-----------------------------------------------------------------------------

Init ==
  /\ stage = "connect" /\ driver = FALSE /\ client = 0 /\ makers = <<>>
  /\ schema = None /\ open = {} /\ failed = {}
  /\ task = [q \in Requests |-> Idle("awaited", 0)]

Lifespan ==
  \/ Connect \/ Verify \/ LoadSchema \/ CreateCheckpointer \/ ConnectGds
  \/ Drained \/ CloseGds \/ CloseLlm \/ ForgetLlm \/ CloseNeo4j \/ ForgetNeo4j

\* What a task does when nothing but its own calls keeps it waiting.
Works(q) ==
  \/ Send(q) \/ Answer(q) \/ TimeOut(q) \/ Respond(q) \/ Learned(q)
  \/ ConnectJob(q) \/ FinishJob(q) \/ CloseJob(q) \/ CancelLearner(q)

Next ==
  \/ Lifespan
  \/ Stop
  \/ \E q \in Requests : \/ Works(q)
                          \/ \E kind \in Kinds : Arrive(q, kind)
                          \/ \E c \in Calls : Begin(q, c)

\* Every call ends: the LLM's client and the nodes have timeouts, a statement
\* is bounded by the node or by its transaction.  Nobody is bound to send a
\* request or to stop the worker.
Fairness ==
  /\ WF_vars(Lifespan)
  /\ \A q \in Requests : WF_vars(Works(q))

Spec == Init /\ [][Next]_vars
FairSpec == Spec /\ Fairness

-----------------------------------------------------------------------------
(* Properties                                                                *)

CallRecord ==
  [of: Calls, tier: {"light", "heavy", "embedding", "neo4j"},
   told: {None} \cup UNION {Range(AllCalls[c].gives) : c \in Calls},
   tried: Seq(Outcomes \cup {"connection", "unconnected"}),
   with: {None, Driver} \cup {LlmClient(n) : n \in 1 .. MaxMade}]

\* Stage, fields, handles and tasks are those the worker can have.
TypeOK ==
  /\ stage \in Stages /\ driver \in BOOLEAN
  /\ client \in 0 .. Len(makers) /\ Len(makers) <= MaxMade
  /\ schema \in {None, "whole", "partial"}
  /\ \A q \in Requests :
       \/ task[q].call = NoCall
       \/ task[q].call \in CallRecord /\ Len(task[q].call.tried) <= 2

Serving == {"serving", "draining", "close_gds", "close_llm"}

\* All tasks of a worker share one client of the LLM, also when the first calls
\* come at the same time: no client is open beside the one the gateway keeps,
\* until the worker closes it.
OneClient ==
  stage \in Serving =>
    \A n \in DOMAIN makers : LlmClient(n) \in open => n = client

\* The worker closes nothing a request still uses, and no request meets a
\* driver that is not there: only learning tasks can.
RequestsServed ==
  \A q \in Requests : Running(q) =>
    /\ driver /\ Driver \in open
    /\ Calling(q) => task[q].call.with \in open \cup {None}
    /\ task[q].call.of # None => task[q].call.told # "DatabaseConnectionError"

\* A worker that stopped without a failure has closed all it opened, except
\* what nothing in the code closes: the GDS client, the checkpointer's file,
\* the driver of a job that could not connect or close, and the client a
\* learning task makes after the gateway was closed.
StopsClean ==
  stage = "stopped" => \A h \in open :
    \/ h.of \in {"gds", "sqlite"}
    \/ h.of = "job" /\ {Handle("connect", h.n), Handle("close", h.n)} \cap failed # {}
    \/ h.of = "llm" /\ makers[h.n].role = "learner" /\ makers[h.n].at \notin Serving

\* A prompt the content filter refused is not sent to another model and its
\* caller is told so; a call that falls back is given up only when both models
\* failed, and is told a success only if the last one answered.
FallbackSound ==
  \A q \in Requests :
    LET call == task[q].call
        last == Len(call.tried)
        llm == AllCalls[call.of]
    IN (call.of # None /\ call.told # None /\ llm.to = "llm") =>
         /\ \A i \in 1 .. last - 1 : call.tried[i] \notin {"answer", "filter"}
         /\ call.told = "ok" <=> call.tried[last] = "answer"
         /\ call.of # "embed" =>
              (call.told = "LLMContentFilterError" <=> call.tried[last] = "filter")
         /\ llm.fallsBack /\ call.told \notin {"ok", "LLMContentFilterError"} =>
              last = 2

WorkerSound == TypeOK /\ OneClient /\ RequestsServed /\ StopsClean /\ FallbackSound

\* A worker that is told to stop does so: the requests it took end, and no
\* learning task keeps it.
StopEnds == stage = "draining" ~> stage \in {"stopped", "failed"}

=============================================================================
