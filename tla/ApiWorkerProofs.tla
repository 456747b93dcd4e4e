--------------------------- MODULE ApiWorkerProofs ---------------------------
(***************************************************************************)
(* Proof of WorkerSound for any number of requests, calls and failures.     *)
(*                                                                         *)
(* WorkerSound is not inductive.  That no client of the LLM is open beside   *)
(* the gateway's needs that the gateway makes at most one while it serves   *)
(* (ClientKept); that a stopped worker has closed what it opened, that what *)
(* is open after the close was made by learning tasks (LateClients) and     *)
(* that a job leaves a client only when connecting or closing failed        *)
(* (JobsKept); and that a fallback is told truly, what a call may have met  *)
(* while it is still open (Pending).  The tables of what a call tells are   *)
(* looked at case by case first.                                            *)
(***************************************************************************)
EXTENDS ApiWorker, SequenceTheorems, TLAPS

Errors == {"LLMContentFilterError", "LLMResponseError", "LLMRateLimitError",
           "LLMConnectionError", "DatabaseError", "DatabaseConnectionError",
           "driver's own", "QueryExecutionError", "degraded"}

Met == Outcomes \cup {"connection", "unconnected"}

\* A table of the LLM: what it tells of which outcome.
IsLlmTable(gives) ==
  /\ \A o \in DOMAIN gives :
       /\ gives[o] \in {"ok", "LLMContentFilterError", "LLMResponseError",
                        "LLMRateLimitError", "LLMConnectionError"}
       /\ gives[o] = "ok" <=> o = "answer"
       /\ gives[o] = "LLMContentFilterError" => o = "filter"
  /\ {"answer", "connection", "filter", "status"} \subseteq DOMAIN gives
  /\ gives["connection"] = "LLMConnectionError"
  /\ gives["status"] = "LLMResponseError"
  /\ "unconnected" \notin DOMAIN gives

-----------------------------------------------------------------------------
(* The tables of what a call tells                                           *)

\* Of generate, generate_json, generate_stream and get_embedding.
LEMMA GenerateTable ==
  /\ IsLlmTable(Generate)
  /\ Generate["filter"] = "LLMContentFilterError"
BY DEF IsLlmTable, Generate, ClassifyApiStatusError

LEMMA GenerateJsonTable ==
  /\ IsLlmTable(GenerateJson)
  /\ GenerateJson["filter"] = "LLMContentFilterError"
BY DEF IsLlmTable, GenerateJson, Generate, ClassifyApiStatusError

LEMMA GenerateStreamTable ==
  /\ IsLlmTable(GenerateStream)
  /\ GenerateStream["filter"] = "LLMContentFilterError"
BY DEF IsLlmTable, GenerateStream, Generate, ClassifyApiStatusError

LEMMA GetEmbeddingTable == IsLlmTable(GetEmbedding)
BY DEF IsLlmTable, GetEmbedding, Generate, ClassifyApiStatusError

\* A table of the database.
IsStatementTable(gives) ==
  /\ DOMAIN gives = {"answer", "refused", "lost", "unconnected"}
  /\ \A o \in DOMAIN gives :
       gives[o] \in {"ok"} \cup Errors
  /\ \A o \in DOMAIN gives :
       gives[o] = "DatabaseConnectionError" => o = "unconnected"

\* Of the statements and the repositories that wrap them.
LEMMA StatementTables ==
  /\ IsStatementTable(ExecuteQuery) /\ IsStatementTable(ExecuteWrite)
  /\ IsStatementTable(VectorSearch) /\ IsStatementTable(UpsertEmbedding)
  /\ IsStatementTable(BatchUpsertEmbeddings)
  /\ IsStatementTable(SearchNodesByVector) /\ IsStatementTable(FindSimilarNodes)
  /\ IsStatementTable(HealthCheck)
<1>1. IsStatementTable(ExecuteQuery)
  <2>1. DOMAIN ExecuteQuery = {"answer", "refused", "lost", "unconnected"}
    BY DEF ExecuteQuery
  <2>2. /\ ExecuteQuery["answer"] = "ok" /\ ExecuteQuery["refused"] = "DatabaseError"
        /\ ExecuteQuery["lost"] = "driver's own"
        /\ ExecuteQuery["unconnected"] = "DatabaseConnectionError"
    BY DEF ExecuteQuery
  <2> QED
    BY <2>1, <2>2 DEF IsStatementTable, Errors
<1>2. IsStatementTable(ExecuteWrite)
  BY <1>1 DEF ExecuteWrite
<1>3. IsStatementTable(VectorSearch)
  BY DEF IsStatementTable, ExecuteQuery, VectorSearch, Wrapped, Errors
<1>4. IsStatementTable(UpsertEmbedding)
  BY DEF IsStatementTable, ExecuteQuery, ExecuteWrite, UpsertEmbedding, Wrapped, Errors
<1>5. IsStatementTable(BatchUpsertEmbeddings)
  BY DEF IsStatementTable, ExecuteQuery, ExecuteWrite, BatchUpsertEmbeddings, Wrapped, Errors
<1>6. IsStatementTable(SearchNodesByVector)
  BY DEF IsStatementTable, ExecuteQuery, VectorSearch, SearchNodesByVector, Wrapped, Errors
<1>7. IsStatementTable(FindSimilarNodes)
  BY DEF IsStatementTable, ExecuteQuery, VectorSearch, FindSimilarNodes, Wrapped, Errors
<1>8. IsStatementTable(HealthCheck)
  BY DEF IsStatementTable, ExecuteQuery, HealthCheck, Errors
<1> QED
  BY <1>1, <1>2, <1>3, <1>4, <1>5, <1>6, <1>7, <1>8

\* The calls one by one.
LEMMA Entries ==
  /\ AllCalls["classify"] = ClassifyIntent
  /\ AllCalls["decompose"] = DecomposeQuery
  /\ AllCalls["cypher"] = GenerateCypher
  /\ AllCalls["respond"] = GenerateResponse
  /\ AllCalls["stream"] = GenerateResponseStream
  /\ AllCalls["clarify"] = GenerateClarification
  /\ AllCalls["analyze"] = AnalyzeWithLlm
  /\ AllCalls["embed"] = EmbedQuestion
  /\ AllCalls["query"] = Statement(ExecuteQuery)
  /\ AllCalls["write"] = Statement(ExecuteWrite)
  /\ AllCalls["search"] = Statement(VectorSearch)
  /\ AllCalls["upsert"] = Statement(UpsertEmbedding)
  /\ AllCalls["batch_upsert"] = Statement(BatchUpsertEmbeddings)
  /\ AllCalls["nodes"] = Statement(SearchNodesByVector)
  /\ AllCalls["similar"] = Statement(FindSimilarNodes)
  /\ AllCalls["health"] = Statement(HealthCheck)
BY DEF AllCalls

\* A call is of the LLM or of the database; an embedding does not fall back.
LEMMA KindsOfCalls ==
  ASSUME NEW c \in Calls
  PROVE  \/ /\ AllCalls[c].to = "llm" /\ IsLlmTable(AllCalls[c].gives)
            /\ AllCalls[c].tier \in {"light", "heavy", "embedding"}
            /\ c = "embed" => ~AllCalls[c].fallsBack
            /\ c # "embed" => AllCalls[c].gives["filter"] = "LLMContentFilterError"
         \/ AllCalls[c].to = "neo4j" /\ IsStatementTable(AllCalls[c].gives)
<1>1. c \in {"classify", "decompose", "cypher", "respond", "stream", "clarify", "analyze",
             "embed", "query", "write", "search", "upsert", "batch_upsert", "nodes",
             "similar", "health"}
  BY CallsAssumption DEF AllCalls
<1> DEFINE kind == AllCalls[c]
<1>2. CASE c \in {"classify", "decompose", "analyze"}
  <2>1. kind.to = "llm" /\ kind.gives = GenerateJson /\ kind.tier = "light"
        /\ ~kind.fallsBack
    BY <1>2, Entries DEF ClassifyIntent, DecomposeQuery, AnalyzeWithLlm, Llm
  <2> QED
    BY <2>1, GenerateJsonTable
<1>3. CASE c = "clarify"
  <2>1. kind.to = "llm" /\ kind.gives = Generate /\ kind.tier = "light"
        /\ ~kind.fallsBack
    BY <1>3, Entries DEF GenerateClarification, Llm
  <2> QED
    BY <2>1, GenerateTable
<1>7. CASE c = "cypher"
  <2>1. kind.to = "llm" /\ kind.gives = GenerateJson /\ kind.tier = "heavy"
        /\ kind.fallsBack
    BY <1>7, Entries DEF GenerateCypher, Llm
  <2> QED
    BY <1>7, <2>1, GenerateJsonTable
<1>8. CASE c = "respond"
  <2>1. kind.to = "llm" /\ kind.gives = Generate /\ kind.tier = "heavy"
        /\ kind.fallsBack
    BY <1>8, Entries DEF GenerateResponse, Llm
  <2> QED
    BY <1>8, <2>1, GenerateTable
<1>4. CASE c = "stream"
  <2>1. kind.to = "llm" /\ kind.gives = GenerateStream /\ kind.tier = "heavy"
        /\ ~kind.fallsBack
    BY <1>4, Entries DEF GenerateResponseStream, Llm
  <2> QED
    BY <2>1, GenerateStreamTable
<1>5. CASE c = "embed"
  <2>1. kind.to = "llm" /\ kind.gives = GetEmbedding /\ kind.tier = "embedding"
        /\ ~kind.fallsBack
    BY <1>5, Entries DEF EmbedQuestion, Llm
  <2> QED
    BY <1>5, <2>1, GetEmbeddingTable
<1>6. CASE c \in {"query", "write", "search", "upsert", "batch_upsert", "nodes",
                  "similar", "health"}
  <2>1. /\ kind.to = "neo4j"
        /\ kind.gives \in {ExecuteQuery, ExecuteWrite, VectorSearch, UpsertEmbedding,
             BatchUpsertEmbeddings, SearchNodesByVector, FindSimilarNodes, HealthCheck}
    BY <1>6, Entries DEF Statement
  <2> QED
    BY <2>1, StatementTables
<1> QED
  BY <1>1, <1>2, <1>3, <1>4, <1>5, <1>6, <1>7, <1>8

-----------------------------------------------------------------------------
(* One call                                                                  *)

KindOf(call) == AllCalls[call.of]

\* A call that has no answer yet: nothing was tried, or one tier has failed
\* with an error that the other may mend.
Pending(call) ==
  /\ call.told = None
  /\ \/ call.tried = <<>>
     \/ /\ KindOf(call).to = "llm" /\ KindOf(call).fallsBack
        /\ Len(call.tried) = 1 /\ call.tried[1] \notin {"answer", "filter"}

\* A call that was told: what FallbackSound says of it.
Answered(call) ==
  /\ call.told # None
  /\ KindOf(call).to = "llm" =>
       /\ \A i \in 1 .. Len(call.tried) - 1 : call.tried[i] \notin {"answer", "filter"}
       /\ call.told = "ok" <=> call.tried[Len(call.tried)] = "answer"
       /\ call.of # "embed" =>
            (call.told = "LLMContentFilterError" <=> call.tried[Len(call.tried)] = "filter")
       /\ KindOf(call).fallsBack /\ call.told \notin {"ok", "LLMContentFilterError"} =>
            Len(call.tried) = 2

\* Appending to none or one.
LEMMA Appended ==
  ASSUME NEW S, NEW s \in Seq(S), Len(s) \in {0, 1}, NEW e \in S
  PROVE  /\ Append(s, e) \in Seq(S)
         /\ Len(Append(s, e)) = Len(s) + 1
         /\ Append(s, e)[Len(s) + 1] = e
         /\ Len(s) = 1 => Append(s, e)[1] = s[1]
         /\ s # <<>> <=> Len(s) = 1
<1>1. Append(s, e) \in Seq(S) /\ Len(Append(s, e)) = Len(s) + 1
  OBVIOUS
<1>2. Append(s, e)[Len(s) + 1] = e /\ (Len(s) = 1 => Append(s, e)[1] = s[1])
  OBVIOUS
<1>3. s # <<>> <=> Len(s) = 1
  BY EmptySeq
<1> QED
  BY <1>1, <1>2, <1>3

\* None is neither an answer nor a call.
LEMMA NoneIsNoAnswer ==
  None # "DatabaseConnectionError" /\ \A c \in Calls : c # None
<1>1. /\ "query" \in DOMAIN AllCalls /\ AllCalls["query"] = Statement(ExecuteQuery)
      /\ "unconnected" \in DOMAIN ExecuteQuery
      /\ ExecuteQuery["unconnected"] = "DatabaseConnectionError"
  BY Entries DEF AllCalls, ExecuteQuery
<1>2. AllCalls["query"].gives = ExecuteQuery
  BY <1>1 DEF Statement
<1> QED
  BY <1>1, <1>2, CallsAssumption

\* What a call meets leaves it pending after the first failure of a call that
\* falls back, and answered otherwise.
LEMMA SettledTold ==
  ASSUME NEW call \in CallRecord, Pending(call),
         NEW met \in Met \cap DOMAIN KindOf(call).gives,
         NEW next, next = Settled(call, met)
  PROVE  /\ next \in CallRecord
         /\ Pending(next) \/ Answered(next)
         /\ next.told = "DatabaseConnectionError" => met = "unconnected"
         /\ next.with \in {None, call.with}
         /\ Len(next.tried) <= 2
<1> DEFINE kind == KindOf(call)
           error == kind.gives[met]
           again == [call EXCEPT !.tried = Append(@, met), !.tier = "light", !.with = None]
           lost == [call EXCEPT !.tried = Append(@, met), !.told = "LLMResponseError"]
           told == [call EXCEPT !.tried = Append(@, met), !.told = error]
<1>0. call.of \in Calls
  BY DEF CallRecord
<1>1. call.tried \in Seq(Met) /\ Len(call.tried) \in {0, 1} /\ met \in Met
  <2>1. call.tried \in Seq(Met) /\ met \in Met
    BY DEF CallRecord, Met
  <2>2. Len(call.tried) \in {0, 1}
    BY <2>1, Len(<<>>) = 0 DEF Pending
  <2> QED
    BY <2>1, <2>2
<1>2. /\ Append(call.tried, met) \in Seq(Met)
      /\ Len(Append(call.tried, met)) = Len(call.tried) + 1
      /\ Append(call.tried, met)[Len(call.tried) + 1] = met
      /\ Len(call.tried) = 1 => Append(call.tried, met)[1] = call.tried[1]
      /\ call.tried # <<>> <=> Len(call.tried) = 1
  BY <1>1, Appended
<1>3. error \in UNION {Range(AllCalls[c].gives) : c \in Calls}
  BY <1>0 DEF KindOf, Range
<1>4. kind.to = "llm" => "LLMResponseError" \in UNION {Range(AllCalls[c].gives) : c \in Calls}
  <2> SUFFICES ASSUME kind.to = "llm"
               PROVE  "LLMResponseError" \in Range(kind.gives)
    BY <1>0 DEF KindOf
  <2> QED
    BY <1>0, KindsOfCalls DEF KindOf, Range, IsLlmTable
<1> DEFINE tried == Append(call.tried, met)
<1>5. CASE kind.to = "llm" /\ kind.fallsBack /\ error \in FallbackErrors /\ call.tried = <<>>
  <2>1. next = again
    BY <1>5 DEF Settled, KindOf
  <2>2. again \in CallRecord
    BY <1>2 DEF CallRecord, Met
  <2>3. again.tried = tried /\ again.told = None /\ again.with = None /\ again.of = call.of
    BY DEF CallRecord, Pending
  <2>4. Len(tried) = 1 /\ tried[1] = met
    BY <1>1, <1>2, <1>5, Len(<<>>) = 0
  <2>5. Pending(again)
    BY <1>0, <1>5, <2>3, <2>4, KindsOfCalls DEF Pending, KindOf, IsLlmTable, FallbackErrors
  <2> QED
    BY <2>1, <2>2, <2>3, <2>4, <2>5, NoneIsNoAnswer
<1>6. CASE kind.to = "llm" /\ call.tried # <<>> /\ error \in FallbackErrors
  <2>1. next = lost
    BY <1>6 DEF Settled, KindOf
  <2>2. lost \in CallRecord
    BY <1>2, <1>4, <1>6 DEF CallRecord, Met
  <2>3. /\ lost.told = "LLMResponseError" /\ lost.tried = tried /\ lost.of = call.of
        /\ lost.with = call.with
    BY DEF CallRecord
  <2>4. Len(tried) = 2 /\ tried[2] = met /\ tried[1] \notin {"answer", "filter"}
    <3>1. Len(call.tried) = 1
      BY <1>2, <1>6
    <3>2. call.tried[1] \notin {"answer", "filter"}
      BY <1>6 DEF Pending
    <3>3. Append(call.tried, met)[2] = met /\ Append(call.tried, met)[1] = call.tried[1]
          /\ Len(Append(call.tried, met)) = 2
      BY <1>2, <3>1
    <3> QED
      BY <3>2, <3>3
  <2>5. met \notin {"answer"} /\ (call.of # "embed" => met # "filter")
    BY <1>0, <1>6, KindsOfCalls DEF KindOf, IsLlmTable, FallbackErrors
  <2>6. "LLMResponseError" # None
    BY <1>0, <1>6, KindsOfCalls, CallsAssumption DEF KindOf, IsLlmTable
  <2>7. Answered(lost)
    BY <2>3, <2>4, <2>5, <2>6 DEF Answered, KindOf
  <2> QED
    BY <2>1, <2>2, <2>3, <2>4, <2>7
<1>7. CASE ~(kind.to = "llm" /\ error \in FallbackErrors /\ (kind.fallsBack \/ call.tried # <<>>))
  <2>1. next = told
    BY <1>7 DEF Settled, KindOf
  <2>2. told \in CallRecord
    BY <1>2, <1>3 DEF CallRecord, Met
  <2>3. /\ told.told = error /\ told.tried = tried /\ told.of = call.of
        /\ told.with = call.with
    BY DEF CallRecord
  <2>4. error # None
    BY <1>0, CallsAssumption DEF KindOf
  <2>5. tried[Len(tried)] = met /\ Len(tried) \in {1, 2}
    <3>1. Len(call.tried) + 1 \in {1, 2}
      BY <1>1
    <3> QED
      BY <1>2, <3>1
  <2>6. \A i \in 1 .. Len(tried) - 1 : tried[i] \notin {"answer", "filter"}
    BY <1>1, <1>2 DEF Pending
  <2>7. kind.to = "llm" =>
          /\ error = "ok" <=> met = "answer"
          /\ call.of # "embed" => (error = "LLMContentFilterError" <=> met = "filter")
          /\ kind.fallsBack => error \in {"ok", "LLMContentFilterError"}
    BY <1>0, <1>7, KindsOfCalls DEF KindOf, IsLlmTable, FallbackErrors
  <2>8. Answered(told)
    BY <2>3, <2>4, <2>5, <2>6, <2>7 DEF Answered, KindOf
  <2>9. error = "DatabaseConnectionError" => met = "unconnected"
    BY <1>0, KindsOfCalls DEF KindOf, IsLlmTable, IsStatementTable
  <2> QED
    BY <2>1, <2>2, <2>3, <2>5, <2>8, <2>9
<1> QED
  BY <1>5, <1>6, <1>7

-----------------------------------------------------------------------------
(* The inductive invariant                                                   *)

Roles == {"awaited", "question", "connecting", "ingest", "closing", "learner", "ended"}
RunningRoles == {"question", "connecting", "ingest", "closing"}
Task == [role: Roles, calls: Nat, call: {NoCall} \cup CallRecord]
Maker == [by: Requests, role: Roles, at: Stages]

Typed ==
  /\ stage \in Stages /\ driver \in BOOLEAN /\ schema \in {None, "whole", "partial"}
  /\ makers \in Seq(Maker) /\ Len(makers) <= MaxMade /\ client \in 0 .. Len(makers)
  /\ task \in [Requests -> Task]

\* A call of a question is sent by the worker's driver or by the client the
\* gateway keeps, and did not meet a missing driver.
CallSound(t, c) ==
  /\ t.call \in CallRecord /\ Len(t.call.tried) <= 2
  /\ t.role \in {"question", "learner"}
  /\ Pending(t.call) \/ Answered(t.call)
  /\ t.role = "question" =>
       /\ t.call.told # "DatabaseConnectionError"
       /\ t.call.told = None =>
            \/ t.call.with \in {None, Driver}
            \/ c # 0 /\ t.call.with = LlmClient(c)

TaskSound(t, c, s) ==
  /\ t.role \in RunningRoles => s \in {"serving", "draining"}
  /\ t.call = NoCall \/ CallSound(t, c)

TasksSound == \A q \in Requests : TaskSound(task[q], client, stage)

HandlesKnown ==
  \A h \in open :
    \/ h \in {Driver, Handle("gds", None), Handle("sqlite", None)}
    \/ \E q \in Requests : h = JobDriver(q)
    \/ \E n \in 1 .. Len(makers) : h = LlmClient(n)

DriverKept ==
  /\ stage \notin {"connect", "forget_neo4j", "stopped", "failed"} =>
       driver /\ Driver \in open
  /\ stage \in {"forget_neo4j", "stopped"} => Driver \notin open

Early == Stages \ {"forget_llm", "close_neo4j", "forget_neo4j", "stopped", "failed"}

\* Before the gateway is closed it has made at most one client, which it
\* keeps open.
ClientKept ==
  stage \in Early =>
    /\ client = Len(makers) /\ Len(makers) <= 1
    /\ client = 1 => LlmClient(1) \in open

\* After that, what is open was made by a learning task after the close.
LateClients ==
  stage \in {"forget_llm", "close_neo4j", "forget_neo4j", "stopped"} =>
    \A n \in 1 .. Len(makers) : LlmClient(n) \in open =>
      makers[n].role = "learner" /\ makers[n].at \notin Serving

JobKept(q, role, failures) ==
  \/ role \in {"connecting", "ingest", "closing"}
  \/ {Handle("connect", q), Handle("close", q)} \cap failures # {}

JobsKept ==
  \A q \in Requests : JobDriver(q) \in open => JobKept(q, task[q].role, failed)

IInv ==
  /\ Typed /\ TasksSound /\ HandlesKnown /\ DriverKept /\ ClientKept
  /\ LateClients /\ JobsKept

\* A worker that has opened nothing.
LEMMA InitIInv == Init => IInv
<1> SUFFICES ASSUME Init PROVE IInv
  OBVIOUS
<1>1. Idle("awaited", 0) \in Task
  BY DEF Idle, Task, Roles
<1>2. Typed
  <2>1. makers = <<>> /\ <<>> \in Seq(Maker) /\ Len(<<>>) = 0
    BY DEF Init
  <2>2. MaxMade \in Nat
    BY WorkerAssumption
  <2>3. task \in [Requests -> Task]
    BY <1>1 DEF Init
  <2>4. /\ stage \in Stages /\ driver \in BOOLEAN
        /\ schema \in {None, "whole", "partial"} /\ client = 0
    BY DEF Init, Stages
  <2> QED
    BY <2>1, <2>2, <2>3, <2>4 DEF Typed
<1>3. TasksSound
  BY DEF Init, TasksSound, TaskSound, Idle, RunningRoles
<1>4. HandlesKnown /\ DriverKept /\ JobsKept
  BY DEF Init, HandlesKnown, DriverKept, JobsKept
<1>5. ClientKept /\ LateClients
  BY Len(<<>>) = 0 DEF Init, ClientKept, LateClients
<1> QED
  BY <1>2, <1>3, <1>4, <1>5 DEF IInv

\* A step of one task that opens and closes nothing.
LEMMA TaskStep ==
  ASSUME IInv, UNCHANGED <<worker, client, makers, open>>, failed \subseteq failed',
         NEW q \in Requests, NEW new \in Task, task' = [task EXCEPT ![q] = new],
         TaskSound(new, client, stage),
         JobKept(q, task[q].role, failed) => JobKept(q, new.role, failed')
  PROVE  IInv'
<1> USE DEF worker
<1>1. Typed'
  BY DEF IInv, Typed
<1>2. TasksSound'
  BY DEF IInv, Typed, TasksSound, TaskSound, CallSound, Pending, Answered, KindOf
<1>3. HandlesKnown' /\ DriverKept' /\ ClientKept' /\ LateClients'
  BY DEF IInv, HandlesKnown, DriverKept, ClientKept, LateClients
<1>4. JobsKept'
  <2> SUFFICES ASSUME NEW r \in Requests, JobDriver(r) \in open
               PROVE  JobKept(r, task'[r].role, failed')
    BY DEF JobsKept
  <2>1. CASE r = q
    BY <2>1 DEF IInv, Typed, JobsKept
  <2>2. CASE r # q
    BY <2>2 DEF IInv, Typed, JobsKept, JobKept
  <2> QED
    BY <2>1, <2>2
<1> QED
  BY <1>1, <1>2, <1>3, <1>4 DEF IInv
-----------------------------------------------------------------------------
(* The steps of tasks                                                        *)

\* What the invariant says of one task.
LEMMA TaskFacts ==
  ASSUME IInv, NEW q \in Requests
  PROVE  /\ task[q] \in Task /\ TaskSound(task[q], client, stage)
         /\ task[q].role \in RunningRoles => driver /\ Driver \in open
         /\ NoCall \notin CallRecord
         /\ Calling(q) => CallSound(task[q], client) /\ Pending(task[q].call)
<1>1. task[q] \in Task /\ TaskSound(task[q], client, stage)
  BY DEF IInv, Typed, TasksSound
<1>2. task[q].role \in RunningRoles => driver /\ Driver \in open
  BY <1>1 DEF TaskSound, IInv, DriverKept
<1>3. NoCall \notin CallRecord
  BY NoneIsNoAnswer DEF NoCall, CallRecord
<1>4. Calling(q) => CallSound(task[q], client) /\ Pending(task[q].call)
  BY <1>1 DEF Calling, NoCall, TaskSound, CallSound, Answered
<1> QED
  BY <1>1, <1>2, <1>3, <1>4

\* A new call has met nothing.
LEMMA BeginStep ==
  ASSUME IInv, NEW q \in Requests, NEW c \in Calls, Begin(q, c)
  PROVE  IInv'
<1> DEFINE call == [of |-> c, tried |-> <<>>, with |-> None, told |-> None,
                    tier |-> IF AllCalls[c].to = "llm" THEN AllCalls[c].tier
                                                       ELSE "neo4j"]
           new == [task[q] EXCEPT !.calls = @ + 1, !.call = call]
<1>1. call \in CallRecord
  <2>1. (IF AllCalls[c].to = "llm" THEN AllCalls[c].tier ELSE "neo4j")
          \in {"light", "heavy", "embedding", "neo4j"}
    BY KindsOfCalls
  <2>2. <<>> \in Seq(Outcomes \cup {"connection", "unconnected"})
    OBVIOUS
  <2> QED
    BY <2>1, <2>2 DEF CallRecord
<1>3. task[q].role \in {"question", "learner"}
  BY DEF Begin, MayCall
<1>4. Pending(call) /\ Len(call.tried) <= 2 /\ call.told = None /\ call.with = None
  BY Len(<<>>) = 0 DEF Pending
<1>7. task' = [task EXCEPT ![q] = new]
  BY DEF Begin
<1> HIDE DEF call
<1>2. new \in Task /\ new.call = call /\ new.role = task[q].role
  <2>1. task[q] \in [role: Roles, calls: Nat, call: {NoCall} \cup CallRecord]
    BY TaskFacts DEF Task
  <2>2. task[q].calls + 1 \in Nat /\ call \in {NoCall} \cup CallRecord
    BY <1>1, <2>1
  <2>3. [task[q] EXCEPT !.calls = task[q].calls + 1] \in Task
    BY <2>1, <2>2 DEF Task
  <2> DEFINE counted == [task[q] EXCEPT !.calls = task[q].calls + 1]
  <2>4. new = [counted EXCEPT !.call = call] /\ counted.role = task[q].role
    BY <2>1
  <2> HIDE DEF new, counted
  <2> QED
    BY <2>2, <2>3, <2>4 DEF Task, counted
<1> HIDE DEF new
<1>5. CallSound(new, client)
  BY <1>1, <1>2, <1>3, <1>4, NoneIsNoAnswer DEF CallSound
<1>6. TaskSound(new, client, stage)
  BY <1>2, <1>5, TaskFacts DEF TaskSound
<1> QED
  BY <1>2, <1>6, <1>7, TaskStep DEF Begin, JobKept

\* What a call meets keeps its task sound, unless a question meets a driver
\* that is not there.
LEMMA SettleStep ==
  ASSUME IInv, NEW q \in Requests, Calling(q),
         NEW met \in Met \cap DOMAIN KindOf(task[q].call).gives, Settle(q, met),
         task[q].role = "question" => met # "unconnected",
         UNCHANGED <<worker, client, makers, open>>, failed \subseteq failed'
  PROVE  IInv'
<1> DEFINE next == Settled(task[q].call, met)
           new == [task[q] EXCEPT !.call = next]
<1>1. /\ task[q].call \in CallRecord /\ Pending(task[q].call)
      /\ CallSound(task[q], client)
  BY TaskFacts DEF CallSound
<1>2. /\ next \in CallRecord
      /\ Pending(next) \/ Answered(next)
      /\ next.told = "DatabaseConnectionError" => met = "unconnected"
      /\ next.with \in {None, task[q].call.with}
      /\ Len(next.tried) <= 2
  <2> HIDE DEF next
  <2>1. next = Settled(task[q].call, met)
    BY DEF next
  <2> QED
    BY <1>1, <2>1, SettledTold
<1>3. task' = [task EXCEPT ![q] = new]
  BY DEF Settle
<1> HIDE DEF next
<1>4. new \in Task /\ new.call = next /\ new.role = task[q].role
  BY <1>2, TaskFacts DEF Task
<1> HIDE DEF new
<1>5. CallSound(new, client)
  BY <1>1, <1>2, <1>4 DEF CallSound, Pending
<1>6. TaskSound(new, client, stage)
  BY <1>4, <1>5, TaskFacts DEF TaskSound
<1> QED
  BY <1>3, <1>4, <1>6, TaskStep DEF JobKept

\* A call is sent by the driver, or by the client the gateway keeps.
LEMMA SentStep ==
  ASSUME IInv, NEW q \in Requests, Calling(q), NEW h, SentBy(q, h),
         h = Driver \/ (client # 0 /\ h = LlmClient(client)),
         UNCHANGED <<worker, client, makers, open, failed>>
  PROVE  IInv'
<1> DEFINE next == [task[q].call EXCEPT !.with = h]
           new == [task[q] EXCEPT !.call = next]
<1>1. /\ task[q].call \in CallRecord /\ Pending(task[q].call)
      /\ CallSound(task[q], client)
  BY TaskFacts DEF CallSound
<1>2. h \in {None, Driver} \cup {LlmClient(n) : n \in 1 .. MaxMade}
  <2>1. client \in 0 .. Len(makers) /\ Len(makers) <= MaxMade /\ Len(makers) \in Nat
        /\ MaxMade \in Nat
    BY WorkerAssumption DEF IInv, Typed
  <2>2. client # 0 => client \in 1 .. MaxMade
    BY <2>1
  <2> QED
    BY <2>2
<1>3. /\ next \in CallRecord /\ next.with = h /\ next.told = task[q].call.told
      /\ next.tried = task[q].call.tried /\ next.of = task[q].call.of
  BY <1>1, <1>2 DEF CallRecord
<1>4. task' = [task EXCEPT ![q] = new]
  BY DEF SentBy
<1> HIDE DEF next
<1>5. new \in Task /\ new.call = next /\ new.role = task[q].role
  BY <1>3, TaskFacts DEF Task
<1> HIDE DEF new
<1>6. Pending(next)
  BY <1>1, <1>3 DEF Pending, KindOf
<1>7. CallSound(new, client)
  BY <1>1, <1>3, <1>5, <1>6 DEF CallSound
<1>8. TaskSound(new, client, stage)
  BY <1>5, <1>7, TaskFacts DEF TaskSound
<1> QED
  BY <1>4, <1>5, <1>8, TaskStep DEF JobKept
\* A call is sent by what is there, or the gateway makes its client: when it
\* has none it serves its first call, or a learning task came after the close.
LEMMA SendStep ==
  ASSUME IInv, NEW q \in Requests, Send(q)
  PROVE  IInv'
<1>1. /\ Calling(q) /\ task[q].call \in CallRecord /\ task[q].call.of \in Calls
      /\ CallSound(task[q], client)
  BY TaskFacts DEF Send, CallSound, CallRecord
<1>2. CASE /\ AllCalls[task[q].call.of].to = "llm"
           /\ client # 0 /\ SentBy(q, LlmClient(client))
           /\ UNCHANGED <<worker, client, makers, open, failed>>
  BY <1>1, <1>2, SentStep
<1>3. CASE /\ AllCalls[task[q].call.of].to = "llm"
           /\ Fails("client", q) /\ Settle(q, "connection")
           /\ UNCHANGED <<worker, client, makers, open>>
  <2>1. "connection" \in Met \cap DOMAIN KindOf(task[q].call).gives
    BY <1>1, <1>3, KindsOfCalls DEF Met, KindOf, IsLlmTable, IsStatementTable
  <2>2. failed \subseteq failed'
    BY <1>3 DEF Fails
  <2> QED
    BY <1>1, <1>3, <2>1, <2>2, SettleStep
<1>4. CASE /\ AllCalls[task[q].call.of].to # "llm"
           /\ driver /\ SentBy(q, Driver)
           /\ UNCHANGED <<worker, client, makers, open, failed>>
  BY <1>1, <1>4, SentStep
<1>5. CASE /\ AllCalls[task[q].call.of].to # "llm"
           /\ ~driver /\ Settle(q, "unconnected")
           /\ UNCHANGED <<worker, client, makers, open, failed>>
  <2>1. "unconnected" \in Met \cap DOMAIN KindOf(task[q].call).gives
    BY <1>1, <1>5, KindsOfCalls DEF Met, KindOf, IsStatementTable
  <2>2. task[q].role # "question"
    BY <1>5, TaskFacts DEF RunningRoles
  <2> QED
    BY <1>1, <1>5, <2>1, <2>2, SettleStep
<1>6. CASE /\ client = 0 /\ Len(makers) < MaxMade
           /\ client' = Len(makers) + 1
           /\ makers' = Append(makers, [by |-> q, role |-> task[q].role, at |-> stage])
           /\ Opens(LlmClient(Len(makers) + 1))
           /\ SentBy(q, LlmClient(Len(makers) + 1))
           /\ UNCHANGED <<worker, failed>>
  <2> USE DEF worker
  <2> DEFINE n == Len(makers) + 1
             maker == [by |-> q, role |-> task[q].role, at |-> stage]
             next == [task[q].call EXCEPT !.with = LlmClient(n)]
             new == [task[q] EXCEPT !.call = next]
  <2>1. Len(makers) \in Nat /\ MaxMade \in Nat /\ n \in 1 .. MaxMade /\ client' = n
    BY <1>6, WorkerAssumption DEF IInv, Typed
  <2>2. maker \in Maker
    BY TaskFacts DEF IInv, Typed, Maker, Task
  <2>3. /\ makers' \in Seq(Maker) /\ Len(makers') = n /\ makers'[n] = maker
        /\ \A i \in 1 .. Len(makers) : makers'[i] = makers[i]
    BY <1>6, <2>2 DEF IInv, Typed
  <2>4. next \in CallRecord /\ Pending(next) /\ next.with = LlmClient(n)
        /\ next.tried = task[q].call.tried /\ next.told = None
    <3>1. /\ next \in CallRecord /\ next.told = task[q].call.told
          /\ next.with = LlmClient(n)
          /\ next.tried = task[q].call.tried /\ next.of = task[q].call.of
      BY <1>1, <2>1 DEF CallRecord
    <3> QED
      BY <1>1, <3>1, TaskFacts DEF Pending, KindOf
  <2>5. task' = [task EXCEPT ![q] = new]
    BY <1>6 DEF SentBy
  <2> HIDE DEF next
  <2>6. new \in Task /\ new.call = next /\ new.role = task[q].role
    BY <2>4, TaskFacts DEF Task
  <2> HIDE DEF new, maker
  <2>7. TaskSound(new, n, stage)
    BY <1>1, <2>1, <2>4, <2>6, TaskFacts, NoneIsNoAnswer DEF TaskSound, CallSound
  <2>8. Typed'
    BY <1>6, <2>1, <2>3, <2>5, <2>6 DEF IInv, Typed
  <2>9. TasksSound'
    <3>1. \A r \in Requests : task'[r] = IF r = q THEN new ELSE task[r]
      BY <2>5 DEF IInv, Typed
    <3>2. \A r \in Requests : TaskSound(task[r], n, stage)
      BY <1>6, <2>1, TaskFacts DEF TaskSound, CallSound
    <3>3. \A r \in Requests : TaskSound(task'[r], n, stage)
      BY <2>7, <3>1, <3>2
    <3> QED
      BY <1>6, <2>1, <3>3 DEF TasksSound, TaskSound, CallSound, Pending, Answered, KindOf
  <2>10. HandlesKnown'
    BY <1>6, <2>1, <2>3 DEF IInv, HandlesKnown, Opens
  <2>11. DriverKept'
    BY <1>6 DEF IInv, DriverKept, Opens, LlmClient, Driver, Handle
  <2>12. ClientKept'
    BY <1>6, <2>1, <2>3 DEF IInv, ClientKept, Opens
  <2>13. LateClients'
    <3>1. stage \in {"forget_llm", "close_neo4j", "forget_neo4j", "stopped"} =>
            task[q].role = "learner" /\ stage \notin Serving
      BY <1>1, TaskFacts DEF CallSound, TaskSound, RunningRoles, Serving
    <3>2. \A i \in 1 .. Len(makers) : LlmClient(i) # LlmClient(n)
      BY <2>1 DEF LlmClient, Handle
    <3> QED
      BY <1>6, <2>1, <2>3, <3>1, <3>2 DEF IInv, LateClients, Opens, maker
  <2>14. JobsKept'
    <3>1. \A r \in Requests : JobDriver(r) # LlmClient(n)
      BY DEF JobDriver, LlmClient, Handle
    <3>2. \A r \in Requests : task'[r].role = task[r].role
      BY <2>5, <2>6 DEF IInv, Typed
    <3> QED
      BY <1>6, <3>1, <3>2 DEF IInv, JobsKept, JobKept, Opens
  <2> QED
    BY <2>8, <2>9, <2>10, <2>11, <2>12, <2>13, <2>14 DEF IInv
<1> QED
  BY <1>2, <1>3, <1>4, <1>5, <1>6 DEF Send, GetClient, worker
\* An answer is none of a missing driver.
LEMMA AnswerStep ==
  ASSUME IInv, NEW q \in Requests, Answer(q)
  PROVE  IInv'
<1>1. PICK met \in Outcomes \cap DOMAIN AllCalls[task[q].call.of].gives : Settle(q, met)
  BY DEF Answer
<1>2. met \in Met \cap DOMAIN KindOf(task[q].call).gives /\ met # "unconnected"
  BY <1>1, CallsAssumption DEF Met, KindOf
<1> QED
  BY <1>1, <1>2, SettleStep DEF Answer

\* A task without a call is sound wherever the requests may run.
LEMMA IdleStep ==
  ASSUME IInv, NEW q \in Requests, NEW role \in Roles, NEW calls \in Nat,
         task' = [task EXCEPT ![q] = [role |-> role, calls |-> calls, call |-> NoCall]],
         role \in RunningRoles => stage \in {"serving", "draining"},
         JobKept(q, task[q].role, failed) => JobKept(q, role, failed'),
         UNCHANGED <<worker, client, makers, open>>, failed \subseteq failed'
  PROVE  IInv'
<1> DEFINE new == [role |-> role, calls |-> calls, call |-> NoCall]
<1>1. new \in Task /\ new.role = role /\ new.call = NoCall
  BY DEF Task
<1>2. task' = [task EXCEPT ![q] = new]
  OBVIOUS
<1> HIDE DEF new
<1> QED
  BY <1>1, <1>2, TaskStep DEF TaskSound

\* A task that makes calls is no job.
LEMMA TimeOutStep ==
  ASSUME IInv, NEW q \in Requests, TimeOut(q)
  PROVE  IInv'
<1> DEFINE new == [task[q] EXCEPT !.call = NoCall]
<1>1. task[q] \in Task /\ TaskSound(task[q], client, stage)
  BY TaskFacts
<1>2. new \in Task /\ new.role = task[q].role /\ new.call = NoCall
  BY <1>1 DEF Task
<1>3. task' = [task EXCEPT ![q] = new]
  BY DEF TimeOut
<1> HIDE DEF new
<1> QED
  BY <1>1, <1>2, <1>3, TaskStep DEF TimeOut, TaskSound, JobKept

\* A question or a learning task ends.
LEMMA RespondStep ==
  ASSUME IInv, NEW q \in Requests, Respond(q) \/ Learned(q) \/ CancelLearner(q)
  PROVE  IInv'
<1>1. PICK role \in {"ended", "learner"} : task' = [task EXCEPT ![q] = Idle(role, 0)]
  BY DEF Respond, Learned, CancelLearner
<1>2. /\ task[q].role \in {"question", "learner"} /\ role \in Roles
      /\ UNCHANGED <<worker, client, makers, open, failed>>
      /\ role \notin RunningRoles
  BY DEF Respond, Learned, CancelLearner, Roles, RunningRoles
<1> QED
  BY <1>1, <1>2, IdleStep DEF Idle, JobKept

\* A job makes no calls.
LEMMA JobStep ==
  ASSUME IInv, NEW q \in Requests, NEW role \in Roles,
         task[q].role \in {"connecting", "ingest", "closing"},
         task' = [task EXCEPT ![q].role = role],
         role \in {"ended", "ingest", "closing"},
         role = "ended" => {Handle("connect", q), Handle("close", q)} \cap failed' # {},
         UNCHANGED <<worker, client, makers, open>>, failed \subseteq failed'
  PROVE  IInv'
<1>1. task[q] \in Task /\ TaskSound(task[q], client, stage)
  BY TaskFacts
<1>2. task[q].call = NoCall /\ stage \in {"serving", "draining"}
  BY <1>1 DEF TaskSound, CallSound, RunningRoles, Task
<1> DEFINE new == [task[q] EXCEPT !.role = role]
<1>3. new \in Task /\ new.role = role /\ new.call = NoCall
  BY <1>1, <1>2 DEF Task
<1>4. task' = [task EXCEPT ![q] = new]
  OBVIOUS
<1> HIDE DEF new
<1>5. TaskSound(new, client, stage)
  BY <1>2, <1>3 DEF TaskSound
<1> QED
  BY <1>3, <1>4, <1>5, TaskStep DEF JobKept

\* A job that could not connect leaves its driver with a failure on record.
LEMMA ConnectJobStep ==
  ASSUME IInv, NEW q \in Requests, ConnectJob(q)
  PROVE  IInv'
<1>1. CASE task' = [task EXCEPT ![q].role = "ingest"] /\ UNCHANGED failed
  BY <1>1, JobStep DEF ConnectJob, Roles
<1>2. CASE Fails("connect", q) /\ task' = [task EXCEPT ![q].role = "ended"]
  BY <1>2, JobStep DEF ConnectJob, Roles, Fails
<1> QED
  BY <1>1, <1>2 DEF ConnectJob

\* A job goes on to close its client.
LEMMA FinishJobStep ==
  ASSUME IInv, NEW q \in Requests, FinishJob(q)
  PROVE  IInv'
BY JobStep DEF FinishJob, Roles

\* The client of a job is closed, or its close failed.
LEMMA CloseJobStep ==
  ASSUME IInv, NEW q \in Requests, CloseJob(q)
  PROVE  IInv'
<1>1. CASE Fails("close", q) /\ UNCHANGED open
  BY <1>1, JobStep DEF CloseJob, Roles, Fails
<1>2. CASE Closes(JobDriver(q)) /\ UNCHANGED failed
  <2> USE DEF worker
  <2>1. task[q] \in Task /\ TaskSound(task[q], client, stage)
    BY TaskFacts
  <2>2. task[q].call = NoCall
    BY <2>1 DEF TaskSound, CallSound, CloseJob
  <2> DEFINE new == [task[q] EXCEPT !.role = "ended"]
  <2>3. task' = [task EXCEPT ![q] = new]
    BY DEF CloseJob
  <2>4. new \in Task /\ new.call = NoCall /\ new.role = "ended"
    BY <2>1, <2>2 DEF Task, Roles
  <2> HIDE DEF new
  <2>5. \A r \in Requests : task'[r] = IF r = q THEN new ELSE task[r]
    BY <2>3 DEF IInv, Typed
  <2>6. Typed'
    BY <2>3, <2>4 DEF IInv, Typed, CloseJob
  <2>7. TasksSound'
    <3>1. \A r \in Requests : TaskSound(task'[r], client, stage)
      BY <2>4, <2>5 DEF IInv, TasksSound, TaskSound, RunningRoles
    <3> QED
      BY <3>1 DEF CloseJob, TasksSound, TaskSound, CallSound, Pending, Answered, KindOf
  <2>8. HandlesKnown'
    BY <1>2 DEF IInv, HandlesKnown, Closes, CloseJob
  <2>9. DriverKept'
    BY <1>2 DEF IInv, DriverKept, Closes, CloseJob, Driver, JobDriver, Handle
  <2>10. ClientKept'
    BY <1>2 DEF IInv, ClientKept, Closes, CloseJob, LlmClient, JobDriver, Handle
  <2>11. LateClients'
    BY <1>2 DEF IInv, LateClients, Closes, CloseJob
  <2>12. JobsKept'
    BY <1>2, <2>5 DEF IInv, JobsKept, JobKept, Closes, CloseJob
  <2> QED
    BY <2>6, <2>7, <2>8, <2>9, <2>10, <2>11, <2>12 DEF IInv
<1> QED
  BY <1>1, <1>2 DEF CloseJob

\* A request arrives; an ingestion opens its client.
LEMMA ArriveStep ==
  ASSUME IInv, NEW q \in Requests, NEW kind \in {"question", "ingest"}, Arrive(q, kind)
  PROVE  IInv'
<1>1. CASE kind = "question"
  BY <1>1, IdleStep DEF Arrive, Idle, Roles, RunningRoles, JobKept
<1>2. CASE kind = "ingest"
  <2> USE DEF worker
  <2> DEFINE new == Idle("connecting", 0)
  <2>1. task' = [task EXCEPT ![q] = new] /\ Opens(JobDriver(q)) /\ UNCHANGED failed
    BY <1>2 DEF Arrive
  <2>2. new \in Task /\ new.call = NoCall /\ new.role = "connecting"
    BY DEF Task, Roles, Idle
  <2> HIDE DEF new
  <2>3. \A r \in Requests : task'[r] = IF r = q THEN new ELSE task[r]
    BY <2>1 DEF IInv, Typed
  <2>4. Typed'
    BY <2>1, <2>2 DEF IInv, Typed, Arrive
  <2>5. TasksSound'
    <3>1. \A r \in Requests : TaskSound(task'[r], client, stage)
      BY <2>2, <2>3 DEF IInv, TasksSound, TaskSound, Arrive
    <3> QED
      BY <3>1 DEF Arrive, TasksSound, TaskSound, CallSound, Pending, Answered, KindOf
  <2>6. HandlesKnown'
    BY <2>1 DEF IInv, HandlesKnown, Opens, Arrive
  <2>7. DriverKept' /\ ClientKept' /\ LateClients'
    BY <2>1 DEF IInv, DriverKept, ClientKept, LateClients, Opens, Arrive
  <2>8. JobsKept'
    <3>1. \A r \in Requests : r # q => JobDriver(r) # JobDriver(q)
      BY DEF JobDriver, Handle
    <3> QED
      BY <2>1, <2>2, <2>3, <3>1 DEF IInv, JobsKept, JobKept, Opens
  <2> QED
    BY <2>4, <2>5, <2>6, <2>7, <2>8 DEF IInv
<1> QED
  BY <1>1, <1>2
-----------------------------------------------------------------------------
(* The steps of lifespan                                                     *)

\* A step that leaves the gateway and the tasks alone, and closes nothing but
\* what it names.
LEMMA LifespanStep ==
  ASSUME IInv, stage' \in Stages, driver' \in BOOLEAN,
         schema' \in {None, "whole", "partial"},
         UNCHANGED lifespanLeaves, failed \subseteq failed',
         \A q \in Requests : task[q].role \in RunningRoles =>
           stage' \in {"serving", "draining"},
         \A h \in open' \ open :
           h \in {Driver, Handle("gds", None), Handle("sqlite", None)},
         DriverKept', ClientKept', LateClients'
  PROVE  IInv'
<1> USE DEF lifespanLeaves
<1>1. Typed'
  BY DEF IInv, Typed
<1>2. TasksSound'
  <2>1. \A q \in Requests : TaskSound(task[q], client, stage')
    BY TaskFacts DEF TaskSound
  <2> QED
    BY <2>1 DEF TasksSound, TaskSound, CallSound, Pending, Answered, KindOf
<1>3. HandlesKnown'
  BY DEF IInv, HandlesKnown
<1>4. JobsKept'
  <2>1. \A q \in Requests : JobDriver(q) \in open' => JobDriver(q) \in open
    BY DEF JobDriver, Driver, Handle
  <2> QED
    BY <2>1 DEF IInv, JobsKept, JobKept
<1> QED
  BY <1>1, <1>2, <1>3, <1>4 DEF IInv

\* No request runs before the worker serves.
LEMMA NobodyRuns ==
  ASSUME IInv, stage \notin {"serving", "draining"}
  PROVE  \A q \in Requests : task[q].role \notin RunningRoles
BY TaskFacts DEF TaskSound

\* The start opens and closes nothing of a task.
LEMMA StartSteps ==
  ASSUME IInv, Connect \/ Verify \/ LoadSchema \/ CreateCheckpointer \/ ConnectGds
  PROVE  IInv'
<1>1. /\ stage \in {"connect", "verify", "schema", "checkpointer", "gds"}
      /\ stage' \in {"verify", "schema", "checkpointer", "gds", "serving", "failed"}
      /\ UNCHANGED lifespanLeaves /\ failed \subseteq failed'
      /\ open \subseteq open' /\ driver \in BOOLEAN
      /\ driver' = driver \/ driver' = TRUE
      /\ schema' \in {schema, "whole", "partial"}
      /\ \A h \in open' \ open :
           h \in {Driver, Handle("gds", None), Handle("sqlite", None)}
  BY DEF Connect, Verify, LoadSchema, CreateCheckpointer, ConnectGds, Goes, Fails,
     Opens, IInv, Typed
<1>2. schema' \in {None, "whole", "partial"} /\ stage' \in Stages /\ driver' \in BOOLEAN
  BY <1>1 DEF IInv, Typed, Stages
<1>3. stage' # "failed" => driver' /\ Driver \in open'
  <2>1. CASE Connect
    BY <2>1 DEF Connect, Opens
  <2>2. CASE Verify \/ LoadSchema \/ CreateCheckpointer \/ ConnectGds
    <3>1. driver /\ Driver \in open /\ driver' = driver
      BY <2>2 DEF IInv, DriverKept, Verify, LoadSchema, CreateCheckpointer, ConnectGds, Goes
    <3> QED
      BY <1>1, <3>1
  <2> QED
    BY <2>1, <2>2
<1>4. DriverKept'
  BY <1>1, <1>3 DEF DriverKept
<1>5. ClientKept' /\ LateClients'
  BY <1>1 DEF IInv, ClientKept, LateClients, Early, Stages, lifespanLeaves
<1> QED
  BY <1>1, <1>2, <1>4, <1>5, NobodyRuns, LifespanStep

\* The worker closes only when no request runs.
LEMMA StopSteps ==
  ASSUME IInv, Stop \/ Drained \/ CloseGds
  PROVE  IInv'
<1>1. /\ stage \in {"serving", "draining", "close_gds"}
      /\ stage' \in {"draining", "close_gds", "close_llm"}
      /\ UNCHANGED lifespanLeaves /\ UNCHANGED <<driver, schema, open, failed>>
  BY DEF Stop, Drained, CloseGds, Goes
<1>2. \A q \in Requests : task[q].role \in RunningRoles => stage' \in {"serving", "draining"}
  BY TaskFacts DEF Stop, Drained, CloseGds, Goes, Running, RunningRoles, TaskSound
<1>3. DriverKept' /\ ClientKept' /\ LateClients'
  BY <1>1 DEF IInv, DriverKept, ClientKept, LateClients, Early, Stages, lifespanLeaves
<1>4. stage' \in Stages /\ driver' \in BOOLEAN /\ schema' \in {None, "whole", "partial"}
  BY <1>1 DEF IInv, Typed, Stages
<1> QED
  BY <1>1, <1>2, <1>3, <1>4, LifespanStep

\* With the client closed, no other is open.
LEMMA CloseLlmStep ==
  ASSUME IInv, CloseLlm
  PROVE  IInv'
<1>1. /\ stage = "close_llm" /\ UNCHANGED lifespanLeaves /\ UNCHANGED <<driver, schema>>
      /\ stage' \in {"close_neo4j", "forget_llm", "failed"}
      /\ failed \subseteq failed' /\ open' \subseteq open
  BY DEF CloseLlm, Goes, Closes, Fails
<1>2. client = Len(makers) /\ client \in {0, 1}
  BY <1>1 DEF IInv, Typed, ClientKept, Early, Stages
<1>3. DriverKept'
  <2>1. driver /\ Driver \in open
    BY <1>1 DEF IInv, DriverKept
  <2>2. Driver \in open'
    BY <2>1 DEF CloseLlm, Closes, Driver, LlmClient, Handle
  <2> QED
    BY <1>1, <2>1, <2>2 DEF DriverKept
<1>4. ClientKept'
  BY <1>1 DEF ClientKept, Early, Stages
<1>5. LateClients'
  <2> SUFFICES ASSUME stage' # "failed"
               PROVE  \A n \in 1 .. Len(makers) : LlmClient(n) \notin open'
    BY <1>1 DEF LateClients, lifespanLeaves
  <2>1. CASE client = 0
    BY <1>2, <2>1
  <2>2. CASE client = 1
    BY <1>1, <1>2, <2>2 DEF CloseLlm, Closes, Goes
  <2> QED
    BY <1>2, <2>1, <2>2
<1>6. stage' \in Stages /\ driver' \in BOOLEAN /\ schema' \in {None, "whole", "partial"}
  BY <1>1 DEF IInv, Typed, Stages
<1>7. \A h \in open' \ open :
         h \in {Driver, Handle("gds", None), Handle("sqlite", None)}
  BY <1>1
<1> QED
  BY <1>1, <1>3, <1>4, <1>5, <1>6, <1>7, NobodyRuns, LifespanStep

\* The gateway has no client: the next call makes one.
LEMMA ForgetLlmStep ==
  ASSUME IInv, ForgetLlm
  PROVE  IInv'
<1>1. /\ stage = "forget_llm" /\ stage' = "close_neo4j" /\ client' = 0
      /\ UNCHANGED <<makers, task, driver, schema, open, failed>>
  BY DEF ForgetLlm, Goes
<1>2. Typed'
  <2>1. Len(makers) \in Nat
    BY DEF IInv, Typed
  <2> QED
    BY <1>1, <2>1 DEF IInv, Typed, Stages
<1>3. TasksSound'
  <2>1. \A q \in Requests : task[q].role \notin RunningRoles
    BY <1>1, NobodyRuns
  <2>2. \A q \in Requests : TaskSound(task[q], 0, "close_neo4j")
    BY <2>1, TaskFacts DEF TaskSound, CallSound, RunningRoles
  <2> QED
    BY <1>1, <2>2 DEF TasksSound, TaskSound, CallSound, Pending, Answered, KindOf
<1>4. HandlesKnown' /\ JobsKept'
  BY <1>1 DEF IInv, HandlesKnown, JobsKept, JobKept
<1>5. DriverKept' /\ ClientKept' /\ LateClients'
  BY <1>1 DEF IInv, DriverKept, ClientKept, LateClients, Early
<1> QED
  BY <1>2, <1>3, <1>4, <1>5 DEF IInv

\* The driver is closed and forgotten.
LEMMA CloseNeo4jSteps ==
  ASSUME IInv, CloseNeo4j \/ ForgetNeo4j
  PROVE  IInv'
<1>1. /\ stage \in {"close_neo4j", "forget_neo4j"}
      /\ stage' \in {"forget_neo4j", "stopped", "failed"}
      /\ UNCHANGED lifespanLeaves /\ failed \subseteq failed' /\ open' \subseteq open
      /\ UNCHANGED schema /\ driver' \in BOOLEAN
  BY DEF CloseNeo4j, ForgetNeo4j, Goes, Closes, Fails, IInv, Typed
<1>2. DriverKept'
  <2>1. stage' # "failed" => Driver \notin open'
    BY DEF CloseNeo4j, ForgetNeo4j, Goes, Closes, IInv, DriverKept
  <2> QED
    BY <1>1, <2>1 DEF DriverKept
<1>3. ClientKept' /\ LateClients'
  BY <1>1 DEF IInv, ClientKept, LateClients, Early, lifespanLeaves
<1>4. stage' \in Stages /\ schema' \in {None, "whole", "partial"}
  BY <1>1 DEF IInv, Typed, Stages
<1>5. \A h \in open' \ open :
         h \in {Driver, Handle("gds", None), Handle("sqlite", None)}
  BY <1>1
<1> QED
  BY <1>1, <1>2, <1>3, <1>4, <1>5, NobodyRuns, LifespanStep

-----------------------------------------------------------------------------

\* Every step keeps the invariant.
LEMMA Inductive == IInv /\ [Next]_vars => IInv'
<1> SUFFICES ASSUME IInv, [Next]_vars PROVE IInv'
  OBVIOUS
<1>1. CASE Lifespan \/ Stop
  BY <1>1, StartSteps, StopSteps, CloseLlmStep, ForgetLlmStep, CloseNeo4jSteps DEF Lifespan
<1>2. ASSUME NEW q \in Requests, Works(q) PROVE IInv'
  BY <1>2, SendStep, AnswerStep, TimeOutStep, RespondStep, ConnectJobStep, FinishJobStep,
     CloseJobStep DEF Works
<1>3. ASSUME NEW q \in Requests, NEW kind \in Kinds, Arrive(q, kind) PROVE IInv'
  BY <1>3, ArriveStep, WorkerAssumption
<1>4. ASSUME NEW q \in Requests, NEW c \in Calls, Begin(q, c) PROVE IInv'
  BY <1>4, BeginStep
<1>5. CASE UNCHANGED vars
  BY <1>5 DEF vars, IInv, Typed, TasksSound, TaskSound, CallSound, Pending, Answered, KindOf,
     HandlesKnown, DriverKept, ClientKept, LateClients, JobsKept, JobKept
<1> QED
  BY <1>1, <1>2, <1>3, <1>4, <1>5 DEF Next

\* The invariant gives each part of WorkerSound.
LEMMA Implies == IInv => WorkerSound
<1> SUFFICES ASSUME IInv PROVE WorkerSound
  OBVIOUS
<1>1. TypeOK
  <2>1. \A q \in Requests : \/ task[q].call = NoCall
                            \/ task[q].call \in CallRecord /\ Len(task[q].call.tried) <= 2
    BY TaskFacts DEF TaskSound, CallSound
  <2> QED
    BY <2>1 DEF IInv, Typed, TypeOK
<1>2. OneClient
  <2> SUFFICES ASSUME stage \in Serving, NEW n \in DOMAIN makers PROVE n = client
    BY DEF OneClient
  <2>1. client = Len(makers) /\ Len(makers) <= 1
    BY DEF IInv, ClientKept, Early, Serving, Stages
  <2>2. n \in 1 .. Len(makers) /\ Len(makers) \in Nat
    BY DEF IInv, Typed
  <2> QED
    BY <2>1, <2>2
<1>3. RequestsServed
  <2> SUFFICES ASSUME NEW q \in Requests, Running(q)
               PROVE  /\ driver /\ Driver \in open
                      /\ Calling(q) => task[q].call.with \in open \cup {None}
                      /\ task[q].call.of # None => task[q].call.told # "DatabaseConnectionError"
    BY DEF RequestsServed
  <2>1. /\ task[q].role \in RunningRoles /\ stage \in {"serving", "draining"}
        /\ driver /\ Driver \in open
    BY TaskFacts DEF Running, RunningRoles, TaskSound
  <2>2. client # 0 => LlmClient(client) \in open
    <3>1. client = Len(makers) /\ Len(makers) <= 1 /\ (client = 1 => LlmClient(1) \in open)
      BY <2>1 DEF IInv, ClientKept, Early, Stages
    <3>2. client \in Nat
      BY DEF IInv, Typed
    <3>3. client # 0 => client = 1
      BY <3>1, <3>2
    <3> QED
      BY <3>1, <3>3
  <2>3. task[q].call.of # None => CallSound(task[q], client) /\ task[q].role = "question"
    BY <2>1, TaskFacts DEF TaskSound, CallSound, NoCall, RunningRoles
  <2> QED
    BY <2>1, <2>2, <2>3 DEF CallSound, Calling
<1>4. StopsClean
  <2> SUFFICES ASSUME stage = "stopped", NEW h \in open
               PROVE  \/ h.of \in {"gds", "sqlite"}
                      \/ h.of = "job" /\ {Handle("connect", h.n), Handle("close", h.n)}
                                           \cap failed # {}
                      \/ /\ h.of = "llm" /\ makers[h.n].role = "learner"
                         /\ makers[h.n].at \notin Serving
    BY DEF StopsClean
  <2>1. h # Driver
    BY DEF IInv, DriverKept
  <2>2. CASE h \in {Handle("gds", None), Handle("sqlite", None)}
    BY <2>2 DEF Handle
  <2>3. ASSUME NEW q \in Requests, h = JobDriver(q)
        PROVE  h.of = "job" /\ {Handle("connect", h.n), Handle("close", h.n)} \cap failed # {}
    <3>1. task[q].role \notin RunningRoles
      BY NobodyRuns
    <3> QED
      BY <2>3, <3>1 DEF IInv, JobsKept, JobKept, JobDriver, Handle, RunningRoles
  <2>4. ASSUME NEW n \in 1 .. Len(makers), h = LlmClient(n)
        PROVE  h.of = "llm" /\ makers[h.n].role = "learner" /\ makers[h.n].at \notin Serving
    <3>1. h.of = "llm" /\ h.n = n
      BY <2>4 DEF LlmClient, Handle
    <3> QED
      BY <2>4, <3>1 DEF IInv, LateClients
  <2> QED
    BY <2>1, <2>2, <2>3, <2>4 DEF IInv, HandlesKnown
<1>5. FallbackSound
  <2> SUFFICES ASSUME NEW q \in Requests, task[q].call.of # None, task[q].call.told # None,
                      AllCalls[task[q].call.of].to = "llm"
               PROVE  LET call == task[q].call
                          last == Len(call.tried)
                          llm == AllCalls[call.of]
                      IN /\ \A i \in 1 .. last - 1 : call.tried[i] \notin {"answer", "filter"}
                         /\ call.told = "ok" <=> call.tried[last] = "answer"
                         /\ call.of # "embed" =>
                              (call.told = "LLMContentFilterError" <=> call.tried[last] = "filter")
                         /\ llm.fallsBack /\ call.told \notin {"ok", "LLMContentFilterError"} =>
                              last = 2
    BY DEF FallbackSound
  <2>1. Answered(task[q].call)
    BY TaskFacts DEF TaskSound, CallSound, NoCall, Pending
  <2> QED
    BY <2>1 DEF Answered, KindOf
<1> QED
  BY <1>1, <1>2, <1>3, <1>4, <1>5 DEF WorkerSound

\* At every moment: one client of the LLM serves all tasks; requests never
\* meet something closed; a clean stop leaves nothing open but what no code
\* closes; a call that falls back tells what its models answered.
THEOREM WorkerIsSound == Spec => []WorkerSound
<1>1. Spec => []IInv
  BY InitIInv, Inductive, PTL DEF Spec
<1> QED
  BY <1>1, Implies, PTL
=============================================================================
