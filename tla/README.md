# Verification of graph-rag

A TLA+ model of the server in `src/`: a FastAPI application that answers
questions over a Neo4j graph with LLM calls, lets administrators edit the graph
and an ontology, learns ontology terms from the questions, ingests files,
computes communities and decides who may see what; and of the scripts that fill
its graph. The modules model the parts in which several actors work on shared
state, or in which a rule has to hold for every input; TLC checks them on small
instances and TLAPS proves the main results for every instance.

## Inventory

| Part | State | Operations | Hard behaviour | Correct when |
|---|---|---|---|---|
| Ontology proposals (`services/ontology_service.py`, `repositories/neo4j_ontology_proposal_repository.py`, `graph/nodes/ontology_learner.py`, `graph/nodes/ontology_update_handler.py`) | `OntologyProposal` rows with status and version | approve, reject, edit, create, batches, learn, automatic approval, chat request | requests interleave between database calls; a call fails after it landed; a handler stops half way | a decision is final and has one winner; the reviewer approves what was shown; the daily limit holds |
| Applying proposals (`apply_proposal_to_ontology`, `neo4j_ontology_concept_repository.py`) and the migration of the YAML files (`scripts/migrate_ontology.py`) | concepts and relations in Neo4j | create concept, add synonym, add relation; five statements of the migration | two kinds of writer with two ideas of a name; several statements, each of which may fail; a migration that is cut off | nothing that is stored is lost; what was applied is linked; what was migrated is whole |
| Ontology loading (`domain/ontology/*`, `graph/nodes/concept_expander.py`) | loaders, their caches, the registry | load, expand, refresh | three queries of one expansion while the graph changes; refresh against running expansions | an expansion names only related terms, within its limits; a refresh reaches every reader |
| Question pipeline (`graph/pipeline.py`, `graph/nodes/*`) | `GraphRAGState` of a run, checkpoint of a session | ten nodes, five routers, run, stream | state that survives a question; timeouts; the correction loop; concurrent questions | a question is answered with its own data, and is answered at all |
| Query correction (`domain/cypher/*`, `cypher_generator.py`) | none | five corrections of query and parameters | rewritings one after the other, of text that a model wrote | the corrected query filters what was meant, and correcting it again changes nothing |
| Query cache (`query_cache_repository.py`) | cached queries | find, keep, delete | shared by all sessions and users, expiry | a query is kept for its own question, and tells no user what a role denies |
| Access control (`auth/*`, `services/auth_service.py`, `dependencies.py`, `graph_executor.py`) | users, roles, tokens; policies of roles | create, update, assign, log in, refresh, authenticate; merge, filter | tokens that outlive a role; a call that reads the user and writes later; several roles with different rules | requests act on recent roles; nothing denied is told; a further role takes nothing away |
| Ingestion (`api/job_store.py`, `api/routes/ingest.py`, `ingestion/*`) | jobs in memory, files, graph | upload, start, extract, save | jobs on one file, failing batches | a completed job's data is in the graph; the graph keeps to the schema |
| Communities (`community_batch_service.py`, `gds_service.py`, `routes/analytics.py`) | lock, projections, `SIMILAR`, `communityId`, `CommunityMeta` | refresh, create/drop projection, detect | thread pool of two, endpoints without the lock | `CommunityMeta` describes the communities; refreshes never harm each other |
| Graph editing (`graph_edit_service.py`, `neo4j_graph_crud_repository.py`) | nodes and edges | create, rename, delete, connect | check in one statement, write in another | names stay unique, edges stay valid, none is lost |
| Worker (`main.py`, `infrastructure/llm/gateway.py`, `application/llm/*`, `infrastructure/neo4j_client.py`) | LLM client, drivers, connections | start, stop, call with fallback | lazily shared client; tasks that outlive their request; a start or stop that fails half way | one client; nothing is closed that a request uses; the fallback tells the truth |
| Schema bootstrap (`bootstrap/*`, `scripts/extract_triples.py`, `normalize_relations.py`, `bulk_load_triples.py`) | triples files, graph | extract, normalize, load, convert names | concurrent batches, chunks, kills in the middle of a file, failing batches of a load | every fact was told by the LLM of its document; a load without errors is complete; names are fixed points |
| Reading repositories, staffing, explanations, visualization, frontend, other scripts | none that outlives a call | queries, formatting | — | — |

The parts interact by calls within one asyncio loop and through Neo4j: the
pipeline's resolver reports unresolved terms, `run()` hands them to the learner
as a background task, the learner writes proposals, administrators decide them,
approval changes the concepts and refreshes the loaders, and the loaders feed the
pipeline's expander. Graph edits and ingestion change the data the cached
queries read; a user's roles filter what a query tells. Every one of these calls
goes through the worker's LLM client and driver.

## Modules

Three conventions hold in all modules. One database call — one Cypher
statement, one GDS procedure — is one atomic step, and any other actor may step
between two of them; that is how asyncio and several server processes
interleave. A request is a *task* (or question, or job) used once, so the size
of that set bounds the number of requests and nothing else does. A database call
that fails may or may not have had its effect: where the two differ, "landed
and failed" is the effect followed by a failure step.

Variables marked *observed* in a module are read by properties only. Definitions
with `Mutant` in their names are faulty versions of the definition that
follows them: each property is tried against one or more, to be sure that it would
notice such a bug. A property that TLC checks may be a conjunction of named parts
(`WorkerSound == TypeOK /\ OneClient /\ …`); each part is stated and commented on
its own, and has a mutant of its own.

| Module | Models | Depends on |
|---|---|---|
| `OntologyProposals` | every writer of an `OntologyProposal` row | `ProposalReview` |
| `ProposalReview` | abstract: a ledger in which proposals are decided once | |
| `YamlOntology` | the YAML files: canonical names, synonyms, children, expansion, as pure operators | |
| `ConceptGraph` | the concept nodes and their two writers | `YamlOntology` |
| `OntologyReaders` | expansions by the three loaders, and the registry that refreshes them | `ConceptGraph` |
| `QuerySession` | the question pipeline, its checkpoints and the query cache | |
| `CypherCorrections` | the corrections of a query and its parameters, as pure operators | |
| `SessionCorrections` | questions whose queries have gone through the corrections | `QuerySession`, `CypherCorrections` |
| `AccessPolicy` | policies, their merge and the filter of rows, as pure operators | |
| `AccessControl` | users, tokens, requests, and what they are told | `AccessPolicy` |
| `IngestJobs` | uploads, jobs, batches and the transactions that save them | |
| `GraphEdit` | editing of nodes and edges | |
| `CommunityRefresh` | community refresh, its lock and thread pool, the projection endpoints | |
| `BootstrapNames` | the conversions of names, as pure operators | |
| `Bootstrap` | the three scripts with their files | `BootstrapNames` |
| `ApiWorker` | a worker's start, calls and stop | |
| `…Proofs` | theorems about `OntologyProposals`, `ConceptGraph` (and `OntologyReaders`), `AccessControl`, `ApiWorker`, `QuerySession` (and `SessionCorrections`), `IngestJobs`, `CommunityRefresh` | the module of that name, or the one that composes it |
| `EntityGraphProofs` | theorems about the two that write the graph of entities | `Bootstrap`, `GraphEdit` |
| `MC…` | instances of the above for TLC | |

### OntologyProposals

`proposal` holds the rows; `status`, `version`, `key` (lower-cased term and
category), `content` (type, parent, canonical), `frequency`, `trusted`
(confidence at or above `auto_approve_confidence`), `day` (the date of an
automatic approval) and `applied` (`applied_at`) are the fields some handler
compares. A request carries the row its page showed in `seen`; its version is
the `expected_version` of the request.

| Action | Code |
|---|---|
| `Submit`, `Create`, `Batch` | the admin endpoints; the two batches are one statement each |
| `Read` | `get_proposal` and the checks of `approve_proposal`, `reject_proposal`, `update_proposal` |
| `UpdateWithVersion` | `update_proposal_with_version`: writes if the version is still the expected one |
| `Apply`, `MarkApplied` | `apply_proposal_to_ontology` (a success or a failure), then `applied_at` |
| `CountTerm`, `SaveExisting`, `SaveNew`, `NoAnalysis` | the learner: find a similar proposal and count it, or analyse the term and save one, which may merge into a row stored meanwhile |
| `TryAutoApprove` | `_check_and_auto_approve`: the daily limit is looked at by the statement that approves |
| `Chat` | `ontology_update_handler`: save, approve and apply, or save a proposal the LLM is unsure about |
| `Stop` | the handler ends by an error after its last statement |
| `Midnight` | the database's `date()` changes |

A day is a number up to `MaxDay`. The statements of an application are in
`ConceptGraph`.

### YamlOntology, ConceptGraph, OntologyReaders

`YamlOntology` gives what `domain/ontology/loader.py` answers from the entries of
`synonyms.yaml` and the tree of `schema.yaml`, in the order of the files, because the first
match decides in one method and the last in another. An expansion is given as the set it is read as
(`YamlExpand`): which names the total leaves in it depends on their order, their order in it does not matter.

In `ConceptGraph` a concept is a node with a name and a type; `concept` gives its
`is_canonical` and source, `edges` the four kinds of relation. `Begin`, `Check`,
`CreateConcept`, `Relate`, `Stop` are `apply_proposal_to_ontology`, whose calls follow from
the proposal (`Plan`); `Created` is `create_or_get_concept`, which finds names in any
case; `Linked` a `create_…_relation`, which relates *all* nodes that match.
`StartMigration` to `MigrateHierarchy` are the statements of
`scripts/migrate_ontology.py`, which merge on name *and* type, and `FailMigration`
one that is cut off.

In `OntologyReaders` an expansion asks three queries one by one (`FindCanonical`,
`FindSynonyms`, `FindChildren`; `FindGroup` where the term is no canonical name), with
`AskYaml` the part of the hybrid loader that goes back to the files. Each of the graph's
queries may fail and is then answered with what the loader answers an error with; such failures
are not counted. `Relatives` says which names a question may be answered with from the
graph: the synonym steps are those of the queries, each of which may see a graph the one before
did not. The files give some names two meanings (`Clear` leaves them out of the properties
of canonical names): two entries have the alias "TF", and "AI/ML" is known only in the case
it is written in. `EditFiles` is an operator who changes the YAML files while the server runs;
`Refresh` is `OntologyRegistry.refresh` under its lock after an application. At most three
`OntologyLoader` instances can be told apart (`Instances`): the pipeline's, the registry's
and a new one. A reader asks again and again, as the pipeline does; `version` (observed) is the edit
of the files its answer came from, `since` (observed) the edit that was renewed when it started.

### QuerySession

`state[q]` is the `GraphRAGState` of the run of question q, `saved` the
checkpoint of each session, `cache` the cached Cypher queries. What matters is
*whose* a value is: a query is `[by, names]` — who generated it and whose
entities it asks for — and responses and errors are tagged the same way. `Ask` is the
start of `run()` and of the streamed run (`Fresh` is the reset of the fields
that `run()` passes in); the ten actions after it are the ten nodes with every branch
of their code that changes the state, including the caught failures;
`TimeOut` is `asyncio.wait_for` around a node, `Abort` a run that ends by an
exception. `Route…` are the five routers. `Tell` and `Finish` are what `run()` and the stream
tell the client. The text of questions, chat history, query plan and scores
are left out.

### CypherCorrections

A query is a sequence of lines; a line that filters holds one condition with the features
the regular expressions look at: the keyword before it, where `NOT` stands, whether
`toLower` is there, property, parameter and form. `FixNotInSyntax`,
`FixInClauseToToLower`, `FixAggregationTypeA`, `CorrectParameters` (names corrected by the
entities of the question) and `CoerceToLowerParams` are the five corrections,
`ApplyCorrections` their order in `cypher_generator.py`. What a condition means is given
separately: `Passes` is how Neo4j evaluates it (`toLower(x.name) IN $p` lowers the name and
not the items), `Intended` what it asks for: `x.name IN $p` without
regard to case, every other condition as it is written. `KeepsLines` and `KeepsValue` compare the
corrected query with the one that was written, all of its lines, also those that are cut off.

`SessionCorrections` keeps beside each question of `QuerySession` the text of the last query
generated for it: what the LLM wrote, the names it was corrected with, and what came of it.
The LLM writes a query of its own, or once more one that it is shown, which has been corrected
before: the one that failed, or the one that names unknown properties (`Answers`).
`CorrectionsSound` is asked of the query a run executes — of its own, of the cache, after a retry —
through whoever generated it. `WrittenAssumption` is what may be written
(`Lines`, `Spelled`): any number of lines of these kinds.

### AccessPolicy, AccessControl

`AccessPolicy` translates `auth/access_policy.py` and the filter of
`graph_executor.py`: `AllowedProps`, `AllowedRels`, `MergedScope` … are the merge of
several roles' rules, `ApplyAccessPolicy` drops and trims rows, `FilteredSchema` is what a
role's prompt tells of the schema. As in the code, only the columns of a row are looked at:
a list, a path or a map is one `nested` value that passes as it is, like a single value.

`AccessControl` has the users as `UserRepository` keeps them, tokens as they were
issued, calls of `AuthService` that read the user and go on later (`Login`,
`Refresh`, then `Issue`; `CreateCheck`, then `CreateWrite`), administration in
one statement each (`UpdateUser`, `AssignRole`, `RemoveRole`, `SeedAdmin`), and requests:
`Authenticate` (`get_current_user`), `Demonstrate` (the demo roles of a server without
authentication), `Write` (the generator makes a statement or takes the cached one),
`Execute` (the executor with the filter). `Tick` is the clock that lifetimes are compared with.

### IngestJobs

`file` is the upload directory, `job` the `JobStore`, `pc` and `work` the
background task of a job, `graph` the nodes and edges in Neo4j. `Upload`,
`Ingest`, `Start`, `ReadBatch`, `SaveNodes` (one transaction for each label),
`SaveEdges` (one for each type), `Complete`, `NotFound`, `Fail`, `Restart` and
the administrator's `DeleteNode` are the actions. `Extracted` is what
`GraphExtractor.extract` keeps of an LLM reply — ids are computed by `EntityId`
from the strong identifier or the name, edges keep to the schema and to nodes of
the document —, `NoGraph` what it returns when the LLM fails. The
documents of a batch are extracted concurrently under a semaphore, but nothing
leaves the job before all are done: one step.

### GraphEdit

`node` and `edges` are the graph; Neo4j gives the id of a deleted node out
again, so `Create` takes any free id. `pc`, `ask`, `found` are a request, what
it asks for and the copies it has read. `CheckDuplicate` then
`Create`/`CreateNothing` are `create_node` (an early check, then a statement
that looks again); `FindRenamed`, `CheckRename`, `Rename` are `update_node` with
a name; `Delete` is `delete_node_atomic`; `FindEnd` twice, then
`MergeEdge`/`RefuseEdge`, are `create_edge`; `DeleteEdge` and `Fail` the rest.
Properties other than the name and the impact analysis are left out.

### CommunityRefresh

A request of kind *refresh* runs the jobs cleanup, create, detect, save, drop in
turn (`Refresh`, `After`), holding `lock`; the endpoints of `routes/analytics.py`
run one or more of the jobs in the order of their handlers, without the lock. A job waits for one of `Workers` threads (`Begin`)
and makes its GDS calls one by one. `graph` tells for each projection whose
similarities it was made of, `similar` who wrote the `SIMILAR` relationships,
`ids` who wrote `communityId` and from whose similarities, `meta` which refresh
`CommunityMeta` tells of. `CallFails` is the failure of the call a
request is about to make, with the error handling of that place; `Look` and `Details` are the two calls that tell of
a projection, which may vanish in between; `Restart` ends all open requests and leaves
the database, with its projections, as it is. The order of the two
drops inside `_cleanup_projections` is left open; a request is never cancelled by its client.

### BootstrapNames, Bootstrap

`BootstrapNames` converts names that are sequences of kinds of characters (`a`, `A`, a
letter without case, a digit, another character), as `bootstrap/utils.py` does with
regular expressions. What an expression finds one after the other is given by the *places* it
finds: `Picked(s, T)` is the sequence of what s has at the places T, in their order.

In `Bootstrap` the three scripts share `triples` and `normalized`, the two files, each of which is torn
(`Torn`) between the step that opens it for writing and the one that has written it.
`NextBatch`, `Extract`, `ExtractFails`, `CutChunk` are the extractor (documents of a batch
answer in any order), `Group`, `GroupFails`, `NormalizeTriple` the normalizer, `LoadNodes` and
`LoadRelations` the batches of the load, each merged or not and reported or not (`Outcome`):
entities once for all spellings of a name (`Entities`), then relation by relation
(`RelationGroups`) in batches of each (`Batch`, `Rest`). `entity` and `rel` are the nodes and
relationships in Neo4j, `heard` (observed) what the LLM has told of a document so far.
`Kill` ends a script at any step. Reading a file that is not `Readable` stops a script at once.

### ApiWorker

`stage` is where `lifespan` is, `open` what is open at other systems (`Handle`s of the LLM
clients, the driver, the drivers of jobs, the GDS client and the SQLite file), `task[q]`
the request or background task with its present call. `Connect`, `Verify`, `LoadSchema`,
`CreateCheckpointer`, `ConnectGds` start the worker; `Stop`, `Drained`, `CloseGds`, `CloseLlm`,
`ForgetLlm`, `CloseNeo4j`, `ForgetNeo4j` stop it. `Begin`, `Send`, `Answer`, `TimeOut` are a
call: `GetClient` is the lazy creation, `Settled` the fallback from the heavy to the light
deployment, and the tables `Generate` … `HealthCheck` say what each kind of call makes of each
outcome. `Respond` may leave a learning task behind; `Arrive`, `ConnectJob`, `FinishJob`,
`CloseJob` are the client of an ingestion.

## What the runs check

| Run | Instance | Distinct states | Shows |
|---|---|---|---|
| `ProposalsAll` | 2 requests of any of 9 kinds, 1 stored and 1 new row, 1 failed call | 73,370 | one final decision with one winner that was told the truth (`OneWinner`, `DecisionFinal`); the reviewer approves what was shown (`ApprovedAsSeen`); only approved proposals are applied, and the inductive invariant (`Inv`); every step is a step of `ProposalReview` (`ImplementsReview`) |
| `ProposalsLearner` | 3 requests that learn or reject, 2 stored rows and a new one, limit 1 a day, midnight, 1 failed call | 684,008 | the daily limit holds (`WithinDailyLimit`) and automatic approvals had the frequency (`AutoApprovedOften`) |
| `ConceptsAll` | 2 requests that apply one of 2 proposals, 5 names (two of them differing in case), 2 runs of the migration, 1 failed call, 1 expansion of one of 2 terms in yaml or hybrid mode, 1 edit of the files, expansions again and again | 1,544,158 | approvals and the migration keep names apart and complete (`ConceptsSound`: one concept per name made by proposals, an alias alone has a cause, what was migrated is stored), an applied proposal is linked (`AppliedIsLinked`), nothing is lost (`ConceptsKept`), an expansion has only related terms, within the limits, and falls back to the files when the graph knows nothing and is as new as the mode allows (`ReadsSound`), the migrated graph and the files agree on canonical names (`CanonicalSteady`) |
| `SessionConcurrent` | 2 streamed questions of one session, also at the same time, 1 retry, every failure and timeout; a written query of 12 lines with conditions of every kind that aggregates and matches again, and texts that differ in case, contain each other or are numbers | 2,111,613 | errors, feedback, retries and streamed answer (`FreshTurn`), executed and cached query (`OwnQueries`) are the question's own; the query a run executes was corrected with the names it was generated for, asks for what the LLM asked for up to the lines that are cut, and is settled (`CorrectionsSound`) |
| `SessionLive` | 2 questions in turn through `run()`, 2 retries | 182,567 | every question ends (`Answering`); rows told were read by the run itself (`OwnRows`) |
| `access_all` | 2 users whose names differ in case, 5 role names in two spellings, 2 edits, 3 tokens, 1 call at a time, 2 requests over 1 cached question and 2 statements of 9 kinds of row, clock to 2 | 344,145 | tokens and requests have roles that were held when they were read, within their lifetimes (`RolesRecent`); the nodes and relationships that are columns of what is told are granted by a role of the request, other columns are told as they are (`ColumnsAreGranted`); these nodes and relationships are in the role's schema and the user's department (`ToldWithinLimits`); several roles give what each of them gives (`RolesAddUp`), and a further role takes nothing away (`RoleGainKeeps`) |
| `IngestAll` | 2 jobs over 2 files of 3 and 1 rows, batches of 2, a deletion, failures, a restart | 34,502 | what a completed job extracted is in the graph (`CompletedIsStored`); edges keep to the schema (`GraphSound`); a file is missing only if shared, and does not stay (`FilesKeptWhileNeeded`); every job ends (`JobsEnd`) |
| `GraphEditAll` | 3 requests of any kind, 3 ids, 2 labels, names a, A, b | 506,886 | twins come from renames only (`TwinsOnlyByRename`), and never without a race (`NamesUniqueInTurn`); edges are valid, refusals justified, copies sound (`Inv`); no edge is lost without force (`EdgesLostOnlyByForce`) |
| `RefreshAll` | a refresh; a refresh or a create; a request of any kind; 2 threads; 1 failed call or restart | 1,658,566 | refreshes do not disturb each other, and the status is of an earlier refresh than the communities only while the later one is on its way or after it has failed or was killed (`RefreshesApart`), clean up (`RefreshCleansUp`, `NoBipartiteLeft`); every request ends (`RequestsEnd`) |
| `bootstrap` | 2 documents, one longer than a chunk, 3 replies of the LLM with all that may be wrong with one, both documents in one extraction batch, load batches of 2 over names of which two differ in case, 1 fault or kill, extraction and load run twice | 1,651,508 | every fact in a file or in the graph was told of the document it names, in any interleaving and after a kill (`FactsAreTold`); a load without errors is complete (`LoadIsComplete`); converted names are fixed points and valid types, and no type stored in the graph would be converted again (`NamesSettle`) |
| `bootstrap_chunks` | the same, extraction only, weak fairness | violation | the extraction of a document longer than a chunk never ends (`ExtractionEnds`) |
| `worker` | 2 requests (question or ingestion), 6 kinds of call, 6 outcomes, 1 call a task, 2 LLM clients, 1 failed step | 288,526 | one LLM client, nothing closed that a request uses, nothing left open that the code closes, a sound fallback (`WorkerSound`); a worker told to stop stops (`StopEnds`) |

Why these bounds are enough to be interesting: every property, and every part of
a property, is broken by at
least one plausible bug within the same bounds (the mutants in `PROJECT.json`).
Two requests are the fewest that race; three are needed for the daily
limit (two learners that both see room and a third row), for twins made by a
create, a rename and a deletion, and for a refresh between two others. One row
that is shared and one that may be created meanwhile give all merges. Batches of
two over three rows give a full and a smaller batch, and the skill of the first
batch is met again in the second. Names a and A, Kim and kim, ML and ml differ in case only. One
failure puts an error at every place of every interleaving once. The ontology of
`ConceptsAll` has a skill whose entry has another canonical name that is also a
subcategory, and a skill without an entry: one of each kind of row the migration writes. In
`access_all` one reading statement has a row for each way a rule can decide — a relationship
with and without a rule, a node of two labels, a department that is another one, a person
without one. A document of six characters with chunks of four that overlap by two has two
chunks; a second run of a load meets what the first left. No run has a pipeline without an ontology service
(`HandlerOn`); the theorems of `QuerySessionProofs` hold with and without one. All nine kinds
of proposal request with three requests are out of TLC's reach; what TLC does
not reach there the proofs cover.

Symmetry is used on interchangeable tasks, ids and questions, and only in runs
without liveness properties.

`CHECK_DEADLOCK FALSE` is set where all requests may have been used or a
stopped program does nothing more (`GraphEditAll`, `RefreshAll`, `ConceptsAll`, `access_all`,
`bootstrap`, `bootstrap_chunks`, `worker`); the other modules have a `Rest` step that is
enabled only when everything has ended, so that TLC also checks that nobody is
stuck before.

### Fairness

* `QuerySession`: weak fairness of the node steps. Every node runs under
  `asyncio.wait_for` (30, 15 or 10 seconds), so a started node ends. Asking and
  aborting are not fair.
* `IngestJobs`: weak fairness of the steps of a job's task. LLM calls and
  transactions have timeouts of their own. Uploads, requests, deletions,
  failures and restarts are not fair.
* `CommunityRefresh`: weak fairness of each request's steps: a database call comes back
  or fails, and a thread of the pool that is free takes a waiting job. Asking,
  failing and restarting are not fair.
* `ApiWorker`: weak fairness of `lifespan` and of what each task does when only its own
  calls keep it waiting: the LLM client and the nodes have timeouts, a statement is
  bounded by its node or transaction. Beginning a call, sending a request and stopping the worker are not fair.
* `Bootstrap` (only for `bootstrap_chunks`): weak fairness of the extraction script, which
  does not wait for anybody. The loop goes on for ever under it; the run has no faults.

## What is proved

The proofs hold for every value of the constants that fulfils the modules' assumptions,
so for any number of requests, rows, nodes, labels, users, questions, files and names. TLC
evaluates the assumptions on every run that uses their modules. `PROJECT.json` lists the
results; each names the property a run checks, where there is one.

**`OntologyProposalsProofs`** (from `ConstantsAssumption` and the assumption that the
requests of an instance are among the known kinds). The wanted properties are not
inductive: a handler decides on the strength of a row it read earlier. The
strengthening, `HandlersInformed`, says what such a copy is worth: its version is
not ahead of the stored one, and *as long as the versions agree* status, key and
content agree too; a handler about to decide holds a copy that was pending. The
key lemma is that every write to a row obeys one rule — a change of status,
key or content raises the version — so that a write which compares the version
(`UpdateWithVersion`, `TryAutoApprove`) decides on the row as it was read. From
the invariant (`Invariance`): `DecisionsAreFinal` (no step changes a decided status),
`AnswersAreTrue` (one winner, and what it was told stays true),
`ApprovesWhatWasSeen`, `AppliesOnlyApproved`, `TypeCorrect`.

Three results are about the learner and the ledger. `ApprovesOftenMetTerms`: a learner that is
about to approve holds a frequency the row has reached, or misses a count that failed
(`Tallied`), and no row loses what it has been counted (`Earned`). `Refinement`: what a write
does to a row's status, day and `applied` is first matched with the steps of `ProposalReview`
(`LedgerActions`), then every action is shown to do one of these or nothing under the invariant
(`LedgerStep`); that a decision finds its proposal pending is where the versions are needed.
`DailyLimitHolds` follows from the refinement: of the steps of the ledger only `AutoApprove`
adds to the approvals of a day, one to a finite set with room for it (`Limited`).

**`EntityGraphProofs`** on `GraphEdit` (from `ConstantsAssumption` and `GraphAssumption`: the graph at
the start keeps to the schema and has no twins). That edges keep to the schema is not inductive, because
`create_edge` writes on the strength of labels it read one and two calls
earlier. The strengthening `CopiesSound` says that a copy tells the label of its node as long as
the id was not freed; it is kept because no operation changes a label
(`NodesStay`). For refusals, `Met` says that a request whose name is on a node now has
met it. `CreatesMakeNoTwins` needs no strengthening: the statement that creates
looks for the name, so a create cannot complete a pair. For `NamesStayUniqueInTurn` it does:
as long as no two requests have overlapped, at most one is open, its copy is the node
as it is, and a rename that has passed its check has met no other node of the name (`InTurn`,
`Cleared`). `NoEdgeIsLost` is an
action property and follows from the types alone: the statement that deletes
counts the edges itself.

The same module on `Bootstrap` (from `LengthAssumption`, `ChunkAssumption` and
`RepliesAssumption`: the LLM's replies are lists of triples of any texts and numbers, batches
are not empty). First names: `PickedIs` says what a sequence has at some places (as many as
there are, in their order), and each conversion is such a picking, so that what it does to a name of *any* length
is seen at its places. A type has no underscore at its ends and none beside another
(`TypesAreSpaced`), and therefore loses nothing when it is cleaned again (`TypeStays`);
`NamesConvertOnce` puts the four claims together. The wanted invariants of the scripts are not inductive, because a fact that reaches the graph
has passed through a reply, a result under way, a file, a second script, another file, and the
loader's groups and batches. `BootstrapHolds` follows it there: a result under way holds facts
heard of the document its number means *in the list of this run* (`ExtractHolds`), a file's row is
one that was heard and whose relation is one of those its fact's may come to
(`NormalizeHolds`, `FilesHold`), the loader's groups hold such rows under their type
(`LoadHolds`), and each relationship owes its confidence and its text to something that was heard (`GraphHolds`).
In the other direction `LoadComes` says of each row of a load that has met no error
that it is in the graph, at least as confident, or in a group still to come
(`RowComes`), and of its names that they have a node or are in a batch still to come
(`NameComes`); it holds at the start because the entities and the groups that are made of a
file leave none of its rows out (`EntitiesIs`, `RelationGroupsIs`), and a batch with what it leaves is all
there was (`BatchRest`, `GroupsAfterIs`). One lemma for each step, `Undisturbed` for what a step leaves alone. From it
`FactsStayTold`, `LoadsAreComplete`, `NamesStaySettled`, and the action property `StoredFactsStay`: what
one load has stored outlives every other, and a relationship keeps its first text and its highest confidence.

**`ConceptGraphProofs`** (from `ConceptAssumption`, `FilesAssumption`, `ReaderAssumption` and
`ListsAssumption`). Both writers act on the strength of earlier statements — a relation is drawn between
concepts made before, a statement of the migration matches what an earlier one
stored — and what saves them is that the graph only grows (`ConceptsStay`, proved first, and
used by everything else). `Prepared` says what a request has made sure of so far, `Migrated` what each
statement of the migration has stored; `Counted` bounds runs and failures. From them: `NameOnce` (proposals
make one concept per name, in any case), `AppliedLinked`, `MigrationStores`,
`LoneAliasExplained` (an alias without its canonical name was left by a failed application or
a migration that is not done), and their conjunction `ConceptsAreSound`.

The readers of `OntologyReaders` come on top. `ReadersOnlyRead` shows that the composed
specification implies that of the writers, so that everything above holds beside any number
of readers (`SoundBesideReaders`). `ReadsAreSound` needs, for each place of an expansion, how far
from its term the names read so far can be in the graph *as it is now* (`TermOK`; they can only
come closer, because the graph grows), and that a step of the expansion appends no more than the total has
room for. That an answer from the files is new enough (`ReadIsFresh`) rests on how old each
loader's copy may be (`VersionsStay`). What the files answer is no more than that either: an expansion keeps the elements before which there
are fewer different ones than the total allows, and of these there are at most so many (`FirstsAreFew`,
`FilesExpand`, for lists of any length).
`CanonicalNamesAgree` is about names alone: until a request has come
further than its first step the graph holds only what the migration takes from the files
(`OnlyFiles`, `Unwritten`), all of it once the migration is done, and of a clear name the
files say one thing. Two statements of earlier versions of these properties turned out to be
false on larger instances while they were proved: names may be one synonym step further away than
was thought, and an ambiguous alias has no one canonical name.

**`AccessControlProofs`** (from the assumptions of `AccessControl`). `Held` says of every token and request that each
role it has, and the activity of the account, is still the user's or was lost at the moment
the user was read or later; a token that a call in the middle is about to
make needs the same of the call (`CallHeld`). From it `TokensHeld`, `RequestsHeld` and
`RecentRoles`. `ToldGranted` needs that rows told are the filter of the request's own roles
(`ToldOwn`), and then that whatever the merged rules let through one of the roles grants.
`ToldKeepsToLimits` compares the same filter with what the prompt's schema was made of, and
with the department; `RolesTogether` compares the filter of a set of roles with that of each.
Both look at a row column by column and claim nothing of what stands inside a list, a path or a
map, which the code does not look into; `RowsAssumption` says only which fields the four kinds
of column have.
`GainKeeps` is an action property that follows from the merge alone: for any two sets of
roles, the larger one allows at least as much.

**`ApiWorkerProofs`** (from `WorkerAssumption` and `CallsAssumption`). `WorkerSound` is not
inductive. That no LLM client is open beside the gateway's needs that the gateway makes at most one
while it serves (`ClientKept`); that a stopped worker has closed what it
opened needs that what is open after the gateway was closed was made by learning tasks (`LateClients`)
and that a job leaves a client only when connecting or closing failed (`JobsKept`); that
requests never meet something closed needs that they run only between start and stop, and
have been sent by the driver or the gateway's client (`CallSound`); and that a fallback
is told truly, what a call may have met while it is still open (`Pending`). The tables of what each
call tells of each outcome are looked at case by case first.

**`QuerySessionProofs`** (from `SessionAssumption`, `NoneAssumption` and `WrittenAssumption`). A run starts from the
checkpoint of its session, whatever is in it, so that no property is inductive as it stands. `Run` says
for each node which fields are the run's own by the time it is reached: before generation nothing was
executed (`AtEarly`), at the executor the query is this run's or was just found in the
cache (`AtExecutor`), and so on; `Sound` says what is true of any state, also one that
another question left. One lemma for each node shows that the merged state leads on to a
node that may rely on it, or ends the run. From it `RunsStartFresh`, `QueriesAreOwn`
and `RowsAreOwn`.

The graph of nodes has a cycle, from the executor back to the generator. `RunsComeToAnEnd` shows that
it is bounded: the steps a run has left (`Left`: its place, and two for each retry it still
has) become fewer with each of its steps (`StepAdvances`, which rests on every edge leading on but
for that of a correction, `EdgesLeadOn`, and on a correction being counted before it is taken),
and no other run, of the same session or not, raises them.

The same module is about `SessionCorrections`. `TextsInvariance` shows that the questions with texts
are the questions of `QuerySession`, and that every query in hand, in the cache or to be shown to
the LLM again is the corrected text of the question that generated it (`TextsOwn`: a question
generates under one set of names, so that a second query of it replaces the first for all who hold it).
For one text, of any length and any texts and lists of names (`TextIsCorrected`): each rewriting of a
line is looked at alone (`LineSettles`), then the cut of a query (`CutSettles`), whose first
lines are found as least numbers, and the choice among several names, which
rests on being contained in, in any case, being transitive and bounded by the length. The two together
give `ExecutedIsCorrected`.

**`IngestJobsProofs`** (from `ConstantsAssumption`). The invariant follows what a job has found: it
is in Neo4j, or in the batch under a label or type that is still to be saved, or was deleted
(`Held`); so that when nothing of the batch is left all is stored (`Finished`). Edges keep to the
schema because a batch does (`WorkSound`), which is a lemma on extraction (`ReplySound`:
whatever the LLM replies, what is kept refers to nodes of the document). Where a task is
agrees with the status a client is told (`StatusTold`), and a missing file was deleted by a job that
is over (`FilesInv`). From it `GraphStaysSound`, `CompletedJobsAreStored`, `FilesAreKept`.

A job that runs reads one more batch, or saves one more label or type of its batch, or moves on
(`Nearer`); `JobsComeToAnEnd` says so of each of its steps, that no other job and no client takes it
back, and that what a client was told of a job that is over stays until a restart forgets it.
That what an extraction finds is finite, so that counting its steps makes sense, is a lemma.

**`CommunityRefreshProofs`** (from `ConstantsAssumption`, `KindsAssumption` and `NoneAssumption`). The lock keeps refreshes
apart; the other endpoints do not take it, so the invariant is stated of a refresh that no other kind of
request crossed: what it has left in the database at each of its steps (`Tidy`), and, as
long as none of its calls has failed, that nothing stands in its way (`Unharmed`). `StatusLags` relates
`CommunityMeta` to the request that wrote the communities last: they differ only while that request is
between the two or after it has failed or was killed there; `BipartiteOwed` says
that the intermediate projection is there only while some request is to drop it. From it
`RefreshesStayApart`, `BipartiteIsDropped`, and as an action property `RefreshesCleanUp`.

`RequestsComeToAnEnd` counts what a request has left to do (`Left`): its place, and the projections it
has still to drop, of which a failing call may leave more to be done on the way out. Its own steps
and its failing calls lower the number (`StepNearer`, `CallFailsNearer`), other requests, which may
hold the lock or drop the same projections, leave it as it is (`OthersStay`).

### What stays with TLC

Every invariant and every action property that a run checks is stated by a theorem. What stays is:

* Liveness (`Answering`, `JobsEnd`, `RequestsEnd`, `StopEnds`, `ExtractionEnds`), because it needs
  `ENABLED` under fairness, which the prover does not have. Of the first three the other half is
  proved, for every value of the constants: a step of a run, a job or a request brings it nearer to
  its end and nothing takes it back (`RunsComeToAnEnd`, `JobsComeToAnEnd`, `RequestsComeToAnEnd`).
  What TLC alone shows is that none of them is blocked for ever.
* `ListsAssumption`: the synonyms and the skills below a category that the files list are lists of names.
  They are put together with the library's `SelectSeq` and `FlattenSeq`, which are recursive; to say
  what these give for every sequence takes induction over data, whose theorems take an operator as
  parameter and cannot be used. TLC evaluates the assumption for the ontology of the run. What an
  expansion makes of the lists is proved.

Induction over *numbers* is needed in several places (a first line, a last position, a longest name, the
places of a sequence in their order). There the proofs use that a set of numbers has a least
one, which follows from `WFMin` for the well-founded order of the library and needs no operator.

## Where code and documentation disagree

The violation run shows one; `PROJECT.json` quotes the lines. Further
disagreements and surprises met while modelling, which no run shows (paths under
`src/src/` unless they start with `docs` or `scripts`):

Proposals and concepts:

* What the learner approves gets a status that means "applied automatically"
  (`domain/adaptive/models.py:78`), but nothing ever applies it. A request in the chat is promised
  to be applied after an administrator's review (`graph/nodes/ontology_update_handler.py:155`); a batch
  approval applies nothing.
* A chat request that merges into an existing proposal approves and applies the
  content of the older proposal (`graph/nodes/ontology_update_handler.py:118`); one the
  LLM is unsure about may be "stored" in a row that was rejected
  (`ontology_update_handler.py:155`).
* Proposals of the learner and of the chat have the category `skills`, while the graph loader
  matches concepts of type `skill` only: a synonym that was applied is not found as a
  canonical name, although the registry promises that an approval is reflected at once
  (`domain/ontology/registry.py:4`).
* `synonyms.yaml` gives the alias "TF" to two skills (lines 173 and 256): the files' answer is the later
  one, the graph's is either. "AI/ML" is a canonical name but neither a key nor an alias, so
  the YAML loader knows it only as it is written.
* The registry promises that an approved proposal reaches the pipeline at once
  (`domain/ontology/registry.py:4`). In yaml mode a refresh gives the registry a new loader
  (`registry.py:139`), while the pipeline keeps the one `main.py` handed it: it answers
  from the files as they were at its first question until the worker ends, whatever refresh has reported
  success. `ReadIsFresh` says so. In hybrid mode a refresh reaches it.
* `create_or_get_concept` looks for a name with `OPTIONAL MATCH` and creates it in one
  statement without lock or constraint: at read-committed isolation two of them may make twins. The model takes it as atomic.
* `get_synonyms` takes the first row of its query; IS_A rows whose child has no concept are
  dropped silently; IS_A matches by name only; `concept_exists` and the graph loader swallow
  errors, so that the hybrid loader's fallback for an exception is never taken; a graph that
  knows one more name shadows all the files know.

Questions:

* An unknown intent is answered from the rows an earlier question left in the checkpoint
  (`docs/SCENARIOS.md:99` says it is answered that it was not understood).
* A cache that fails sets `error` (`graph/nodes/cache_checker.py:103`), and the question is
  answered with it, although the node is to degrade gracefully.
* A cached query that fails is regenerated with entities the checkpoint holds of an earlier
  question (`graph/nodes/cypher_generator.py:110`, `:123`).
* When the response generator times out, `run()` tells the `response` of the
  previous question in the checkpoint (`graph/nodes/base.py:98`,
  `graph/pipeline.py:535`); the stream does not.
* The fallback plan of the decomposer comes with an `error`
  (`graph/nodes/query_decomposer.py:94`), and a state with an error is never
  searched for: the question the plan was to save is answered with the error.
* Names the resolver corrects (`graph/nodes/entity_resolver.py:174`) are not
  read by the generator, which takes expanded or extracted entities
  (`graph/nodes/cypher_generator.py:123`).
* A streamed question never starts learning (`graph/pipeline.py:397`), and
  the unresolved entities of earlier questions of a session are learned again
  (`graph/pipeline.py:593`).
* Corrections: `toLower(x.name) IN $p` is left as it is written (`domain/cypher/corrections.py:61`,
  `tests/domain/test_cypher_corrections.py:36`), so that items with capitals, also names that
  `correct_parameters` has just put there, match nothing, without an error. The correction of an
  aggregation drops everything from the second `MATCH` on, conditions, `ORDER BY` and `LIMIT` among it
  (`corrections.py:161`), and orders by something of its own. An empty text is contained in every name
  and is replaced by one; a number that one condition compares as text becomes text for
  the others too, and is only then open to replacement; a `NOT IN` in
  parentheses is not rewritten.

Access:

* The generator leaves security to the filter of the executor (`graph/nodes/cypher_generator.py:270`),
  which looks at the columns of a row only: lists, maps and paths, which the client gives on
  (`infrastructure/neo4j_client.py:69`), and single values pass as they are
  (`graph/nodes/graph_executor.py:338`), with the nodes, labels and properties in them.
  `ColumnsAreGranted` and `ColumnsAreInSchema` claim no more than that.
* Rules are merged "union, most permissive" (`auth/access_policy.py:82`, `:88`), except for the
  properties of relationships: a role without a rule for a type shows all of them, and none
  beside a role that has one. `RoleGainKeeps` and `RolesAddUp` leave them out.
* `remove_role` and `create_user` do not lower-case role names, `assign_role` does; two
  users' names may differ in case only.
* No route calls login or refresh, `has_permission` or `Role` listings.

Data:

* A batch is saved in several transactions although a comment calls saving
  atomic (`ingestion/pipeline.py:35`): a failed job leaves a correct part of a
  batch. `failed_documents` stays 0, because `extract` returns an empty graph
  when the LLM fails. A node without a strong identifier is merged on its name and
  other extracted properties, so a repeated ingestion may duplicate it although
  `docs/architecture/02-kg-ingestion.md` calls it idempotent.
* Deleting a connected node without force answers 404, not 409 as the docstring
  says; a rename that races with a create or a rename leaves two nodes with one
  name; an edge may be drawn to another node than the one that was checked if its
  id was given out again.
* A refresh that fails after its communities are written leaves the status of an earlier one beside
  them until a refresh succeeds (`services/community_batch_service.py:127`, `:161`).
* The analytics endpoints use the projections of a running refresh without its
  lock, and a detection does not update `CommunityMeta`.
* Bootstrap: a load that is repeated doubles `mention_count`; `nodes_created` counts merged
  ones; triples whose ends are spelled in another case than their node are dropped
  silently; after a kill between the two saves the mapping file disagrees with the
  normalized triples; documents that fail are not written anywhere; the two converters give
  different types for one camel-case relation.

Worker:

* The lifespan promises to clean up (`main.py:68`), but the GDS client and the connection
  of the SQLite checkpointer are never closed; a close that fails skips the ones after it; a
  learning task that calls after the gateway was closed makes a client nobody closes
  (`infrastructure/llm/gateway.py:103`, `:504`); a failed start leaves the driver open,
  except where loading the schema fails, and that hardly can:
  `get_schema_info` never raises, so that a worker starts with part of a schema although
  `main.py` requires it. `connect()` keeps a driver whose verification failed, and an
  ingestion connects outside its `try`.
* `execute_query` says it raises `DatabaseError` (`infrastructure/neo4j_client.py:299`), but
  errors of the driver pass as they are; `get_embedding` does not tell the content filter
  apart; `run()` and the stream catch everything, so the clauses of `api/routes/query.py`
  for LLM errors are dead; `begin_transaction` and `invalidate_schema_cache` have no caller.

## Assumptions about what is outside

A Cypher statement is atomic. uvicorn waits for requests and their background tasks
when it stops, and not for other asyncio tasks. A client or driver that was closed gives
errors of the connection. The uniqueness constraint on user names that
`seed_auth_data.py` creates is there.

## Not modelled

* Staffing (`services/project_staffing_service.py`): it ranks and adds up the rows of a few
  queries and keeps nothing; a property of it would restate its formulas. Read on the way:
  the most demanding proficiency is the maximum of Korean words in
  alphabetical order; candidates are filtered by a weighted workload and sorted by score,
  where the docstring says by free projects and rate; a failing query gives an empty list.
* Explanations and visualization format the final state; the frontend, evaluations and
  remaining scripts are clients of the server.
* Prompts and formatting; categories and style helpers of the ontology; the choice of the expansion's limits
  from the intent (`get_config_for_strategy`); counters and reports of the migration.
* The chat history, the query plan, scores of the cache, the hand-over of unresolved terms
  to the learner.
* Password hashing and token encoding (equality in the model), `Role` nodes, which
  nothing reads.
* Indexes, constraints, dry runs and the LLM-generated schema file of the bootstrap; its
  chunks are kept as a set; `merge_groups`, `suggest_canonical_name`, `merge_schemas`,
  `to_cypher_constraints` are called by tests only, and the code after the chunk loop cannot be
  reached with an overlap.
* The schema cache's lock; that `executor.shutdown(wait=True)` blocks the event loop;
  cancellation at shutdown, except of learning tasks; configuration and middleware.
* Neo4j's isolation beyond one statement at a time: the repository defines no
  uniqueness constraint on names of nodes, and a create's `MATCH … CREATE` is taken to be as
  atomic as the repository's comment claims.

## Plan

Done: all modules above, and theorems for every safety and action property that the runs
check. Next, in this order:

1. The YAML loader's lists by places, as the conversions of `BootstrapNames` are written,
   so that `ListsAssumption` becomes a theorem.
2. The bounded way to an end, as it is proved of questions, jobs and refreshes, for the shutdown of the
   worker and the bootstrap's scripts; that a checkpoint is written by a run of its session only.
3. The hand-over from the pipeline to the learner: `QuerySession` with the unresolved terms
   of a run, composed with `OntologyProposals`.
4. Twins of concepts at read-committed isolation: `create_or_get_concept` as two steps, with
   the promises that remain.
