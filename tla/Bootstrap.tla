------------------------------ MODULE Bootstrap ------------------------------
(***************************************************************************)
(* Bootstrapping a graph from documents: three scripts that an operator    *)
(* runs, after each other or at once, and that hand files to each other.   *)
(*   - extract_triples.py asks the LLM for the facts of each document      *)
(*     (open_extractor.py) and writes the triples file;                    *)
(*   - normalize_relations.py groups the relations with the LLM            *)
(*     (relation_normalizer.py) and writes the normalized triples and the  *)
(*     mapping;                                                            *)
(*   - bulk_load_triples.py merges one of the two triples files into Neo4j.*)
(* The LLM answers anything; its calls fail, the database's statements     *)
(* fail, and a script may be killed at any of its steps, also while it     *)
(* writes a file.                                                          *)
(***************************************************************************)
EXTENDS BootstrapNames, Functions

CONSTANTS
  Documents,      \* files of the input directory, as a sequence
  Length,         \* how long each of them is
  Replies,        \* what the LLM may extract from one document
  Groupings,      \* how the LLM may group relations
  Lower,          \* a name in lower case
  ChunkSize,      \* --chunk-size of an operator who wants chunks
  Overlap,        \* the overlap the script asks for, 200
  BatchSize,      \* --batch-size of the extraction
  LoadBatch,      \* --batch-size of the load
  MinConfidence,  \* --min-confidence, on a scale of 0 to MaxConfidence
  MaxConfidence,
  MaxRuns,        \* bound: how often each script runs
  MaxFaults,      \* bound: failed calls and kills
  Missing, Torn   \* no file; a file whose writer was stopped

ASSUME ChunkAssumption ==
  /\ ChunkSize \in Nat \ {0} /\ Overlap \in Nat \ {0}
  /\ Length \in [Range(Documents) -> Nat \ {0}]

\* Documents come in some order; the LLM replies with triples of any texts and
\* numbers, and names groups of relations.
ASSUME RepliesAssumption ==
  /\ Documents \in Seq(Range(Documents))
  /\ Missing \notin [confidence: Int, source: Range(Documents)]
  /\ BatchSize \in Nat \ {0} /\ LoadBatch \in Nat \ {0}
  /\ MinConfidence \in Int /\ MaxConfidence \in Int
  /\ Replies \subseteq Seq([subject: STRING, relation: Seq(Kinds), object: STRING,
                            confidence: Int])
  /\ Groupings \subseteq Seq([canonical: Seq(Kinds), variants: Seq(Seq(Kinds))])

VARIABLES
  file,    \* "triples", "normalized" and "mapping"
  ex,      \* the extraction script
  nz,      \* the normalization script
  ld,      \* the loading script
  entity,  \* Entity nodes by name: type and mention count
  rel,     \* relationships by ends and type: confidence and origin of the text
  runs,    \* how often each script was started
  faults,
  heard    \* every fact the LLM has told of a document so far

bootstrap == <<file, ex, nz, ld, entity, rel, runs, faults, heard>>
graph == <<entity, rel>>

Scripts == {"extract", "normalize", "load"}
Readable(f) == file[f] \notin {Missing, Torn}

Started(s) == runs[s] < MaxRuns[s] /\ runs' = [runs EXCEPT ![s] = @ + 1]
Fault == faults < MaxFaults /\ faults' = faults + 1

-----------------------------------------------------------------------------
(* extract_triples.py                                                       *)

ParsedMutant(reply) == \* the threshold is the rule, not the Triple's check
  Picked(reply, {i \in DOMAIN reply :
    /\ reply[i].confidence >= MinConfidence
    /\ "" \notin {reply[i].subject, reply[i].object} /\ reply[i].relation # <<>>})

\* A fact below the threshold, of impossible confidence or with an empty part
\* is left out, the others stay.
Parsed(reply) ==
  Picked(reply, {i \in DOMAIN reply :
    /\ reply[i].confidence \in MinConfidence .. MaxConfidence
    /\ "" \notin {reply[i].subject, reply[i].object} /\ reply[i].relation # <<>>})

Told(d, ts) == {[fact |-> ts[i], of |-> d] : i \in DOMAIN ts}

ExIdle == [pc |-> "idle"]

\* The batch of documents from the i-th on: their tasks start together.
BatchFrom(docs, i) ==
  [pc |-> "batch", docs |-> docs, next |-> i + BatchSize, result |-> ex.result,
   waiting |-> {j \in DOMAIN docs : i <= j /\ j < i + BatchSize}]

\* Documents that cannot be read are left out of a directory's.
StartExtract(docs) ==
  /\ ex.pc = "idle" /\ docs # <<>> /\ Started("extract")
  /\ \/ ex' = [pc |-> "batch", docs |-> docs, next |-> 1, result |-> <<>>,
               waiting |-> {}]
     \/ ex' = [pc |-> "chunks", docs |-> docs, next |-> 1, result |-> <<>>]
  /\ UNCHANGED <<file, nz, ld, graph, faults, heard>>

\* gather has all answers of a batch; after a pause the next one starts.
NextBatch ==
  /\ ex.pc = "batch" /\ ex.waiting = {} /\ ex.next <= Len(ex.docs)
  /\ ex' = BatchFrom(ex.docs, ex.next)
  /\ UNCHANGED <<file, nz, ld, graph, runs, faults, heard>>

NumberedMutant(j, ts) == \* numbered within the batch
  [i \in DOMAIN ts |-> [fact |-> ts[i], id |-> ((j - 1) % BatchSize) + 1]]

\* document_id is the place of the document in the whole list
Numbered(j, ts) == [i \in DOMAIN ts |-> [fact |-> ts[i], id |-> j]]

Extract(j, reply) ==
  /\ ex.pc = "batch" /\ j \in ex.waiting
  /\ ex' = [ex EXCEPT !.waiting = @ \ {j},
                      !.result = @ \o Numbered(j, Parsed(reply))]
  /\ heard' = heard \cup Told(ex.docs[j], Parsed(reply))
  /\ UNCHANGED <<file, nz, ld, graph, runs, faults>>

\* A document that fails is counted and skipped.
ExtractFails(j) ==
  /\ ex.pc = "batch" /\ j \in ex.waiting /\ Fault
  /\ ex' = [ex EXCEPT !.waiting = @ \ {j}]
  /\ UNCHANGED <<file, nz, ld, graph, runs, heard>>

\* extract_with_chunking asks about a short document at once; a failure here
\* ends the script and nothing is written.
ExtractWhole(reply) ==
  /\ ex.pc = "chunks" /\ ex.next <= Len(ex.docs)
  /\ Length[ex.docs[ex.next]] <= ChunkSize
  /\ \/ /\ ex' = [ex EXCEPT !.next = @ + 1,
                            !.result = @ \o Numbered(ex.next, Parsed(reply))]
        /\ heard' = heard \cup Told(ex.docs[ex.next], Parsed(reply))
        /\ UNCHANGED faults
     \/ Fault /\ ex' = ExIdle /\ UNCHANGED heard
  /\ UNCHANGED <<file, nz, ld, graph, runs>>

\* A long one is first cut into overlapping chunks.
StartCutting ==
  /\ ex.pc = "chunks" /\ ex.next <= Len(ex.docs)
  /\ Length[ex.docs[ex.next]] > ChunkSize
  /\ ex' = [pc |-> "cutting", docs |-> ex.docs, next |-> ex.next, start |-> 0,
            chunks |-> {}]
  /\ UNCHANGED <<file, nz, ld, graph, runs, faults, heard>>

EndOf(start, length) ==
  IF start + ChunkSize < length THEN start + ChunkSize ELSE length

\* One round of the loop.  It ends when the next chunk would start behind the
\* document, which an overlap never lets it: see ExtractionEnds.
CutChunk ==
  LET length == Length[ex.docs[ex.next]]
      end == EndOf(ex.start, length)
  IN /\ ex.pc = "cutting" /\ ex.start < length
     /\ ex' = [ex EXCEPT !.chunks = @ \cup {<<ex.start, end>>},
                         !.start = end - Overlap]
     /\ UNCHANGED <<file, nz, ld, graph, runs, faults, heard>>

\* With the triples of all documents the file is opened, and with it emptied...
OpenTriples ==
  /\ ex.pc \in {"batch", "chunks"} /\ ex.next > Len(ex.docs)
  /\ ex.pc = "batch" => ex.waiting = {}
  /\ file' = [file EXCEPT !["triples"] = Torn]
  /\ ex' = [pc |-> "write", docs |-> ex.docs, result |-> ex.result]
  /\ UNCHANGED <<nz, ld, graph, runs, faults, heard>>

Triple(fact, d) ==
  [subject |-> fact.subject, relation |-> fact.relation, object |-> fact.object,
   confidence |-> fact.confidence, source |-> d, original |-> <<>>]

\* ... then written: source_file is the name of the document with that id.
WriteTriples ==
  /\ ex.pc = "write"
  /\ file' = [file EXCEPT !["triples"] =
       [i \in DOMAIN ex.result |->
          Triple(ex.result[i].fact, ex.docs[ex.result[i].id])]]
  /\ ex' = ExIdle
  /\ UNCHANGED <<nz, ld, graph, runs, faults, heard>>

-----------------------------------------------------------------------------
(* normalize_relations.py                                                   *)

NzIdle == [pc |-> "idle"]
Frequency(ts, r) == Cardinality({i \in DOMAIN ts : ts[i].relation = r})

\* A file that cannot be parsed or has no triples ends the script.
StartNormalize ==
  /\ nz.pc = "idle" /\ Started("normalize") /\ Readable("triples")
  /\ file["triples"] # <<>>
  /\ nz' = [pc |-> "ask", triples |-> file["triples"]]
  /\ UNCHANGED <<file, ex, ld, graph, faults, heard>>

MappingMutant(groups) == \* the first group that has a relation keeps it
  [r \in UNION {Range(groups[i].variants) : i \in DOMAIN groups} |->
     LET first == CHOOSE i \in DOMAIN groups :
                    /\ r \in Range(groups[i].variants)
                    /\ \A j \in 1 .. i - 1 : r \notin Range(groups[j].variants)
     IN groups[first].canonical]

\* _parse_grouping_response: the last group that has a relation gets it.
Mapping(groups) ==
  [r \in UNION {Range(groups[i].variants) : i \in DOMAIN groups} |->
     LET last == CHOOSE i \in DOMAIN groups :
                   /\ r \in Range(groups[i].variants)
                   /\ \A j \in i + 1 .. Len(groups) :
                        r \notin Range(groups[j].variants)
     IN ToScreamingSnake(groups[last].canonical)]

NormalizeTriple(t, mapping) ==
  IF t.relation \in DOMAIN mapping /\ mapping[t.relation] # <<>>
  THEN [t EXCEPT !.relation = mapping[t.relation], !.original = t.relation]
  ELSE t

\* The LLM is asked only if some relation is frequent enough for the operator.
Group(groups, min) ==
  LET frequent == \E t \in Range(nz.triples) :
                    Frequency(nz.triples, t.relation) >= min
      mapping == Mapping(IF frequent THEN groups ELSE <<>>)
  IN /\ nz.pc = "ask"
     /\ nz' = [pc |-> "normalized", mapping |-> mapping,
               triples |-> [i \in DOMAIN nz.triples |->
                              NormalizeTriple(nz.triples[i], mapping)]]
     /\ UNCHANGED <<file, ex, ld, graph, runs, faults, heard>>

GroupFails ==
  /\ nz.pc = "ask" /\ Fault
  /\ nz' = NzIdle
  /\ UNCHANGED <<file, ex, ld, graph, runs, heard>>

\* The triples are saved before the mapping, each opened first.
OpenNormalized ==
  /\ nz.pc \in {"normalized", "mapping"}
  /\ file' = [file EXCEPT ![nz.pc] = Torn]
  /\ nz' = [nz EXCEPT !.pc = IF nz.pc = "normalized" THEN "write triples"
                                                     ELSE "write mapping"]
  /\ UNCHANGED <<ex, ld, graph, runs, faults, heard>>

WriteNormalized ==
  /\ \/ /\ nz.pc = "write triples" /\ nz' = [nz EXCEPT !.pc = "mapping"]
        /\ file' = [file EXCEPT !["normalized"] = nz.triples]
     \/ /\ nz.pc = "write mapping" /\ nz' = NzIdle
        /\ file' = [file EXCEPT !["mapping"] = nz.mapping]
  /\ UNCHANGED <<ex, ld, graph, runs, faults, heard>>

-----------------------------------------------------------------------------
(* bulk_load_triples.py                                                     *)

LdIdle == [pc |-> "idle"]

\* The ends of all triples, subject before object.
Mentions(ts) ==
  [m \in 1 .. 2 * Len(ts) |->
     IF m % 2 = 1 THEN [name |-> ts[(m + 1) \div 2].subject, type |-> "subject"]
     ELSE [name |-> ts[m \div 2].object, type |-> "object"]]

\* The places where something comes for the first time.
FirstPlaces(keys) ==
  {i \in DOMAIN keys : \A j \in 1 .. i - 1 : keys[j] # keys[i]}

\* One entity for the spellings of a name that differ by case: the first
\* spelling, the first role, and all its mentions.
Entities(ts) ==
  LET ms == Mentions(ts)
      Key(m) == Lower[m.name]
  IN Picked([i \in DOMAIN ms |->
               [name |-> ms[i].name, type |-> ms[i].type,
                count |-> Cardinality({j \in DOMAIN ms : Key(ms[j]) = Key(ms[i])})]],
            FirstPlaces([i \in DOMAIN ms |-> Key(ms[i])]))

\* The next batch, and what it leaves.
Batch(s) == SubSeq(s, 1, IF LoadBatch < Len(s) THEN LoadBatch ELSE Len(s))

RestMutant(s) == \* the last, smaller batch is forgotten
  IF Len(s) < 2 * LoadBatch THEN <<>> ELSE SubSeq(s, LoadBatch + 1, Len(s))

Rest(s) == SubSeq(s, LoadBatch + 1, Len(s))

\* Relation by relation, in order of appearance; a relation whose name cannot
\* be a type is skipped with a warning.
RelationGroups(ts) ==
  Picked([i \in DOMAIN ts |->
            [type |-> NormalizeRelationType(ts[i].relation),
             rows |-> Picked(ts, {j \in DOMAIN ts : ts[j].relation = ts[i].relation})]],
         {i \in FirstPlaces([i \in DOMAIN ts |-> ts[i].relation]) :
            NormalizeRelationType(ts[i].relation) # Refused})

\* The operator loads either file; one without triples ends the script.
StartLoad(f) ==
  /\ ld.pc \in {"idle", "done"} /\ Started("load")
  /\ f \in {"triples", "normalized"} /\ Readable(f) /\ file[f] # <<>>
  /\ ld' = [pc |-> "load", input |-> file[f], errors |-> 0,
            nodes |-> Entities(file[f]), rels |-> RelationGroups(file[f])]
  /\ UNCHANGED <<file, ex, nz, graph, faults, heard>>

\* MERGE by the name as it is spelled; a node that is there counts on.
MergedNodes(batch) ==
  LET names == {e.name : e \in Range(batch)}
      Of(n) == CHOOSE e \in Range(batch) : e.name = n
  IN [n \in DOMAIN entity \cup names |->
        IF n \notin names THEN entity[n]
        ELSE IF n \notin DOMAIN entity
        THEN [type |-> Of(n).type, count |-> Of(n).count]
        ELSE [entity[n] EXCEPT !.count = @ + Of(n).count]]

MergedRelMutant(ts, old) == \* the last one wins
  LET last == ts[Len(ts)].confidence
  IN IF ts = <<>> THEN old
     ELSE IF old = Missing THEN [confidence |-> last, source |-> ts[1].source]
     ELSE [old EXCEPT !.confidence = last]

\* A relationship, or none yet, after these triples of it were merged row by
\* row: it keeps its highest confidence and its first text.
MergedRel(ts, old) ==
  LET told == {ts[i].confidence : i \in DOMAIN ts}
  IN IF ts = <<>> THEN old
     ELSE IF old = Missing THEN [confidence |-> Max(told), source |-> ts[1].source]
     ELSE [old EXCEPT !.confidence = Max(told \cup {@})]

\* A row whose ends are not both found is dropped without a word.
MergedRels(type, rows) ==
  LET found == {i \in DOMAIN rows :
                  {rows[i].subject, rows[i].object} \subseteq DOMAIN entity}
      Key(i) == <<rows[i].subject, type, rows[i].object>>
      Of(k) == Picked(rows, {i \in found : Key(i) = k})
  IN [k \in DOMAIN rel \cup {Key(i) : i \in found} |->
        MergedRel(Of(k), IF k \in DOMAIN rel THEN rel[k] ELSE Missing)]

\* A statement that fails may yet have been committed; the load goes on.
Outcome(merged, old, new) ==
  \/ merged = new /\ ld'.errors = ld.errors /\ UNCHANGED faults
  \/ merged \in {old, new} /\ ld'.errors = ld.errors + 1 /\ Fault

LoadNodes ==
  /\ ld.pc = "load" /\ ld.nodes # <<>>
  /\ \E e \in {0, 1} :
       ld' = [ld EXCEPT !.nodes = Rest(@), !.errors = @ + e]
  /\ entity' \in {entity, MergedNodes(Batch(ld.nodes))}
  /\ Outcome(entity', entity, MergedNodes(Batch(ld.nodes)))
  /\ UNCHANGED <<file, ex, nz, rel, runs, heard>>

\* The groups after a batch of the first one
GroupsAfter(groups) ==
  IF Rest(Head(groups).rows) = <<>> THEN Tail(groups)
  ELSE [groups EXCEPT ![1].rows = Rest(@)]

LoadRelations ==
  /\ ld.pc = "load" /\ ld.nodes = <<>> /\ ld.rels # <<>>
  /\ LET merged == MergedRels(Head(ld.rels).type, Batch(Head(ld.rels).rows))
     IN /\ \E e \in {0, 1} :
             ld' = [ld EXCEPT !.rels = GroupsAfter(@), !.errors = @ + e]
        /\ rel' \in {rel, merged}
        /\ Outcome(rel', rel, merged)
  /\ UNCHANGED <<file, ex, nz, entity, runs, heard>>

EndLoad ==
  /\ ld.pc = "load" /\ ld.nodes = <<>> /\ ld.rels = <<>>
  /\ ld' = [pc |-> "done", input |-> ld.input, errors |-> ld.errors]
  /\ UNCHANGED <<file, ex, nz, graph, runs, faults, heard>>

-----------------------------------------------------------------------------
Running(s) ==
  CASE s = "extract" -> ex.pc # "idle"
    [] s = "normalize" -> nz.pc # "idle"
    [] s = "load" -> ld.pc = "load"

\* What is written stays, also what is half written.
Kill(s) ==
  /\ Running(s) /\ Fault
  /\ ex' = IF s = "extract" THEN ExIdle ELSE ex
  /\ nz' = IF s = "normalize" THEN NzIdle ELSE nz
  /\ ld' = IF s = "load" THEN LdIdle ELSE ld
  /\ UNCHANGED <<file, graph, runs, heard>>

BootstrapInit ==
  /\ file = [f \in {"triples", "normalized", "mapping"} |-> Missing]
  /\ ex = ExIdle /\ nz = NzIdle /\ ld = LdIdle
  /\ entity = <<>> /\ rel = <<>>
  /\ runs = [s \in Scripts |-> 0] /\ faults = 0 /\ heard = {}

Extraction ==
  \/ NextBatch \/ StartCutting \/ CutChunk \/ OpenTriples \/ WriteTriples
  \/ \E reply \in Replies :
       \/ \E j \in DOMAIN Documents : Extract(j, reply)
       \/ ExtractWhole(reply)

Normalization ==
  \/ OpenNormalized \/ WriteNormalized
  \/ \E groups \in Groupings, min \in {1, 2} : Group(groups, min)

Loading == LoadNodes \/ LoadRelations \/ EndLoad

BootstrapNext ==
  \/ Extraction \/ Normalization \/ Loading
  \/ \E kept \in SUBSET (DOMAIN Documents) : StartExtract(Picked(Documents, kept))
  \/ \E j \in DOMAIN Documents : ExtractFails(j)
  \/ StartNormalize \/ GroupFails
  \/ \E f \in {"triples", "normalized"} : StartLoad(f)
  \/ \E s \in Scripts : Kill(s)

BootstrapSpec == BootstrapInit /\ [][BootstrapNext]_bootstrap

\* An extraction that was started runs on: its calls to the LLM come back or
\* time out.
FairSpec == BootstrapSpec /\ WF_bootstrap(Extraction)

-----------------------------------------------------------------------------
(* Properties                                                               *)

Fact(t) == [subject |-> t.subject, object |-> t.object,
            confidence |-> t.confidence,
            relation |-> IF t.original # <<>> THEN t.original ELSE t.relation]

\* Names settle when they are converted, and so has every type that got into
\* the graph: a script that is run over it again names no other.
NamesSettle == ConvertedOnce /\ \A key \in DOMAIN rel : Settled(key[2])

\* The types a relation may come to: as it is, or as a group names it.
TypesOf ==
  [relation \in UNION {{r[i].relation : i \in DOMAIN r} : r \in Replies} |->
     {NormalizeRelationType(relation)} \cup
     UNION {{NormalizeRelationType(ToScreamingSnake(g[i].canonical)) :
               i \in {k \in DOMAIN g : relation \in Range(g[k].variants)}} :
              g \in Groupings}]

Supports(h, key) ==
  /\ h.fact.subject = key[1] /\ h.fact.object = key[3]
  /\ key[2] \in TypesOf[h.fact.relation]

\* Nothing is invented or ascribed to another document on the way from the
\* documents through two files into the graph: every stored triple was told by
\* the LLM of the document the triple names, above the threshold, and every
\* relationship's confidence and text were told of its two ends, however many
\* documents are asked at once and whichever scripts were stopped.
FactsAreTold ==
  /\ \A f \in {"triples", "normalized"} :
       Readable(f) => \A t \in Range(file[f]) :
         /\ [fact |-> Fact(t), of |-> t.source] \in heard
         /\ t.confidence >= MinConfidence /\ t.confidence <= MaxConfidence
  /\ \A k \in DOMAIN rel :
       /\ \E h \in heard : Supports(h, k) /\ h.fact.confidence = rel[k].confidence
       /\ \E h \in heard : Supports(h, k) /\ h.of = rel[k].source

\* When a load has ended and reported no error, every name of its file has a
\* node in some spelling, and every triple its relationship, at least as
\* confident, except those whose relation cannot be a type and those that spell
\* a name in another way than the node (bulk_load_triples.py: entities are
\* found in lower case, matched as they are spelled).
LoadIsComplete ==
  ld.pc = "done" /\ ld.errors = 0 =>
    \A t \in Range(ld.input) :
      LET key == <<t.subject, NormalizeRelationType(t.relation), t.object>>
      IN /\ \A n \in {t.subject, t.object} :
              \E m \in DOMAIN entity : Lower[m] = Lower[n]
         /\ \/ key[2] = Refused
            \/ ~({t.subject, t.object} \subseteq DOMAIN entity)
            \/ key \in DOMAIN rel /\ rel[key].confidence >= t.confidence

\* An extraction ends, also of a document that is longer than a chunk.
ExtractionEnds == Running("extract") ~> ~Running("extract")
=============================================================================
