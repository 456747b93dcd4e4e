-------------------------- MODULE OntologyReaders ---------------------------
(***************************************************************************)
(* The expansion of a question's terms (graph/nodes/concept_expander.py)    *)
(* by the loader of the configured mode - the YAML files, the concept graph *)
(* or the graph with the files behind it - while the graph is written to,   *)
(* and the registry that renews the loaders' caches after an approval       *)
(* (domain/ontology/registry.py, hybrid_loader.py, neo4j_loader.py).        *)
(* Each query of a loader is one step.                                      *)
(***************************************************************************)
EXTENDS ConceptGraph

CONSTANTS
  Modes,      \* the values of ontology_mode an instance has
  Readers,    \* questions
  Terms,      \* the terms they ask about
  Config,     \* the limits of the strategy they use
  MaxEdits    \* bound: the times an operator changes the YAML files

ASSUME ReaderAssumption ==
  /\ Modes \subseteq {"yaml", "neo4j", "hybrid"}
  /\ Terms \subseteq Names /\ IsFiniteSet(Names)
  /\ Groups \in Seq([main: Names, canonical: Names, aliases: Seq(Names)])
  /\ Config \in [synonyms: Nat, children: Nat, total: Nat \ {0}]
  /\ MaxEdits \in Nat

VARIABLES
  mode,      \* ontology_mode
  file,      \* the version of the YAML files
  cache,     \* what each OntologyLoader instance has read: a version or None
  holder,    \* the instance of the pipeline and that of the registry
  asOf,      \* the file version at the last refresh that reported success
  due,       \* requests whose approval still has to renew the caches
  rpc,       \* where each question is
  term,      \* the term it expands
  canon,     \* the canonical name it found
  group,     \* the canonical name its synonym query found
  names,     \* the expansion so far
  version,   \* observed: the version of the files it was taken from, or None
  since      \* observed: asOf when the question began

loaders == <<mode, file, cache, holder, asOf>>
observed == <<version, since>>
reading == <<rpc, term, canon, group, names, observed>>
allVars == <<vars, loaders, due, reading>>

-----------------------------------------------------------------------------
(* Queries of the Neo4j loader.  Where a query may match several rows the    *)
(* code takes the first, which may be any of them.                           *)

SkillsCalled(t) == {n \in Called(t) : n[2] = "skill"}

CanonicalRows(n) ==
  LET targets == {e[3] : e \in {e \in edges : e[1] = "SAME_AS" /\ e[2] = n}}
      canonical == {m \in targets : concept[m].canonical}
  IN IF canonical # {} THEN {m[1] : m \in canonical}
     ELSE IF concept[n].canonical THEN {n[1]} ELSE {None}

CanonicalAnswersNone(t) == \* an alias without a canonical name answers null
  UNION {CanonicalRows(n) : n \in SkillsCalled(t)}

CanonicalAnswersMutant(t) == \* only the node of that very name is looked at
  LET rows == UNION {CanonicalRows(n) : n \in SkillsCalled(t) \cap Exactly(t)}
  IN IF rows = {} THEN {t} ELSE {IF r = None THEN t ELSE r : r \in rows}

\* get_canonical
CanonicalAnswers(t) ==
  LET rows == UNION {CanonicalRows(n) : n \in SkillsCalled(t)}
  IN IF rows = {} THEN {t} ELSE {IF r = None THEN t ELSE r : r \in rows}

Beside(n) ==
  {m \in Stored : /\ m[2] = "skill"
                  /\ \E e \in edges : /\ e[1] = "SAME_AS"
                                      /\ <<e[2], e[3]>> \in {<<m, n>>, <<n, m>>}}

\* get_synonyms for the canonical name c; {} when nothing matches
SynonymAnswers(c) ==
  {{n[1]} \cup {m[1] : m \in Beside(n)} : n \in SkillsCalled(c)}

BelowMutant(ns) == \* the arrow the other way round
  {e[3] : e \in {e \in edges : e[1] = "IS_A" /\ e[2] \in ns}}

Below(ns) == {e[2] : e \in {e \in edges : e[1] = "IS_A" /\ e[3] \in ns}}

\* get_children: skills one to three IS_A relations below
Children(c) ==
  LET one == Below(Called(c))
      two == Below(one)
  IN {n[1] : n \in {n \in one \cup two \cup Below(two) : n[2] = "skill"}}

FileCanonical == [t \in Names |-> YamlCanonical(t)]

HybridCanonicalMutant(t) == CanonicalAnswers(t) \* the graph's answer stands

\* The hybrid loader's get_canonical: the files when the graph knows no better
HybridCanonical(t) ==
  {IF c # t THEN c ELSE FileCanonical[t] : c \in CanonicalAnswers(t)}

-----------------------------------------------------------------------------
(* Expansion of a term                                                       *)

RGoto(r, l) == rpc' = [rpc EXCEPT ![r] = l]
NoLoader == UNCHANGED <<loaders, due>>

ExtendedMutant(seen, found, most) == \* the total is not looked at
  {seen \cup p : p \in {p \in SUBSET found :
                       Cardinality(p) = Min({most, Cardinality(found)})}}

\* Some "most" of the names in found, of which those not seen are appended
\* while the total allows.
Extended(seen, found, most) ==
  LET taken == {p \in SUBSET found : Cardinality(p) = Min({most, Cardinality(found)})}
  IN UNION {LET new == p \ seen
                room == Min({Config.total - Cardinality(seen), Cardinality(new)})
            IN {seen \cup x : x \in {x \in SUBSET new : Cardinality(x) = room}}
            : p \in taken}

\* The pipeline and its loaders serve one question after another.
StartRead(r) ==
  /\ rpc[r] \in {"idle", "done"}
  /\ \E t \in Terms : /\ term' = [term EXCEPT ![r] = t]
                      /\ names' = [names EXCEPT ![r] = {t}]
  /\ RGoto(r, IF mode = "yaml" THEN "yaml" ELSE "canonical")
  /\ canon' = [canon EXCEPT ![r] = None] /\ group' = [group EXCEPT ![r] = None]
  /\ version' = [version EXCEPT ![r] = None]
  /\ since' = [since EXCEPT ![r] = asOf]
  /\ UNCHANGED vars /\ NoLoader

\* A query that fails, as each may, is logged and answered with the term itself.
FindCanonical(r) ==
  /\ rpc[r] = "canonical"
  /\ \E c \in CanonicalAnswers(term[r]) \cup {term[r]} :
       /\ canon' = [canon EXCEPT ![r] = c]
       /\ \E s \in Extended(names[r], {c}, 1) : names' = [names EXCEPT ![r] = s]
  /\ RGoto(r, "group")
  /\ UNCHANGED <<vars, term, group, observed>> /\ NoLoader

\* get_synonyms asks for the canonical name of the canonical name first.
FindGroup(r) ==
  /\ rpc[r] = "group"
  /\ \E c \in CanonicalAnswers(canon[r]) \cup {canon[r]} :
       group' = [group EXCEPT ![r] = c]
  /\ RGoto(r, "synonyms")
  /\ UNCHANGED <<vars, term, canon, names, observed>> /\ NoLoader

\* Without an answer the canonical name stands alone.
FindSynonyms(r) ==
  /\ rpc[r] = "synonyms"
  /\ \E found \in SynonymAnswers(group[r]) \cup {{canon[r]}} :
       \E s \in Extended(names[r], found, Config.synonyms) :
         names' = [names EXCEPT ![r] = s]
  /\ RGoto(r, "children")
  /\ UNCHANGED <<vars, term, canon, group, observed>> /\ NoLoader

AfterGraphMutant(s) == "done" \* what the graph answers is the answer

\* The hybrid loader asks the files when the graph has only the term.
AfterGraph(s) ==
  IF mode = "hybrid" /\ Cardinality(s) = 1 THEN "yaml" ELSE "done"

FindChildren(r) ==
  /\ rpc[r] = "children"
  /\ \E found \in {Children(canon[r]), {}} :
       \E s \in Extended(names[r], found, Config.children) :
         /\ names' = [names EXCEPT ![r] = s]
         /\ RGoto(r, AfterGraph(s))
  /\ UNCHANGED <<vars, term, canon, group, observed>> /\ NoLoader

FileExpand == [t \in Names |-> YamlExpand(t, Config)]

\* The lists in the files are lists of names.
ASSUME ListsAssumption ==
  \A t \in Names : {YamlSynonyms(t), YamlChildren(YamlCanonical(t))} \subseteq Seq(Names)

Loaded(i) == [cache EXCEPT ![i] = IF @ = None THEN file ELSE @]

\* expand_concept of the pipeline's OntologyLoader, which reads the files when
\* it has not yet.
AskYaml(r) ==
  /\ rpc[r] = "yaml"
  /\ names' = [names EXCEPT ![r] = FileExpand[term[r]]]
  /\ cache' = Loaded(holder.pipeline)
  /\ version' = [version EXCEPT ![r] = Loaded(holder.pipeline)[holder.pipeline]]
  /\ RGoto(r, "done")
  /\ UNCHANGED <<vars, mode, file, holder, asOf, due, term, canon, group, since>>

-----------------------------------------------------------------------------
(* Loaders and their refresh                                                 *)

\* The pipeline's, the registry's and a new one: the others are no one's.
Instances == 1 .. 3

\* In mode neo4j no loader reads the files.
EditFiles ==
  /\ mode # "neo4j"
  /\ file < MaxEdits /\ file' = file + 1
  /\ UNCHANGED <<vars, mode, cache, holder, asOf, due, reading>>

Unused == Min({i \in Instances : i \notin Range(holder)})

\* _refresh_yaml_cache: a new instance for the registry, not for the pipeline
RefreshYaml ==
  /\ holder' = [holder EXCEPT !.registry = Unused]
  /\ cache' = [cache EXCEPT ![Unused] = None]

RefreshHybridMutant == \* the YAML loader behind the graph keeps its cache
  UNCHANGED <<holder, cache>>

\* _refresh_hybrid_cache: clear_cache of the loader all of them share
RefreshHybrid ==
  /\ cache' = [cache EXCEPT ![holder.registry] = None]
  /\ UNCHANGED holder

\* After a request has applied its proposal: safe_refresh_ontology_cache.
Refresh(t) ==
  /\ pc[t] = "applied" /\ t \in due
  /\ IF mode = "yaml" THEN RefreshYaml ELSE RefreshHybrid
  /\ asOf' = file
  /\ due' = due \ {t}
  /\ UNCHANGED <<vars, mode, file, reading>>

-----------------------------------------------------------------------------
ReadersInit ==
  /\ Init
  /\ mode \in Modes
  /\ file = 0
  /\ cache = [i \in Instances |-> None]
  /\ holder = [pipeline |-> 1, registry |-> 1]
  /\ asOf = 0
  /\ due = Tasks
  /\ rpc = [r \in Readers |-> "idle"]
  /\ term = [r \in Readers |-> None]
  /\ canon = [r \in Readers |-> None]
  /\ group = [r \in Readers |-> None]
  /\ names = [r \in Readers |-> {}]
  /\ version = [r \in Readers |-> None]
  /\ since = [r \in Readers |-> 0]

Read(r) ==
  \/ StartRead(r) \/ FindCanonical(r) \/ FindGroup(r) \/ FindSynonyms(r)
  \/ FindChildren(r) \/ AskYaml(r)

ReadersNext ==
  \/ Next /\ UNCHANGED <<loaders, due, reading>>
  \/ \E r \in Readers : Read(r)
  \/ EditFiles
  \/ \E t \in Tasks : Refresh(t)

ReadersSpec == ReadersInit /\ [][ReadersNext]_allVars
-----------------------------------------------------------------------------
(* Properties                                                                *)

\* What the loaders, the questions and the registry hold.
ReadersTypeOK ==
  /\ mode \in Modes /\ file \in 0 .. MaxEdits /\ asOf \in 0 .. file
  /\ cache \in [Instances -> 0 .. file \cup {None}]
  /\ holder \in [{"pipeline", "registry"} -> Instances]
  /\ due \subseteq Tasks
  /\ rpc \in [Readers -> {"idle", "canonical", "group", "synonyms", "children",
                          "yaml", "done"}]
  /\ term \in [Readers -> Terms \cup {None}]
  /\ canon \in [Readers -> Names \cup {None}]
  /\ group \in [Readers -> Names \cup {None}]
  /\ names \in [Readers -> SUBSET Names]
  /\ version \in [Readers -> 0 .. file \cup {None}]
  /\ since \in [Readers -> 0 .. asOf]

Untouched == \A t \in Tasks : pc[t] \in {"idle", "error"} /\ at[t] <= 1

\* The concepts of the same names, those beside them and those below them.
Ends(relation, to, ns) == {e[5 - to] : e \in {e \in edges : e[1] = relation /\ e[to] \in ns}}
Synonymous(ns) ==
  LET folded == {Fold[m[1]] : m \in ns}
  IN {n \in Stored : Fold[n[1]] \in folded} \cup Ends("SAME_AS", 2, ns) \cup Ends("SAME_AS", 3, ns)
Kinds(ns) == Ends("IS_A", 3, ns)

\* The names a question about t may be answered with from the graph.
Relatives(t) ==
  LET beside == Synonymous(Called(t))
      near == Synonymous(beside)
      around == Synonymous(near)
      wider == Synonymous(around)
      wide == Synonymous(wider)
      one == Kinds(near)
      two == Kinds(one)
  IN {n[1] : n \in wide \cup one \cup two \cup Kinds(two)}

\* Whatever the writers do between its queries, an expansion adds to a term
\* only what is related to it: names a few synonym steps away in the graph,
\* concepts that are a kind of one near it - never what it is a kind of - or
\* what the files relate to it (neo4j_loader.py, hybrid_loader.py).
ReadIsRelated ==
  \A r \in Readers :
    rpc[r] = "done" =>
      LET added == names[r] \ ({term[r]} \cup FileExpand[term[r]])
      IN added # {} => added \subseteq Relatives(term[r])

\* However much the graph holds, an expansion keeps the term itself and never
\* exceeds the strategy's total (expand_concept of the three loaders).
ReadWithinLimits ==
  \A r \in Readers :
    rpc[r] = "done" => /\ term[r] \in names[r]
                       /\ Cardinality(names[r]) <= Config.total

\* The entries of synonyms.yaml with a name that is t in some case
Entries(t) ==
  {i \in DOMAIN Groups :
     \E n \in Mentioned(i) \cup Answers(Groups[i]) : Fold[n] = Fold[t]}

\* The names of which the files say one thing: one entry at most has the name
\* and that entry's canonical name, which is asked for as it is written unless
\* the files know it in every case.
Clear ==
  {t \in Names :
     \A i \in Entries(t) :
       /\ Entries(t) = {i} /\ Entries(Groups[i].canonical) = {i}
       /\ Knowing(t) # {} \/ t = Groups[i].canonical}

\* Once the migration has come to its end, and no proposal has been applied,
\* the graph gives every clear name of synonyms.yaml that has a node the
\* canonical name the file gives it, in whatever case it is asked for, and only
\* that one (get_canonical of neo4j_loader.py and of loader.py).
CanonicalAgrees ==
  mig = "done" /\ Untouched =>
    \A t \in Clear :
      SkillsCalled(t) # {} => CanonicalAnswers(t) = {FileCanonical[t]}

\* As long as no proposal has been applied the hybrid loader's canonical name
\* is the files', before, during and after a migration that is cut off
\* anywhere (hybrid_loader.py, get_canonical).
HybridCanonicalSteady ==
  Untouched => \A t \in Clear : HybridCanonical(t) = {FileCanonical[t]}

\* A hybrid expansion that finds nothing is one the files know nothing about
\* either (hybrid_loader.py, expand_concept).
FallbackHelps ==
  \A r \in Readers :
    mode = "hybrid" /\ rpc[r] = "done" /\ names[r] = {term[r]} =>
      FileExpand[term[r]] = {term[r]}

\* Which version of the files an expansion is from.  In hybrid mode one that the
\* files answer is at least as new as the last refresh that had reported success
\* when its question began, whatever was edited and renewed meanwhile.  In yaml
\* mode it is not: the pipeline keeps the loader of the start (main.py), a
\* refresh replaces the registry's only (registry.py, _refresh_yaml_cache), so
\* every expansion is from the version that the first one read, although the
\* refresh is there to let the pipeline see what was approved.
ReadIsFresh ==
  \A r \in Readers :
    version[r] # None => IF mode = "yaml" THEN cache[holder.pipeline] = version[r]
                                          ELSE version[r] >= since[r]

\* An expansion that several queries put together while the graph changes is
\* related to its term, bounded, empty only when the files are, and as new as the
\* loader of its mode makes it.
ReadsSound ==
  /\ ReadersTypeOK /\ ReadIsRelated /\ ReadWithinLimits /\ FallbackHelps
  /\ ReadIsFresh

\* The two loaders agree on canonical names.
CanonicalSteady == CanonicalAgrees /\ HybridCanonicalSteady
=============================================================================
