--------------------------- MODULE YamlOntology ----------------------------
(***************************************************************************)
(* What domain/ontology/loader.py answers from synonyms.yaml and            *)
(* schema.yaml: the canonical name of a term, its synonyms, the skills      *)
(* below a category, and the expansion of a term within the limits of the   *)
(* question's strategy.  Entries keep the order of the files, because the   *)
(* first or the last entry that matches decides.                            *)
(***************************************************************************)
EXTENDS Integers, Sequences, SequencesExt, FiniteSets

CONSTANTS
  Names,      \* names of concepts as they are spelled
  Fold,       \* toLower on those names
  Groups,     \* synonyms.yaml, skills: [main, canonical, aliases]
  Categories  \* schema.yaml, SkillCategory: [name, skills, subs]

-----------------------------------------------------------------------------
(* synonyms.yaml                                                            *)

\* The names a group answers to in _build_reverse_index.
Answers(g) == {g.main} \cup Range(g.aliases)

Knowing(t) ==
  {i \in DOMAIN Groups : \E n \in Answers(Groups[i]) : Fold[n] = Fold[t]}

\* A later group overwrites an earlier one in the reverse index.
YamlCanonical(t) ==
  IF Knowing(t) = {} THEN t ELSE Groups[Max(Knowing(t))].canonical

\* get_synonyms: the first group with that canonical name.
YamlSynonyms(t) ==
  LET c == YamlCanonical(t)
      same == {i \in DOMAIN Groups : Groups[i].canonical = c}
  IN IF same = {} THEN <<t>>
     ELSE <<c>> \o SelectSeq(Groups[Min(same)].aliases, LAMBDA a : a # c)

-----------------------------------------------------------------------------
(* schema.yaml                                                              *)

SkillsOf(top) == FlattenSeq(<<top.skills>>
                            \o [i \in DOMAIN top.subs |-> top.subs[i].skills])

\* The places of the tree called c, in the order _get_skill_children meets
\* them: a top category before its own subcategories.
Named(c) ==
  {p \in (DOMAIN Categories) \X (0 .. 9) :
     IF p[2] = 0 THEN Categories[p[1]].name = c
     ELSE /\ p[2] \in DOMAIN Categories[p[1]].subs
          /\ Categories[p[1]].subs[p[2]].name = c}

YamlChildren(c) ==
  IF Named(c) = {} THEN <<>>
  ELSE LET p == CHOOSE p \in Named(c) : \A q \in Named(c) :
                  p[1] < q[1] \/ (p[1] = q[1] /\ p[2] <= q[2])
           top == Categories[p[1]]
       IN IF p[2] = 0 THEN SkillsOf(top) ELSE top.subs[p[2]].skills

-----------------------------------------------------------------------------
(* Expansion                                                                *)

Limits(synonyms, children, total) ==
  [synonyms |-> synonyms, children |-> children, total |-> total]

FirstOf(s, n) == SubSeq(s, 1, Min({n, Len(s)}))

\* expand_concept: the term, the first of its synonyms and the first skills below
\* it, each once; of these, as many as the total allows.  Their order is left out.
YamlExpand(t, config) ==
  LET all == <<t>> \o FirstOf(YamlSynonyms(t), config.synonyms)
                   \o FirstOf(YamlChildren(YamlCanonical(t)), config.children)
      first == {i \in DOMAIN all : Cardinality({all[j] : j \in 1 .. i - 1}) < config.total}
  IN {all[i] : i \in first}
=============================================================================
