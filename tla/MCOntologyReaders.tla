------------------------- MODULE MCOntologyReaders -------------------------
(* A small ontology: a skill whose entry has another canonical name, which   *)
(* is also the name of a subcategory, and a skill without an entry.          *)
EXTENDS OntologyReaders

MCNames == {"ML", "ml", "AI", "Dev", "Rust"}
MCFold == [n \in MCNames |-> IF n = "ML" THEN "ml" ELSE n]
MCGroups == <<[main |-> "ML", canonical |-> "AI", aliases |-> <<"ML">>]>>
MCCategories ==
  <<[name |-> "Dev", skills |-> <<>>,
     subs |-> <<[name |-> "AI", skills |-> <<"ML", "Rust">>]>>]>>

Proposal(kind, term_, parent, canonical, relation) ==
  [kind |-> kind, term |-> term_, parent |-> parent, canonical |-> canonical,
   relation |-> relation, category |-> "skills"]

MCProposals ==
  {Proposal("concept", "ml", None, None, None),
   Proposal("synonym", "ML", None, "Rust", None)}

MCConfig == Limits(2, 2, 2)
Symmetry == Permutations(Tasks)
============================================================================
