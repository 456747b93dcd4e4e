------------------------ MODULE MCOntologyProposals ------------------------
(***************************************************************************)
(* OntologyProposals for TLC: symmetry of the requests and of the fresh     *)
(* identifiers.                                                             *)
(***************************************************************************)
EXTENDS OntologyProposals, TLC

Symmetry == Permutations(Tasks) \cup Permutations(Ids \ Existing)

=============================================================================
