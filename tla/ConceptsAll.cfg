SPECIFICATION ReadersSpec
CONSTANTS
  Names <- MCNames
  Fold <- MCFold
  Groups <- MCGroups
  Categories <- MCCategories
  Types = {"skill", "category", "subcategory", "skills"}
  Tasks = {t1, t2}
  Proposals <- MCProposals
  None = None
  MaxRuns = 2
  MaxFailures = 1
  Modes = {"yaml", "hybrid"}
  Readers = {r1}
  Terms = {"ml", "Rust"}
  Config <- MCConfig
  MaxEdits = 1
SYMMETRY Symmetry
INVARIANTS
  ConceptsSound
  AppliedIsLinked
  ReadsSound
  CanonicalSteady
PROPERTIES
  ConceptsKept
CHECK_DEADLOCK FALSE
