SPECIFICATION Spec
CONSTANTS
  Ids = {1, 2, 3}
  Labels = {"Employee", "Skill"}
  Names = {"a", "A", "b"}
  LowerCase <- MCLowerCase
  Combinations <- MCCombinations
  Graph <- MCGraph
  Tasks = {t1, t2, t3}
  None = None
SYMMETRY Symmetry
INVARIANTS
  Inv
  TwinsOnlyByRename
  NamesUniqueInTurn
PROPERTIES
  EdgesLostOnlyByForce
CHECK_DEADLOCK FALSE
