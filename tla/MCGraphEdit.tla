---------------------------- MODULE MCGraphEdit ----------------------------
(* A graph of one edge, a free id, and two names one of which has two cases. *)
EXTENDS GraphEdit, TLC

MCLowerCase == [a |-> "a", A |-> "a", b |-> "b"]

MCCombinations == [HAS_SKILL |-> {<<"Employee", "Skill">>}]

MCGraph == [nodes |-> [i \in Ids |->
                         CASE i = 1 -> [label |-> "Employee", name |-> "a"]
                           [] i = 2 -> [label |-> "Skill", name |-> "a"]
                           [] OTHER -> None],
            edges |-> {<<1, "HAS_SKILL", 2>>}]

Symmetry == Permutations(Tasks)
=============================================================================
