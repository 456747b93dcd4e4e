--------------------------- MODULE MCQuerySession ---------------------------
(***************************************************************************)
(* QuerySession for TLC: the questions of one session are interchangeable.  *)
(***************************************************************************)
EXTENDS QuerySession, TLC

CONSTANTS s1

OneSession == [q \in Questions |-> s1]
Symmetry == Permutations(Questions)

=============================================================================
