------------------------------ MODULE MCBudget ------------------------------
(* Two requests at a time, three days in two months.  A call costs nothing *)
(* (the model answered without usage) or 2, more than a whole day's limit, *)
(* and two such charges pass the month's.                                  *)
EXTENDS Budget, TLC

ASSUME BeganWithinBounds == IsFiniteSet(Query) /\ SpentWithinBounds

QuerySymmetry == Permutations(Query)
=============================================================================
