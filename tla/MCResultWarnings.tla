-------------------------- MODULE MCResultWarnings --------------------------
(* Three countries and two currencies; a cap of three rows, so that a limit*)
(* of the query can be below it, at it and above it, and leave rows out.   *)
EXTENDS ResultWarnings, TLC

Symmetry == Permutations(Country) \cup Permutations(Currency)
=============================================================================
