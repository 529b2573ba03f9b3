-------------------------- MODULE CoverageReasons --------------------------
(***************************************************************************)
(* What the diagnosis of an empty result (ZeroDiagnosis) and the warnings  *)
(* of a result (ResultWarnings) speak of alike.                            *)
(***************************************************************************)
CONSTANTS
  Country,
  Null     \* None in Python, NULL in SQL

(* The codes nlq/coverage_facts.py explains a zero with, or none.          *)
Reason == {"none", "PARTIAL_COVERAGE", "NO_DATA_FOR_PERIOD", "NO_MATCH_FOR_TERM"}
=============================================================================
