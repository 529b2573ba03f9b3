--------------------------- MODULE MCQueryStream ---------------------------
(* One stream, two attempts at SQL and one at the narrative: a run may be  *)
(* answered at once, corrected or given up.  A call costs 1; the day's     *)
(* limit is 1 and the calendar may turn once.                              *)
EXTENDS QueryStream
=============================================================================
