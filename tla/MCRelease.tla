----------------------------- MODULE MCRelease -----------------------------
(* Three versions and four scripts: a deployment, one that fails, one that *)
(* follows it and a rollback.                                              *)
EXTENDS Release
=============================================================================
