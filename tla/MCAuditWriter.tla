--------------------------- MODULE MCAuditWriter ---------------------------
(* One request, three tries as in the code, two attempts: none, rejected,  *)
(* accepted at once or at the second, or rejected twice.                   *)
EXTENDS AuditWriter
=============================================================================
