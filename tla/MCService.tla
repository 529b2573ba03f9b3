----------------------------- MODULE MCService -----------------------------
(* One connection and one place to wait per pool: two queries contend for  *)
(* the log pool while a third request finds the queue full.                *)
EXTENDS Service

MCMaxSize == [p \in Pool |-> 1]
MCMaxWaiting == [p \in Pool |-> 1]
=============================================================================
