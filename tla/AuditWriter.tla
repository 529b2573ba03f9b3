---------------------------- MODULE AuditWriter ----------------------------
(***************************************************************************)
(* audit/writer.py: write_audit_log puts the query_log row and its         *)
(* query_attempt rows in one transaction, and runs that transaction up to  *)
(* MaxTries times when PostgreSQL or the pool fail for a while.  query_id  *)
(* is unique in query_log, so a try that meets the row of an earlier one   *)
(* works on that row.                                                      *)
(*                                                                         *)
(* Each try runs in a session of its own.  Losing a connection is not a    *)
(* rollback: the server may have committed already, may still commit, or   *)
(* may keep the transaction open, and its lock on the query_id with it,    *)
(* until it notices.                                                       *)
(***************************************************************************)
EXTENDS Integers, Sequences, FiniteSets

CONSTANTS
  Query,         \* audit tasks, by query_id
  Outcome,       \* outcomes a request may end with
  Rejected,      \* the outcome of a rejected generation attempt
  RowCount,      \* row counts of a result
  Null,          \* None in Python, NULL in SQL
  MaxAttempts,   \* sql_max_attempts
  MaxTries       \* range(3) in write_audit_log

ASSUME AuditWriterAssumption ==
  /\ Rejected \notin Outcome
  /\ Null \notin Outcome \cup RowCount \cup {Rejected}
  /\ MaxAttempts \in Nat
  /\ MaxTries \in Nat \ {0}

(* GenerationAttempt: a rejected attempt carries its outcome, the accepted *)
(* one, the last if there is one, waits for that of the request.           *)
Attempt == [accepted : {FALSE}, outcome : {Rejected}]
             \cup [accepted : {TRUE}, outcome : {Null}]

Attempts ==
  UNION {{s \in [1..n -> Attempt] : \A i \in 1..(n-1) : ~s[i].accepted} :
           n \in 0..MaxAttempts}

Job == [outcome : Outcome, attempts : Attempts, rowCount : RowCount \cup {Null}]

Try == 1..MaxTries

RowId == Query \X Try       \* a serial: no two tries are given the same id

ASSUME NullIsNoValue == Null \notin Job \cup RowId

NoSession == [status |-> "none", logId |-> Null, done |-> 0]

VARIABLES
  queryLog,      \* analytics.query_log
  queryAttempt,  \* analytics.query_attempt
  session,       \* the transaction of each try, as the server sees it
  job,           \* the arguments of write_audit_log
  pc,            \* where the audit task is
  try            \* attempt_no, from 1

vars == <<queryLog, queryAttempt, session, job, pc, try>>

Init ==
  /\ queryLog = {}
  /\ queryAttempt = {}
  /\ session = [q \in Query |-> [t \in Try |-> NoSession]]
  /\ job = [q \in Query |-> Null]
  /\ pc = [q \in Query |-> "idle"]
  /\ try = [q \in Query |-> 1]

Goto(q, l) == pc' = [pc EXCEPT ![q] = l]

InTransaction == {"query_log", "attempts", "commit"}

Working == InTransaction \cup {"connect", "sleep"}

Mine(q) == session[q][try[q]]

Live == {"open", "committing"}

Begin(q, j) ==
  /\ pc[q] = "idle"
  /\ job' = [job EXCEPT ![q] = j]
  /\ Goto(q, "connect")
  /\ UNCHANGED <<queryLog, queryAttempt, session, try>>

(* pool.connection() and BEGIN.                                            *)
Connect(q) ==
  /\ pc[q] = "connect"
  /\ session' = [session EXCEPT ![q][try[q]].status = "open"]
  /\ Goto(q, "query_log")
  /\ UNCHANGED <<queryLog, queryAttempt, job, try>>

(* A slip: insert without the on conflict clause, on a table without the   *)
(* unique key.                                                             *)
WriteQueryLogAlwaysNew(q) ==
  /\ pc[q] = "query_log"
  /\ session' = [session EXCEPT ![q][try[q]].logId = <<q, try[q]>>]
  /\ Goto(q, "attempts")
  /\ UNCHANGED <<queryLog, queryAttempt, job, try>>

(* A slip: the parent row is written outside the transaction.              *)
WriteQueryLogAutocommit(q) ==
  /\ pc[q] = "query_log"
  /\ IF \E row \in queryLog : row.query = q
     THEN /\ session' = [session EXCEPT ![q][try[q]].logId =
                           (CHOOSE row \in queryLog : row.query = q).id]
          /\ UNCHANGED queryLog
     ELSE /\ session' = [session EXCEPT ![q][try[q]].logId = <<q, try[q]>>]
          /\ queryLog' = queryLog \cup {[id |-> <<q, try[q]>>, query |-> q,
                                         outcome |-> job[q].outcome]}
  /\ Goto(q, "attempts")
  /\ UNCHANGED <<queryAttempt, job, try>>

(* insert ... on conflict (query_id) do update ... returning id.  A session*)
(* that inserted or locked the row and has not ended makes this one wait.  *)
WriteQueryLog(q) ==
  /\ pc[q] = "query_log"
  /\ \A t \in Try \ {try[q]} :
       ~(session[q][t].status \in Live /\ session[q][t].logId # Null)
  /\ session' = [session EXCEPT ![q][try[q]].logId =
                   IF \E row \in queryLog : row.query = q
                   THEN (CHOOSE row \in queryLog : row.query = q).id
                   ELSE <<q, try[q]>>]
  /\ Goto(q, "attempts")
  /\ UNCHANGED <<queryLog, queryAttempt, job, try>>

(* write_query_attempts: one insert per attempt, in order.                 *)
WriteQueryAttempt(q) ==
  /\ pc[q] = "attempts"
  /\ Mine(q).done < Len(job[q].attempts)
  /\ session' = [session EXCEPT ![q][try[q]].done = @ + 1]
  /\ UNCHANGED <<queryLog, queryAttempt, job, pc, try>>

SendCommit(q) ==
  /\ pc[q] = "attempts"
  /\ Mine(q).done = Len(job[q].attempts)
  /\ session' = [session EXCEPT ![q][try[q]].status = "committing"]
  /\ Goto(q, "commit")
  /\ UNCHANGED <<queryLog, queryAttempt, job, try>>

(* The accepted attempt is completed with the outcome of the request and   *)
(* the row count of its result.                                            *)
AttemptRow(j, id, n) ==
  [logId    |-> id,
   no       |-> n,
   outcome  |-> IF j.attempts[n].outcome # Null THEN j.attempts[n].outcome
                ELSE j.outcome,
   rowCount |-> IF j.attempts[n].accepted THEN j.rowCount ELSE Null]

(* The server makes a transaction's rows visible all together.             *)
ServerCommits(q, t) ==
  LET s    == session[q][t]
      rows == {AttemptRow(job[q], s.logId, n) : n \in 1..s.done}
  IN  /\ s.status = "committing"
      /\ session' = [session EXCEPT ![q][t].status = "committed"]
      /\ queryLog' = IF s.logId = <<q, t>>
                     THEN queryLog \cup {[id |-> s.logId, query |-> q,
                                          outcome |-> job[q].outcome]}
                     ELSE queryLog
      /\ queryAttempt' =
           {a \in queryAttempt : \A r \in rows : <<a.logId, a.no>> # <<r.logId, r.no>>}
             \cup rows
      /\ UNCHANGED <<job, pc, try>>

(* A slip: the task takes the COMMIT for granted once it is sent.          *)
CommitAckedUnseen(q) ==
  /\ pc[q] = "commit"
  /\ Goto(q, "written")
  /\ UNCHANGED <<queryLog, queryAttempt, session, job, try>>

CommitAcked(q) ==
  /\ pc[q] = "commit"
  /\ Mine(q).status = "committed"
  /\ Goto(q, "written")
  /\ UNCHANGED <<queryLog, queryAttempt, session, job, try>>

(* A slip: the last failure is swallowed, and the task ends as if written. *)
NextTryOrSilence(q) == Goto(q, IF try[q] = MaxTries THEN "written" ELSE "sleep")

(* except TRANSIENT_LOG_ERRORS: sleep and try again; the last time, raise. *)
NextTryOrRaise(q) == Goto(q, IF try[q] = MaxTries THEN "failed" ELSE "sleep")

(* No connection: the pool is exhausted or the database unreachable.       *)
ConnectFails(q) ==
  /\ pc[q] = "connect"
  /\ NextTryOrRaise(q)
  /\ UNCHANGED <<queryLog, queryAttempt, session, job, try>>

(* The server reports an error (lock or statement timeout, shutdown, a     *)
(* refused COMMIT); the transaction is rolled back.                        *)
ServerRefuses(q) ==
  /\ pc[q] \in InTransaction
  /\ Mine(q).status \in Live
  /\ session' = [session EXCEPT ![q][try[q]].status = "aborted"]
  /\ UNCHANGED <<queryLog, queryAttempt, job, try>>

TransientError(q) == ServerRefuses(q) /\ NextTryOrRaise(q)

(* Any other error is not retried.                                         *)
PermanentError(q) == ServerRefuses(q) /\ Goto(q, "failed")

(* The connection breaks.  The task only knows it has no answer; what the  *)
(* server does with the transaction is up to ServerCommits and             *)
(* ServerAborts.                                                           *)
ConnectionLost(q) ==
  /\ pc[q] \in InTransaction
  /\ NextTryOrRaise(q)
  /\ UNCHANGED <<queryLog, queryAttempt, session, job, try>>

(* A transaction nobody speaks to any more: rolled back when the server    *)
(* notices (idle_in_transaction_session_timeout at the latest).            *)
Orphan(q, t) ==
  /\ session[q][t].status \in Live
  /\ t = try[q] => pc[q] \notin InTransaction

ServerAborts(q, t) ==
  /\ Orphan(q, t)
  /\ session' = [session EXCEPT ![q][t].status = "aborted"]
  /\ UNCHANGED <<queryLog, queryAttempt, job, pc, try>>

WakeUp(q) ==
  /\ pc[q] = "sleep"
  /\ try' = [try EXCEPT ![q] = @ + 1]
  /\ Goto(q, "connect")
  /\ UNCHANGED <<queryLog, queryAttempt, session, job>>

(* The API process dies.                                                   *)
Kill(q) ==
  /\ pc[q] \in Working
  /\ Goto(q, "killed")
  /\ UNCHANGED <<queryLog, queryAttempt, session, job, try>>

TaskStep(q) ==
  \/ Connect(q) \/ ConnectFails(q)
  \/ WriteQueryLog(q) \/ WriteQueryAttempt(q) \/ SendCommit(q) \/ CommitAcked(q)
  \/ TransientError(q) \/ PermanentError(q) \/ ConnectionLost(q)
  \/ WakeUp(q)

Next ==
  \E q \in Query :
    \/ \E j \in Job : Begin(q, j)
    \/ TaskStep(q)
    \/ \E t \in Try : ServerCommits(q, t) \/ ServerAborts(q, t)
    \/ Kill(q)

(* The event loop runs a task that can run, and every await of this one    *)
(* ends: pool and lock timeouts, and TCP for an answer that never comes.   *)
Fairness ==
  /\ \A q \in Query : WF_vars(TaskStep(q))
  /\ \A q \in Query, t \in Try : WF_vars(ServerAborts(q, t))

Spec == Init /\ [][Next]_vars /\ Fairness
-----------------------------------------------------------------------------
Session ==
  [status : {"none", "open", "committing", "committed", "aborted"},
   logId : RowId \cup {Null}, done : 0..MaxAttempts]

TypeOK ==
  /\ queryLog \subseteq [id : RowId, query : Query, outcome : Outcome]
  /\ queryAttempt \subseteq [logId : RowId, no : 1..MaxAttempts,
                             outcome : Outcome \cup {Rejected},
                             rowCount : RowCount \cup {Null}]
  /\ session \in [Query -> [Try -> Session]]
  /\ job \in [Query -> Job \cup {Null}]
  /\ pc \in [Query -> Working \cup {"idle", "written", "failed", "killed"}]
  /\ try \in [Query -> Try]

(* "Reintentos transitorios idempotentes por query_id": retries never      *)
(* leave two rows for a request, whoever of them committed.                *)
OneRowPerQuery ==
  \A r, s \in queryLog : r.query = s.query => r = s

AttemptsOf(row) == {a \in queryAttempt : a.logId = row.id}

(* "Confirma padre e intentos juntos": a row is never seen without all of  *)
(* its attempts, nor an attempt without its row, and the attempts tell the *)
(* same story as the row: the accepted one ended as the request did.       *)
RecordIsWhole ==
  /\ \A row \in queryLog :
       LET j == job[row.query]
       IN  /\ row.outcome = j.outcome
           /\ {<<a.no, a.outcome, a.rowCount>> : a \in AttemptsOf(row)} =
                {IF j.attempts[n].accepted
                 THEN <<n, j.outcome, j.rowCount>>
                 ELSE <<n, Rejected, Null>> : n \in DOMAIN j.attempts}
  /\ \A a \in queryAttempt : \E row \in queryLog : row.id = a.logId

(* done is only sent after the COMMIT: whoever is told the record is       *)
(* written finds it, also after a restart.                                 *)
WrittenIsDurable ==
  \A q \in Query :
    pc[q] = "written" => \E row \in queryLog : row.query = q

(* The two tables, three transactions and retries are the one atomic log   *)
(* the pipeline relies on.                                                 *)
Reply(q) ==
  CASE pc[q] \in Working -> "pending"
    [] OTHER             -> pc[q]

Log == INSTANCE AuditLog WITH
  Entry   <- Job,
  NoEntry <- Null,
  entry   <- job,
  log     <- [q \in Query |->
                IF \E row \in queryLog : row.query = q THEN job[q] ELSE Null],
  reply   <- [q \in Query |-> Reply(q)]

ImplementsAuditLog == Log!Spec
=============================================================================
