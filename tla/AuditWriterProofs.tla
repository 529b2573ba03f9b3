------------------------- MODULE AuditWriterProofs -------------------------
(***************************************************************************)
(* What write_audit_log promises, for any number of requests, attempts and *)
(* tries: that a request has one row and all of its attempts whatever      *)
(* connections break, and that the two tables with their transactions and  *)
(* retries are the atomic log of AuditLog.                                 *)
(*                                                                         *)
(* All of it rests on the lock: a session that holds the query_id keeps    *)
(* the others out until it ends (OneHolder), so the row it found missing   *)
(* is missing still when it commits (KnowsTheRow).                         *)
(***************************************************************************)
EXTENDS AuditWriter, SequenceTheorems, TLAPS

Holds(q, t) == session[q][t].status \in Live /\ session[q][t].logId # Null

RowOf(q, id) == \E row \in queryLog : row.query = q /\ row.id = id

NoRowOf(q) == \A row \in queryLog : row.query # q

OneHolder(q, t) ==
  Holds(q, t) => \A u \in Try \ {t} : ~Holds(q, u)

KnowsTheRow(q, t) ==
  Holds(q, t) => \/ session[q][t].logId = <<q, t>> /\ NoRowOf(q)
                 \/ RowOf(q, session[q][t].logId)

(* A transaction that commits, or has, carries the whole record.           *)
CommitsTheWhole(q, t) ==
  /\ session[q][t].status \in {"committing", "committed"} =>
       session[q][t].logId # Null /\ session[q][t].done = Len(job[q].attempts)
  /\ session[q][t].status = "committed" => RowOf(q, session[q][t].logId)

(* The session of a try is where the task is, until the task leaves it.    *)
FollowsTheTask(q, t) ==
  /\ t > try[q] \/ pc[q] = "idle" => session[q][t] = NoSession
  /\ t = try[q] =>
       /\ pc[q] = "connect" => session[q][t] = NoSession
       /\ pc[q] \in {"query_log", "attempts"} => session[q][t].status = "open"
       /\ pc[q] = "query_log" => session[q][t].logId = Null
       /\ pc[q] \in {"attempts", "commit"} => session[q][t].logId # Null
       /\ pc[q] = "commit" => session[q][t].status \in {"committing", "committed"}
       /\ pc[q] = "written" => session[q][t].status = "committed"

SessionOK(q, t) ==
  OneHolder(q, t) /\ KnowsTheRow(q, t) /\ CommitsTheWhole(q, t) /\ FollowsTheTask(q, t)

(* A row is the work of one session, which committed it.                   *)
RowOK(row) ==
  /\ \E t \in Try : row.id = <<row.query, t>> /\ session[row.query][t].status = "committed"
  /\ row.outcome = job[row.query].outcome

TaskOK(q) ==
  /\ IF pc[q] = "idle" THEN job[q] = Null ELSE job[q] \in Job
  /\ pc[q] = "sleep" => try[q] < MaxTries

(* query_attempt has the attempts of the rows of query_log, and no other.  *)
AttemptsMatchRows ==
  queryAttempt =
    UNION {{AttemptRow(job[row.query], row.id, n) : n \in 1..Len(job[row.query].attempts)} :
             row \in queryLog}

IInv ==
  /\ TypeOK
  /\ \A q \in Query, t \in Try : SessionOK(q, t)
  /\ \A row \in queryLog : RowOK(row)
  /\ \A q \in Query : TaskOK(q)
  /\ OneRowPerQuery
  /\ AttemptsMatchRows

LEMMA InitIInv == Init => IInv
<1>. SUFFICES ASSUME Init PROVE IInv
  OBVIOUS
<1>1. NoSession \in Session /\ 1 \in Try
  BY AuditWriterAssumption DEF NoSession, Session, Try
<1>2. TypeOK
  BY <1>1 DEF Init, TypeOK, Working, InTransaction
<1>3. \A q \in Query, t \in Try : SessionOK(q, t)
  <2>. SUFFICES ASSUME NEW q \in Query, NEW t \in Try PROVE SessionOK(q, t)
    OBVIOUS
  <2>1. session[q][t] = NoSession /\ pc[q] = "idle"
    BY DEF Init
  <2>2. QED
    BY <2>1 DEF SessionOK, OneHolder, KnowsTheRow, CommitsTheWhole, FollowsTheTask, Holds,
                NoSession, Live
<1>4. QED
  BY <1>2, <1>3 DEF Init, IInv, TaskOK, OneRowPerQuery, AttemptsMatchRows

(* The attempts of a request, and the rows they become.                    *)
LEMMA AttemptsOfJob ==
  ASSUME NEW j \in Job
  PROVE  /\ j.attempts \in Seq(Attempt) /\ Len(j.attempts) \in 0..MaxAttempts
         /\ j.outcome \in Outcome /\ j.rowCount \in RowCount \cup {Null}
<1>1. PICK n \in 0..MaxAttempts : j.attempts \in [1..n -> Attempt]
  BY DEF Job, Attempts
<1>2. n \in Nat
  BY <1>1, AuditWriterAssumption
<1>3. j.attempts \in Seq(Attempt) /\ Len(j.attempts) = n
  BY <1>1, <1>2
<1>4. QED
  BY <1>1, <1>3 DEF Job

LEMMA AttemptRowType ==
  ASSUME NEW j \in Job, NEW id \in RowId, NEW n \in 1..Len(j.attempts)
  PROVE  AttemptRow(j, id, n) \in [logId : RowId, no : 1..MaxAttempts,
                                   outcome : Outcome \cup {Rejected},
                                   rowCount : RowCount \cup {Null}]
<1>0. j.attempts \in Seq(Attempt) /\ Len(j.attempts) \in 0..MaxAttempts
  BY AttemptsOfJob
<1>1. j.attempts[n] \in Attempt /\ n \in 1..MaxAttempts
  BY <1>0, AuditWriterAssumption
<1>2. j.attempts[n].outcome \in {Rejected, Null}
  BY <1>1 DEF Attempt
<1>3. QED
  BY <1>1, <1>2, AttemptsOfJob DEF AttemptRow

(* A step of one task that leaves the tables alone.                        *)
LEMMA TaskKeeps ==
  ASSUME IInv, TypeOK', NEW q \in Query,
         UNCHANGED <<queryLog, queryAttempt, job>>,
         pc[q] # "idle", pc'[q] # "idle",
         \A r \in Query \ {q} : session'[r] = session[r] /\ pc'[r] = pc[r] /\ try'[r] = try[r],
         \A t \in Try : session[q][t].status = "committed" => session'[q][t].status = "committed",
         \A t \in Try : SessionOK(q, t)', TaskOK(q)'
  PROVE  IInv'
<1>1. ASSUME NEW r \in Query, NEW t \in Try PROVE SessionOK(r, t)'
  <2>1. CASE r = q
    BY <2>1
  <2>2. CASE r # q
    <3>1. SessionOK(r, t) /\ session'[r] = session[r] /\ pc'[r] = pc[r] /\ try'[r] = try[r]
      BY <2>2 DEF IInv
    <3>2. QED
      BY <3>1 DEF SessionOK, OneHolder, KnowsTheRow, CommitsTheWhole, FollowsTheTask,
                  Holds, RowOf, NoRowOf
  <2>3. QED
    BY <2>1, <2>2
<1>2. ASSUME NEW row \in queryLog PROVE RowOK(row)'
  <2>1. row.query \in Query /\ RowOK(row)
    BY DEF IInv, TypeOK
  <2>2. PICK t \in Try : row.id = <<row.query, t>>
                         /\ session[row.query][t].status = "committed"
    BY <2>1 DEF RowOK
  <2>3. session'[row.query][t].status = "committed"
    BY <2>1, <2>2
  <2>4. QED
    BY <2>1, <2>2, <2>3 DEF RowOK
<1>3. \A r \in Query : TaskOK(r)'
  BY DEF IInv, TaskOK
<1>4. OneRowPerQuery' /\ AttemptsMatchRows'
  BY DEF IInv, OneRowPerQuery, AttemptsMatchRows, AttemptRow
<1>5. QED
  BY <1>1, <1>2, <1>3, <1>4 DEF IInv

(* The types, action by action.                                            *)
LEMMA TaskTypes ==
  ASSUME IInv, NEW q \in Query, TaskStep(q) \/ Kill(q)
  PROVE  TypeOK'
<1>. USE DEF TypeOK, Goto, Working, InTransaction
<1>1. try[q] \in Try /\ Mine(q) \in Session
  BY DEF IInv, Mine
<1>2. CASE Connect(q) \/ SendCommit(q) \/ TransientError(q) \/ PermanentError(q)
  <2>1. PICK new \in {"open", "committing", "aborted"} :
          session' = [session EXCEPT ![q][try[q]].status = new]
    BY <1>2 DEF Connect, SendCommit, TransientError, PermanentError, ServerRefuses
  <2>2. [Mine(q) EXCEPT !.status = new] \in Session
    BY <1>1 DEF Session
  <2>3. session' \in [Query -> [Try -> Session]]
    BY <1>1, <2>1, <2>2 DEF IInv, Mine
  <2>4. QED
    BY <1>2, <2>3 DEF IInv, Connect, SendCommit, TransientError, PermanentError, ServerRefuses,
                      NextTryOrRaise
<1>3. CASE ConnectFails(q) \/ CommitAcked(q) \/ ConnectionLost(q) \/ Kill(q)
  BY <1>3 DEF IInv, ConnectFails, CommitAcked, ConnectionLost, Kill, NextTryOrRaise
<1>4. CASE WakeUp(q)
  <2>1. try[q] + 1 \in Try
    BY <1>1, <1>4, AuditWriterAssumption DEF IInv, TaskOK, WakeUp, Try
  <2>2. QED
    BY <1>4, <2>1 DEF IInv, WakeUp
<1>5. CASE WriteQueryLog(q)
  <2>. DEFINE row == CHOOSE row \in queryLog : row.query = q
              id == IF \E r \in queryLog : r.query = q THEN row.id ELSE <<q, try[q]>>
  <2>1. (\E r \in queryLog : r.query = q) => row \in queryLog
    OBVIOUS
  <2>2. id \in RowId
    BY <1>1, <2>1 DEF IInv, RowId
  <2>3. [Mine(q) EXCEPT !.logId = id] \in Session
    <3>. HIDE DEF id
    <3>1. QED
      BY <1>1, <2>2 DEF Session
  <2>4. session' = [session EXCEPT ![q] = [@ EXCEPT ![try[q]] = [Mine(q) EXCEPT !.logId = id]]]
    BY <1>5 DEF WriteQueryLog, Mine
  <2>5. session' \in [Query -> [Try -> Session]]
    <3>. HIDE DEF id
    <3>1. QED
      BY <1>1, <2>3, <2>4 DEF IInv
  <2>6. pc' = [pc EXCEPT ![q] = "attempts"] /\ UNCHANGED <<queryLog, queryAttempt, job, try>>
    BY <1>5 DEF WriteQueryLog
  <2>7. QED
    BY <2>5, <2>6 DEF IInv
<1>6. CASE WriteQueryAttempt(q)
  <2>1. job[q] \in Job /\ Mine(q).done < Len(job[q].attempts)
    BY <1>6 DEF WriteQueryAttempt, IInv, TaskOK
  <2>2. Mine(q).done + 1 \in 0..MaxAttempts
    BY <1>1, <2>1, AttemptsOfJob, AuditWriterAssumption DEF Session
  <2>3. [Mine(q) EXCEPT !.done = @ + 1] \in Session
    BY <1>1, <2>2 DEF Session
  <2>4. session' = [session EXCEPT ![q] = [@ EXCEPT ![try[q]] = [Mine(q) EXCEPT !.done = @ + 1]]]
    BY <1>6 DEF WriteQueryAttempt, Mine
  <2>5. session' \in [Query -> [Try -> Session]]
    BY <1>1, <2>3, <2>4 DEF IInv
  <2>6. QED
    BY <1>6, <2>5 DEF IInv, WriteQueryAttempt
<1>7. QED
  BY <1>2, <1>3, <1>4, <1>5, <1>6 DEF TaskStep

(* What a task step leaves as it was.                                      *)
LEMMA TaskFrame ==
  ASSUME IInv, NEW q \in Query, TaskStep(q) \/ Kill(q)
  PROVE  /\ UNCHANGED <<queryLog, queryAttempt, job>>
         /\ pc[q] # "idle" /\ pc'[q] # "idle"
         /\ \A r \in Query \ {q} :
              session'[r] = session[r] /\ pc'[r] = pc[r] /\ try'[r] = try[r]
         /\ \A t \in Try \ {try[q]} : session'[q][t] = session[q][t]
         /\ ~WakeUp(q) => try' = try
<1>. USE DEF IInv, TypeOK, Goto, NextTryOrRaise
<1>1. CASE Connect(q) \/ ConnectFails(q) \/ WriteQueryLog(q) \/ WriteQueryAttempt(q)
  BY <1>1 DEF Connect, ConnectFails, WriteQueryLog, WriteQueryAttempt
<1>2. CASE SendCommit(q) \/ CommitAcked(q) \/ WakeUp(q)
  BY <1>2 DEF SendCommit, CommitAcked, WakeUp
<1>3. CASE TransientError(q) \/ PermanentError(q)
  BY <1>3 DEF TransientError, PermanentError, ServerRefuses, InTransaction
<1>4. CASE ConnectionLost(q) \/ Kill(q)
  BY <1>4 DEF ConnectionLost, Kill, InTransaction, Working
<1>5. QED
  BY <1>1, <1>2, <1>3, <1>4 DEF TaskStep

(* Where the session stays as it is, only the place of the task counts.    *)
LEMMA SameSession ==
  ASSUME IInv, NEW q \in Query, NEW t \in Try,
         UNCHANGED <<session, queryLog, job>>, FollowsTheTask(q, t)'
  PROVE  SessionOK(q, t)'
BY DEF IInv, SessionOK, OneHolder, KnowsTheRow, CommitsTheWhole, Holds, RowOf, NoRowOf

(* A try that did not hold the row, and does not now, disturbs no other.   *)
LEMMA NoNewHolder ==
  ASSUME IInv, NEW q \in Query, NEW t0 \in Try,
         UNCHANGED <<queryLog, job>>,
         \A t \in Try \ {t0} : session'[q][t] = session[q][t],
         Holds(q, t0)' => Holds(q, t0) /\ session'[q][t0].logId = session[q][t0].logId,
         CommitsTheWhole(q, t0)', \A t \in Try : FollowsTheTask(q, t)'
  PROVE  \A t \in Try : SessionOK(q, t)'
<1>. SUFFICES ASSUME NEW t \in Try PROVE SessionOK(q, t)'
  OBVIOUS
<1>1. SessionOK(q, t) /\ SessionOK(q, t0)
  BY DEF IInv
<1>2. \A u \in Try : Holds(q, u)' => Holds(q, u)
  BY DEF Holds
<1>3. OneHolder(q, t)'
  BY <1>1, <1>2 DEF SessionOK, OneHolder
<1>4. KnowsTheRow(q, t)'
  BY <1>1, <1>2 DEF SessionOK, KnowsTheRow, RowOf, NoRowOf
<1>5. CommitsTheWhole(q, t)'
  BY <1>1 DEF SessionOK, CommitsTheWhole, RowOf
<1>6. QED
  BY <1>3, <1>4, <1>5 DEF SessionOK

LEMMA TaskSessions ==
  ASSUME IInv, NEW q \in Query, TaskStep(q) \/ Kill(q)
  PROVE  \A t \in Try : SessionOK(q, t)'
<1>. USE DEF Goto, NextTryOrRaise, InTransaction, Working, Mine
<1>0. PICK t0 \in Try : t0 = try[q]
  BY DEF IInv, TypeOK
<1>. DEFINE s == session[q][t0]
<1>1. /\ t0 = try[q] /\ s \in Session
      /\ session \in [Query -> [Try -> Session]] /\ try \in [Query -> Try]
      /\ pc \in [Query -> Working \cup {"idle", "written", "failed", "killed"}]
  BY <1>0 DEF IInv, TypeOK
<1>2. \A t \in Try : FollowsTheTask(q, t) /\ CommitsTheWhole(q, t)
  BY DEF IInv, SessionOK
<1>3. /\ UNCHANGED <<queryLog, job>>
      /\ \A t \in Try \ {t0} : session'[q][t] = session[q][t]
      /\ ~WakeUp(q) => try' = try
  BY <1>0, TaskFrame
<1>4. CASE ConnectFails(q) \/ CommitAcked(q) \/ ConnectionLost(q) \/ Kill(q)
  <2>1. session' = session /\ try' = try
    BY <1>4 DEF ConnectFails, CommitAcked, ConnectionLost, Kill
  <2>2. \A t \in Try : FollowsTheTask(q, t)'
    BY <1>1, <1>2, <1>4, <2>1
      DEF FollowsTheTask, ConnectFails, CommitAcked, ConnectionLost, Kill
  <2>3. QED
    BY <1>3, <2>1, <2>2, SameSession
<1>5. CASE WakeUp(q)
  <2>1. \A t \in Try : FollowsTheTask(q, t)'
    BY <1>1, <1>2, <1>5 DEF FollowsTheTask, WakeUp, Try
  <2>2. QED
    BY <1>3, <1>5, <2>1, SameSession DEF WakeUp
<1>6. CASE Connect(q)
  <2>1. s = NoSession /\ session'[q][t0] = [s EXCEPT !.status = "open"]
    BY <1>1, <1>2, <1>6 DEF Connect, FollowsTheTask
  <2>2. session'[q][t0].status = "open" /\ session'[q][t0].logId = Null
    BY <2>1 DEF NoSession
  <2>3. \A t \in Try : FollowsTheTask(q, t)'
    BY <1>1, <1>2, <1>3, <1>6, <2>2 DEF Connect, FollowsTheTask, Try
  <2>4. CommitsTheWhole(q, t0)' /\ ~Holds(q, t0)'
    BY <1>3, <1>6, <2>2 DEF Connect, CommitsTheWhole, Holds
  <2>5. QED
    BY <1>1, <1>3, <2>3, <2>4, NoNewHolder
<1>7. CASE WriteQueryAttempt(q)
  <2>1. session'[q][t0] = [s EXCEPT !.done = @ + 1] /\ pc[q] = "attempts" /\ pc' = pc
    BY <1>1, <1>7 DEF WriteQueryAttempt
  <2>2. session'[q][t0].status = s.status /\ session'[q][t0].logId = s.logId
    BY <1>1, <2>1 DEF Session
  <2>3. s.status = "open"
    BY <1>1, <1>2, <2>1 DEF FollowsTheTask
  <2>4. \A t \in Try : FollowsTheTask(q, t)'
    BY <1>1, <1>2, <1>3, <1>7, <2>1, <2>2, <2>3
      DEF WriteQueryAttempt, FollowsTheTask, Try
  <2>5. CommitsTheWhole(q, t0)' /\ (Holds(q, t0)' => Holds(q, t0))
    BY <1>3, <1>7, <2>2, <2>3 DEF WriteQueryAttempt, CommitsTheWhole, Holds
  <2>6. QED
    BY <1>1, <1>3, <2>2, <2>4, <2>5, NoNewHolder
<1>8. CASE SendCommit(q)
  <2>1. /\ session'[q][t0] = [s EXCEPT !.status = "committing"]
        /\ pc[q] = "attempts" /\ pc'[q] = "commit" /\ s.done = Len(job[q].attempts)
    BY <1>1, <1>8 DEF SendCommit
  <2>2. /\ session'[q][t0].status = "committing"
        /\ session'[q][t0].logId = s.logId /\ session'[q][t0].done = s.done
    BY <1>1, <2>1 DEF Session
  <2>3. s.status = "open" /\ s.logId # Null
    BY <1>2, <2>1, <1>1 DEF FollowsTheTask
  <2>4. \A t \in Try : FollowsTheTask(q, t)'
    BY <1>1, <1>2, <1>3, <1>8, <2>1, <2>2, <2>3 DEF SendCommit, FollowsTheTask, Try
  <2>5. CommitsTheWhole(q, t0)' /\ (Holds(q, t0)' => Holds(q, t0))
    BY <1>3, <1>8, <2>1, <2>2, <2>3 DEF SendCommit, CommitsTheWhole, Holds, Live
  <2>6. QED
    BY <1>1, <1>3, <2>2, <2>4, <2>5, NoNewHolder
<1>9. CASE TransientError(q) \/ PermanentError(q)
  <2>0. ServerRefuses(q) /\ pc'[q] \in {"sleep", "failed"}
    BY <1>1, <1>9 DEF TransientError, PermanentError
  <2>1. /\ session'[q][t0] = [s EXCEPT !.status = "aborted"]
        /\ pc'[q] \in {"sleep", "failed"} /\ pc[q] \in InTransaction /\ try' = try
    BY <1>1, <2>0, <1>9, <1>3 DEF ServerRefuses, TransientError, PermanentError, WakeUp
  <2>2. session'[q][t0].status = "aborted"
    BY <1>1, <2>1 DEF Session
  <2>3. \A t \in Try : FollowsTheTask(q, t)'
    BY <1>1, <1>2, <1>3, <2>1, <2>2 DEF FollowsTheTask, Try
  <2>4. CommitsTheWhole(q, t0)' /\ ~Holds(q, t0)'
    BY <1>3, <2>1, <2>2 DEF CommitsTheWhole, Holds, Live
  <2>5. QED
    BY <1>1, <1>3, <2>3, <2>4, NoNewHolder
<1>10. CASE WriteQueryLog(q)
  <2>. DEFINE found == CHOOSE row \in queryLog : row.query = q
              id == IF \E r \in queryLog : r.query = q THEN found.id ELSE <<q, t0>>
  <2>1. /\ session'[q][t0] = [s EXCEPT !.logId = id]
        /\ pc[q] = "query_log" /\ pc'[q] = "attempts" /\ try' = try
        /\ \A t \in Try \ {t0} : ~Holds(q, t)
    BY <1>1, <1>10 DEF WriteQueryLog, Holds
  <2>2. (\E r \in queryLog : r.query = q) => found \in queryLog /\ found.query = q
    OBVIOUS
  <2>3. id \in RowId /\ (RowOf(q, id) \/ (id = <<q, t0>> /\ NoRowOf(q)))
    <3>1. CASE \E r \in queryLog : r.query = q
      <4>1. id = found.id /\ found \in queryLog /\ found.query = q
        BY <2>2, <3>1
      <4>2. found.id \in RowId /\ \E r \in queryLog : r.query = q /\ r.id = found.id
        <5>. HIDE DEF found
        <5>1. QED
          BY <4>1 DEF IInv, TypeOK
      <4>3. id \in RowId /\ RowOf(q, id)
        BY <4>1, <4>2 DEF RowOf
      <4>4. QED
        BY <4>3
    <3>2. CASE ~\E r \in queryLog : r.query = q
      BY <3>2 DEF RowId, NoRowOf
    <3>3. QED
      BY <3>1, <3>2
  <2>4. id # Null
    BY <2>3, NullIsNoValue
  <2>. HIDE DEF found, id
  <2>5. session'[q][t0].status = s.status /\ session'[q][t0].logId = id
    BY <1>1, <2>1 DEF Session
  <2>6. s.status = "open"
    BY <1>1, <1>2, <2>1 DEF FollowsTheTask
  <2>7. ASSUME NEW t \in Try PROVE SessionOK(q, t)'
    <3>1. FollowsTheTask(q, t)'
      <4>1. CASE t = t0
        <5>1. ~(t > try'[q])
          BY <1>1, <2>1, <4>1 DEF Try
        <5>2. /\ pc'[q] = "attempts"
              /\ session'[q][t].status = "open" /\ session'[q][t].logId # Null
          BY <2>1, <2>4, <2>5, <2>6, <4>1
        <5>3. QED
          BY <5>1, <5>2 DEF FollowsTheTask
      <4>2. CASE t # t0
        BY <1>1, <1>2, <1>3, <2>1, <4>2 DEF FollowsTheTask
      <4>3. QED
        BY <4>1, <4>2
    <3>2. CommitsTheWhole(q, t)'
      BY <1>2, <1>3, <2>5, <2>6 DEF CommitsTheWhole, RowOf
    <3>3. OneHolder(q, t)'
      BY <1>3, <2>1 DEF OneHolder, Holds
    <3>4. KnowsTheRow(q, t)'
      BY <1>3, <2>1, <2>3, <2>5 DEF KnowsTheRow, Holds, RowOf, NoRowOf
    <3>5. QED
      BY <3>1, <3>2, <3>3, <3>4 DEF SessionOK
  <2>8. QED
    BY <2>7
<1>11. QED
  BY <1>4, <1>5, <1>6, <1>7, <1>8, <1>9, <1>10 DEF TaskStep

LEMMA TaskIInv ==
  ASSUME IInv, NEW q \in Query, TaskStep(q) \/ Kill(q)
  PROVE  IInv'
<1>1. \A t \in Try : session[q][t].status = "committed" => session'[q][t].status = "committed"
  <2>1. CASE session' = session
    BY <2>1
  <2>2. CASE Connect(q) \/ WriteQueryLog(q) \/ WriteQueryAttempt(q) \/ SendCommit(q)
    <3>1. Mine(q).status # "committed" /\ try[q] \in Try
      BY <2>2 DEF Connect, WriteQueryLog, WriteQueryAttempt, SendCommit, Mine, IInv, TypeOK,
                  SessionOK, FollowsTheTask, NoSession
    <3>2. QED
      BY <3>1, TaskFrame DEF Mine
  <2>3. CASE ServerRefuses(q)
    <3>1. Mine(q).status # "committed"
      BY <2>3 DEF ServerRefuses, Live
    <3>2. QED
      BY <3>1, TaskFrame DEF Mine
  <2>4. QED
    BY <2>1, <2>2, <2>3
      DEF TaskStep, ConnectFails, CommitAcked, TransientError, PermanentError, ConnectionLost,
          WakeUp, Kill
<1>2. TaskOK(q)'
  <2>1. pc[q] # "idle" /\ pc'[q] # "idle" /\ job[q] \in Job /\ job' = job
    BY TaskFrame DEF IInv, TaskOK
  <2>2. pc'[q] = "sleep" => try'[q] < MaxTries
    <3>1. /\ try[q] \in 1..MaxTries
          /\ pc \in [Query -> Working \cup {"idle", "written", "failed", "killed"}]
      BY DEF IInv, TypeOK, Try
    <3>2. CASE ConnectFails(q) \/ TransientError(q) \/ ConnectionLost(q)
      <4>1. pc' = [pc EXCEPT ![q] = IF try[q] = MaxTries THEN "failed" ELSE "sleep"]
            /\ try' = try
        BY <3>2 DEF ConnectFails, TransientError, ServerRefuses, ConnectionLost, NextTryOrRaise,
                    Goto
      <4>2. QED
        BY <3>1, <4>1, AuditWriterAssumption
    <3>3. CASE ~(ConnectFails(q) \/ TransientError(q) \/ ConnectionLost(q))
      BY <3>1, <3>3
        DEF TaskStep, Connect, WriteQueryLog, WriteQueryAttempt, SendCommit, CommitAcked,
            PermanentError, ServerRefuses, WakeUp, Kill, Goto, InTransaction
    <3>4. QED
      BY <3>2, <3>3
  <2>3. QED
    BY <2>1, <2>2 DEF TaskOK
<1>3. QED
  BY <1>1, <1>2, TaskTypes, TaskFrame, TaskSessions, TaskKeeps

(* The task begins: nothing of the request is anywhere yet.                *)
LEMMA BeginIInv ==
  ASSUME IInv, NEW q \in Query, NEW j \in Job, Begin(q, j)
  PROVE  IInv'
<1>1. /\ job' = [job EXCEPT ![q] = j] /\ pc[q] = "idle" /\ pc' = [pc EXCEPT ![q] = "connect"]
      /\ UNCHANGED <<queryLog, queryAttempt, session, try>>
  BY DEF Begin, Goto
<1>2. TypeOK'
  BY <1>1 DEF IInv, TypeOK, Working
<1>3. \A t \in Try : session[q][t] = NoSession
  BY <1>1 DEF IInv, SessionOK, FollowsTheTask
<1>4. \A r \in Query \ {q} : job'[r] = job[r] /\ pc'[r] = pc[r]
  BY <1>1 DEF IInv, TypeOK
<1>5. ASSUME NEW r \in Query, NEW t \in Try PROVE SessionOK(r, t)'
  <2>1. CASE r = q
    BY <1>1, <1>3, <2>1 DEF IInv, TypeOK, SessionOK, OneHolder, KnowsTheRow, CommitsTheWhole,
                            FollowsTheTask, Holds, NoSession, Live
  <2>2. CASE r # q
    BY <1>1, <1>4, <2>2 DEF IInv, SessionOK, OneHolder, KnowsTheRow, CommitsTheWhole,
                            FollowsTheTask, Holds, RowOf, NoRowOf
  <2>3. QED
    BY <2>1, <2>2
<1>6. \A row \in queryLog : row.query \in Query \ {q}
  <2>. SUFFICES ASSUME NEW row \in queryLog PROVE row.query # q
    BY DEF IInv, TypeOK
  <2>1. PICK t \in Try : session[row.query][t].status = "committed"
    BY DEF IInv, RowOK
  <2>2. QED
    BY <1>3, <2>1 DEF NoSession
<1>7. \A row \in queryLog : RowOK(row)'
  BY <1>1, <1>4, <1>6 DEF IInv, RowOK
<1>8. \A r \in Query : TaskOK(r)'
  BY <1>1, <1>4 DEF IInv, TypeOK, TaskOK
<1>9. OneRowPerQuery' /\ AttemptsMatchRows'
  BY <1>1, <1>4, <1>6 DEF IInv, OneRowPerQuery, AttemptsMatchRows, AttemptRow
<1>10. QED
  BY <1>1, <1>2, <1>5, <1>7, <1>8, <1>9 DEF IInv

(* The server gives up a session that was left alone.                      *)
LEMMA AbortIInv ==
  ASSUME IInv, NEW q \in Query, NEW t0 \in Try, ServerAborts(q, t0)
  PROVE  IInv'
<1>1. /\ session' = [session EXCEPT ![q][t0].status = "aborted"]
      /\ session[q][t0].status \in Live
      /\ t0 = try[q] => pc[q] \notin InTransaction
      /\ UNCHANGED <<queryLog, queryAttempt, job, pc, try>>
  BY DEF ServerAborts, Orphan
<1>2. session[q][t0] \in Session /\ session \in [Query -> [Try -> Session]]
  BY DEF IInv, TypeOK
<1>3. [session[q][t0] EXCEPT !.status = "aborted"] \in Session
  BY <1>2 DEF Session
<1>4. TypeOK'
  BY <1>1, <1>2, <1>3 DEF IInv, TypeOK
<1>5. /\ session'[q][t0] = [session[q][t0] EXCEPT !.status = "aborted"]
      /\ \A t \in Try \ {t0} : session'[q][t] = session[q][t]
      /\ \A r \in Query \ {q} : session'[r] = session[r]
  BY <1>1, <1>2
<1>6. session'[q][t0].status = "aborted"
  BY <1>2, <1>5 DEF Session
<1>7. session[q][t0] # NoSession /\ pc[q] # "idle"
  BY <1>1 DEF IInv, SessionOK, FollowsTheTask, NoSession, Live
<1>8. \A t \in Try : FollowsTheTask(q, t)'
  BY <1>1, <1>5, <1>6, <1>7 DEF IInv, SessionOK, FollowsTheTask, InTransaction, Live
<1>9. CommitsTheWhole(q, t0)' /\ ~Holds(q, t0)'
  BY <1>6 DEF CommitsTheWhole, Holds, Live
<1>10. \A t \in Try : SessionOK(q, t)'
  BY <1>1, <1>5, <1>8, <1>9, NoNewHolder
<1>11. \A t \in Try : session[q][t].status = "committed" => session'[q][t].status = "committed"
  BY <1>1, <1>5 DEF Live
<1>12. TaskOK(q)'
  BY <1>1 DEF IInv, TaskOK
<1>13. QED
  BY <1>1, <1>4, <1>5, <1>7, <1>10, <1>11, <1>12, TaskKeeps

Rows(q, t) == {AttemptRow(job[q], session[q][t].logId, n) : n \in 1..session[q][t].done}

(* A COMMIT of the session that found no row adds it with its attempts; of *)
(* any other, it writes again what is there.                               *)
LEMMA CommitAddsOrRepeats ==
  ASSUME IInv, NEW q \in Query, NEW t0 \in Try, ServerCommits(q, t0)
  PROVE  \/ /\ session[q][t0].logId = <<q, t0>> /\ NoRowOf(q)
            /\ queryLog' = queryLog \cup {[id |-> <<q, t0>>, query |-> q,
                                           outcome |-> job[q].outcome]}
            /\ queryAttempt' = queryAttempt \cup Rows(q, t0)
         \/ /\ RowOf(q, session[q][t0].logId)
            /\ UNCHANGED <<queryLog, queryAttempt>>
<1>. DEFINE s == session[q][t0]
            rows == Rows(q, t0)
            kept == {a \in queryAttempt : \A r \in rows : <<a.logId, a.no>> # <<r.logId, r.no>>}
<1>1. s.status = "committing" /\ s.logId # Null /\ s.done = Len(job[q].attempts)
      /\ queryAttempt' = kept \cup rows
      /\ queryLog' = IF s.logId = <<q, t0>>
                     THEN queryLog \cup {[id |-> s.logId, query |-> q,
                                          outcome |-> job[q].outcome]}
                     ELSE queryLog
  BY DEF ServerCommits, Rows, IInv, SessionOK, CommitsTheWhole
<1>2. (s.logId = <<q, t0>> /\ NoRowOf(q)) \/ RowOf(q, s.logId)
  BY <1>1 DEF IInv, SessionOK, KnowsTheRow, Holds, Live
<1>3. \A r \in rows : r.logId = s.logId
  BY DEF Rows, AttemptRow
<1>4. \A a \in queryAttempt : \E row \in queryLog : a.logId = row.id
        /\ \E n \in 1..Len(job[row.query].attempts) : a = AttemptRow(job[row.query], row.id, n)
  BY DEF IInv, AttemptsMatchRows, AttemptRow
<1>5. \A row \in queryLog : \E t \in Try : row.id = <<row.query, t>>
                              /\ session[row.query][t].status = "committed"
  BY DEF IInv, RowOK
<1>6. CASE s.logId = <<q, t0>> /\ NoRowOf(q)
  <2>1. \A a \in queryAttempt : a.logId # <<q, t0>>
    BY <1>4, <1>5, <1>6 DEF NoRowOf
  <2>2. kept = queryAttempt
    BY <1>3, <1>6, <2>1
  <2>3. QED
    BY <1>1, <1>6, <2>2
<1>7. CASE RowOf(q, s.logId)
  <2>1. PICK row \in queryLog : row.query = q /\ row.id = s.logId
    BY <1>7 DEF RowOf
  <2>2. s.logId # <<q, t0>>
    BY <1>1, <1>5, <2>1
  <2>3. rows \subseteq queryAttempt
    BY <1>1, <2>1 DEF Rows, IInv, AttemptsMatchRows
  <2>4. ASSUME NEW a \in queryAttempt PROVE a \in kept \cup rows
    <3>. SUFFICES ASSUME a \notin kept PROVE a \in rows
      OBVIOUS
    <3>1. a.logId = row.id
      BY <1>3, <2>1
    <3>2. PICK other \in queryLog : a.logId = other.id
            /\ \E n \in 1..Len(job[other.query].attempts) :
                 a = AttemptRow(job[other.query], other.id, n)
      BY <1>4
    <3>3. other.query = q
      BY <1>5, <2>1, <3>1, <3>2
    <3>4. QED
      BY <1>1, <2>1, <3>1, <3>2, <3>3 DEF Rows
  <2>5. kept \cup rows = queryAttempt
    BY <2>3, <2>4
  <2>6. QED
    BY <1>1, <1>7, <2>2, <2>5
<1>8. QED
  BY <1>2, <1>6, <1>7

LEMMA CommitIInv ==
  ASSUME IInv, NEW q \in Query, NEW t0 \in Try, ServerCommits(q, t0)
  PROVE  IInv'
<1>. DEFINE s == session[q][t0]
            new == [id |-> <<q, t0>>, query |-> q, outcome |-> job[q].outcome]
<1>1. /\ session' = [session EXCEPT ![q][t0].status = "committed"]
      /\ s.status = "committing" /\ UNCHANGED <<job, pc, try>>
  BY DEF ServerCommits
<1>2. s \in Session /\ session \in [Query -> [Try -> Session]]
  BY DEF IInv, TypeOK
<1>3. [s EXCEPT !.status = "committed"] \in Session
  BY <1>2 DEF Session
<1>4. /\ session'[q][t0] = [s EXCEPT !.status = "committed"]
      /\ \A t \in Try \ {t0} : session'[q][t] = session[q][t]
      /\ \A r \in Query \ {q} : session'[r] = session[r]
      /\ session' \in [Query -> [Try -> Session]]
  BY <1>1, <1>2, <1>3
<1>5. /\ session'[q][t0].status = "committed"
      /\ session'[q][t0].logId = s.logId /\ session'[q][t0].done = s.done
  BY <1>2, <1>4 DEF Session
<1>6. /\ s.logId # Null /\ s.done = Len(job[q].attempts) /\ Holds(q, t0)
      /\ \A u \in Try \ {t0} : ~Holds(q, u)
  BY <1>1 DEF IInv, SessionOK, CommitsTheWhole, OneHolder, Holds, Live
<1>7. pc[q] # "idle" /\ job[q] \in Job
  BY <1>1 DEF IInv, SessionOK, FollowsTheTask, NoSession, TaskOK
<1>8. \/ /\ s.logId = <<q, t0>> /\ NoRowOf(q)
         /\ queryLog' = queryLog \cup {new}
         /\ queryAttempt' = queryAttempt \cup Rows(q, t0)
      \/ /\ RowOf(q, s.logId)
         /\ UNCHANGED <<queryLog, queryAttempt>>
  BY CommitAddsOrRepeats
<1>9. queryLog \subseteq queryLog' /\ \A row \in queryLog' \ queryLog : row.query = q
  BY <1>8
<1>10. \E row \in queryLog' : row.query = q /\ row.id = s.logId
  <2>1. CASE queryLog' = queryLog \cup {new} /\ s.logId = <<q, t0>>
    <3>1. new \in queryLog' /\ new.query = q /\ new.id = s.logId
      BY <2>1
    <3>2. QED
      BY <3>1
  <2>2. CASE RowOf(q, s.logId)
    BY <1>9, <2>2 DEF RowOf
  <2>3. QED
    BY <1>8, <2>1, <2>2
<1>11. TypeOK'
  <2>1. \A r \in Rows(q, t0) : r \in [logId : RowId, no : 1..MaxAttempts,
                                      outcome : Outcome \cup {Rejected},
                                      rowCount : RowCount \cup {Null}]
    BY <1>2, <1>6, <1>7, AttemptRowType DEF Rows, Session
  <2>2. new \in [id : RowId, query : Query, outcome : Outcome]
    BY <1>7, AttemptsOfJob DEF RowId
  <2>3. QED
    BY <1>1, <1>4, <1>8, <2>1, <2>2 DEF IInv, TypeOK
<1>12. ASSUME NEW r \in Query, NEW t \in Try PROVE SessionOK(r, t)'
  <2>1. SessionOK(r, t)
    BY DEF IInv
  <2>2. CASE r # q
    <3>1. NoRowOf(r) => NoRowOf(r)'
      BY <1>9, <2>2 DEF NoRowOf
    <3>2. session'[r] = session[r]
      BY <1>4, <2>2
    <3>3. QED
      BY <1>1, <1>9, <2>1, <3>1, <3>2
        DEF SessionOK, OneHolder, KnowsTheRow, CommitsTheWhole, FollowsTheTask, Holds, RowOf
  <2>3. CASE r = q /\ t = t0
    <3>1. ~Holds(r, t)'
      BY <1>5, <2>3 DEF Holds, Live
    <3>2. CommitsTheWhole(r, t)'
      BY <1>1, <1>5, <1>6, <1>10, <2>3 DEF CommitsTheWhole, RowOf
    <3>3. FollowsTheTask(r, t)'
      BY <1>1, <1>5, <1>6, <1>7, <2>1, <2>3 DEF SessionOK, FollowsTheTask, NoSession
    <3>4. QED
      BY <3>1, <3>2, <3>3 DEF SessionOK, OneHolder, KnowsTheRow
  <2>4. CASE r = q /\ t # t0
    <3>1. ~Holds(r, t)' /\ session'[r][t] = session[r][t]
      BY <1>4, <1>6, <2>4 DEF Holds
    <3>2. QED
      BY <1>1, <1>9, <2>1, <3>1
        DEF SessionOK, OneHolder, KnowsTheRow, CommitsTheWhole, FollowsTheTask, RowOf
  <2>5. QED
    BY <2>2, <2>3, <2>4
<1>13. ASSUME NEW row \in queryLog' PROVE RowOK(row)'
  <2>1. CASE row \in queryLog
    <3>1. row.query \in Query /\ RowOK(row)
      BY <2>1 DEF IInv, TypeOK
    <3>2. QED
      BY <1>1, <1>4, <1>5, <3>1 DEF RowOK
  <2>2. CASE row \notin queryLog
    <3>1. row = new
      BY <1>8, <2>2
    <3>2. QED
      BY <1>1, <1>5, <3>1 DEF RowOK
  <2>3. QED
    BY <2>1, <2>2
<1>14. \A r \in Query : TaskOK(r)'
  BY <1>1 DEF IInv, TaskOK
<1>15. OneRowPerQuery'
  BY <1>8 DEF IInv, OneRowPerQuery, NoRowOf
<1>16. AttemptsMatchRows'
  <2>1. CASE UNCHANGED <<queryLog, queryAttempt>>
    BY <1>1, <2>1 DEF IInv, AttemptsMatchRows, AttemptRow
  <2>2. CASE queryLog' = queryLog \cup {new} /\ queryAttempt' = queryAttempt \cup Rows(q, t0)
             /\ s.logId = <<q, t0>>
    <3>. DEFINE Of(row) == {AttemptRow(job[row.query], row.id, n) :
                              n \in 1..Len(job[row.query].attempts)}
    <3>1. Rows(q, t0) = Of(new)
      BY <1>6, <2>2 DEF Rows
    <3>2. queryAttempt = UNION {Of(row) : row \in queryLog}
      BY DEF IInv, AttemptsMatchRows
    <3>. HIDE DEF Of, new
    <3>3. queryAttempt' = UNION {Of(row) : row \in queryLog'}
      BY <2>2, <3>1, <3>2
    <3>4. QED
      BY <1>1, <3>3 DEF AttemptsMatchRows, Of, AttemptRow
  <2>3. QED
    BY <1>8, <2>1, <2>2
<1>17. QED
  BY <1>11, <1>12, <1>13, <1>14, <1>15, <1>16 DEF IInv

LEMMA NextIInv == IInv /\ [Next]_vars => IInv'
<1>. SUFFICES ASSUME IInv, [Next]_vars PROVE IInv'
  OBVIOUS
<1>1. CASE Next
  BY <1>1, BeginIInv, TaskIInv, CommitIInv, AbortIInv DEF Next
<1>2. CASE UNCHANGED vars
  BY <1>2 DEF vars, IInv, TypeOK, SessionOK, OneHolder, KnowsTheRow, CommitsTheWhole,
              FollowsTheTask, Holds, RowOf, NoRowOf, RowOK, TaskOK, OneRowPerQuery,
              AttemptsMatchRows, AttemptRow
<1>3. QED
  BY <1>1, <1>2

LEMMA Invariant == Spec => []IInv
BY InitIInv, NextIInv, PTL DEF Spec

(* However many tries commit, a request has one row.                       *)
THEOREM OneRow == Spec => []OneRowPerQuery
<1>1. IInv => OneRowPerQuery
  BY DEF IInv
<1>2. QED
  BY <1>1, Invariant, PTL

(* RowOK and AttemptsMatchRows say what RecordIsWhole promises.            *)
LEMMA WholeIfInvariant == IInv => RecordIsWhole
<1>. SUFFICES ASSUME IInv PROVE RecordIsWhole
  OBVIOUS
<1>1. ASSUME NEW a \in queryAttempt PROVE \E row \in queryLog : row.id = a.logId
  BY DEF IInv, AttemptsMatchRows, AttemptRow
<1>2. ASSUME NEW row \in queryLog
      PROVE  LET j == job[row.query]
             IN  /\ row.outcome = j.outcome
                 /\ {<<a.no, a.outcome, a.rowCount>> : a \in AttemptsOf(row)} =
                      {IF j.attempts[n].accepted
                       THEN <<n, j.outcome, j.rowCount>>
                       ELSE <<n, Rejected, Null>> : n \in DOMAIN j.attempts}
  <2>. DEFINE j == job[row.query]
              told(n) == IF j.attempts[n].accepted THEN <<n, j.outcome, j.rowCount>>
                         ELSE <<n, Rejected, Null>>
              N == 1..Len(j.attempts)
  <2>1. RowOK(row) /\ row.query \in Query
    BY DEF IInv, TypeOK
  <2>2. pc[row.query] # "idle" /\ j \in Job
    BY <2>1 DEF IInv, RowOK, SessionOK, FollowsTheTask, NoSession, TaskOK
  <2>3. j.attempts \in Seq(Attempt) /\ DOMAIN j.attempts = N
    BY <2>2, AttemptsOfJob
  <2>4. AttemptsOf(row) = {AttemptRow(j, row.id, n) : n \in N}
    <3>1. \A a \in queryAttempt : \E r \in queryLog : a.logId = r.id
            /\ \E n \in 1..Len(job[r.query].attempts) : a = AttemptRow(job[r.query], r.id, n)
      BY DEF IInv, AttemptsMatchRows, AttemptRow
    <3>2. \A r \in queryLog : r.id = row.id => r = row
      BY DEF IInv, RowOK, OneRowPerQuery
    <3>3. \A n \in N : AttemptRow(j, row.id, n) \in queryAttempt
                       /\ AttemptRow(j, row.id, n).logId = row.id
      BY DEF IInv, AttemptsMatchRows, AttemptRow
    <3>4. QED
      BY <3>1, <3>2, <3>3 DEF AttemptsOf
  <2>5. ASSUME NEW n \in N
        PROVE  LET a == AttemptRow(j, row.id, n) IN <<a.no, a.outcome, a.rowCount>> = told(n)
    <3>1. j.attempts[n] \in Attempt
      BY <2>3
    <3>2. CASE j.attempts[n].accepted
      <4>1. j.attempts[n].outcome = Null
        BY <3>1, <3>2 DEF Attempt
      <4>2. QED
        BY <3>2, <4>1 DEF AttemptRow
    <3>3. CASE ~j.attempts[n].accepted
      <4>1. j.attempts[n].outcome = Rejected
        BY <3>1, <3>3 DEF Attempt
      <4>2. QED
        BY <3>3, <4>1, AuditWriterAssumption DEF AttemptRow
    <3>4. QED
      BY <3>2, <3>3
  <2>6. {<<a.no, a.outcome, a.rowCount>> : a \in AttemptsOf(row)} = {told(n) : n \in N}
    <3>. HIDE DEF told, N, j
    <3>1. QED
      BY <2>4, <2>5
  <2>7. QED
    BY <2>1, <2>3, <2>6 DEF RowOK
<1>3. QED
  BY <1>1, <1>2 DEF RecordIsWhole

(* The row and the attempts of a request are there together, and are what  *)
(* the pipeline asked to write.                                            *)
THEOREM WholeRecord == Spec => []RecordIsWhole
BY Invariant, WholeIfInvariant, PTL

LEMMA DurableIfInvariant == IInv => WrittenIsDurable
<1>. SUFFICES ASSUME IInv, NEW q \in Query, pc[q] = "written"
              PROVE  \E row \in queryLog : row.query = q
  BY DEF WrittenIsDurable
<1>1. try[q] \in Try
  BY DEF IInv, TypeOK
<1>2. RowOf(q, session[q][try[q]].logId)
  BY <1>1 DEF IInv, SessionOK, FollowsTheTask, CommitsTheWhole
<1>3. QED
  BY <1>2 DEF RowOf

(* Who is told the record is written finds it, whatever happens next.      *)
THEOREM Durable == Spec => []WrittenIsDurable
BY DurableIfInvariant, Invariant, PTL

(* The refinement mapping, of one request.                                 *)
Recorded(q) == \E row \in queryLog : row.query = q

logBar == [q \in Query |-> IF Recorded(q) THEN job[q] ELSE Null]

replyBar == [q \in Query |-> Reply(q)]

LEMMA InitRefines == Init => Log!Init
BY DEF Init, Log!Init, Reply, Working, InTransaction

LEMMA NextRefines == IInv /\ [Next]_vars => [Log!Next]_(Log!vars)
<1>. SUFFICES ASSUME IInv, [Next]_vars PROVE [Log!Next]_(Log!vars)
  OBVIOUS
<1>1. ASSUME NEW q \in Query, NEW j \in Job, Begin(q, j)
      PROVE  Log!Submit(q, j)
  <2>1. /\ job' = [job EXCEPT ![q] = j] /\ pc[q] = "idle" /\ pc' = [pc EXCEPT ![q] = "connect"]
        /\ UNCHANGED queryLog
    BY <1>1 DEF Begin, Goto
  <2>2. replyBar[q] = "idle" /\ replyBar' = [replyBar EXCEPT ![q] = "pending"]
    BY <2>1 DEF IInv, TypeOK, replyBar, Reply, Working, InTransaction
  <2>3. ~Recorded(q)
    BY <2>1 DEF Recorded, IInv, RowOK, SessionOK, FollowsTheTask, NoSession
  <2>4. logBar' = logBar
    BY <2>1, <2>3 DEF IInv, TypeOK, logBar, Recorded
  <2>5. QED
    BY <2>1, <2>2, <2>4 DEF Log!Submit, replyBar, logBar, Recorded
<1>2. ASSUME NEW q \in Query, TaskStep(q) \/ Kill(q)
      PROVE  \/ Log!Acknowledge(q) \/ Log!GiveUp(q) \/ Log!Kill(q)
             \/ UNCHANGED Log!vars
  <2>1. UNCHANGED <<queryLog, job>>
    BY <1>2, TaskFrame
  <2>2. logBar' = logBar
    BY <2>1 DEF logBar, Recorded
  <2>3. PICK place \in Working \cup {"written", "failed", "killed"} :
          /\ pc[q] \in Working /\ pc' = [pc EXCEPT ![q] = place]
          /\ place = "written" => CommitAcked(q)
    <3>. USE DEF Goto, NextTryOrRaise, Working, InTransaction, ServerRefuses
    <3>1. CASE Connect(q) \/ WriteQueryLog(q) \/ SendCommit(q) \/ WakeUp(q)
      BY <3>1 DEF Connect, WriteQueryLog, SendCommit, WakeUp
    <3>2. CASE WriteQueryAttempt(q)
      <4>1. pc' = [pc EXCEPT ![q] = "attempts"] /\ pc[q] = "attempts"
        BY <3>2 DEF WriteQueryAttempt, IInv, TypeOK
      <4>2. QED
        BY <4>1
    <3>3. CASE CommitAcked(q)
      BY <3>3 DEF CommitAcked
    <3>4. CASE ConnectFails(q) \/ TransientError(q) \/ ConnectionLost(q)
      BY <3>4 DEF ConnectFails, TransientError, ConnectionLost
    <3>5. CASE PermanentError(q) \/ Kill(q)
      BY <3>5 DEF PermanentError, Kill
    <3>6. QED
      BY <1>2, <3>1, <3>2, <3>3, <3>4, <3>5 DEF TaskStep
  <2>4. replyBar' = [replyBar EXCEPT ![q] = IF place \in Working THEN "pending" ELSE place]
        /\ replyBar[q] = "pending"
    BY <2>3 DEF IInv, TypeOK, replyBar, Reply
  <2>5. CASE place \in Working
    <3>1. replyBar' = replyBar
      BY <2>4, <2>5 DEF replyBar
    <3>2. QED
      BY <2>1, <2>2, <3>1 DEF Log!vars, logBar, replyBar, Recorded
  <2>6. CASE place = "written"
    <3>1. CommitAcked(q) /\ job[q] \in Job /\ try[q] \in Try
      BY <2>3, <2>6 DEF IInv, TypeOK, TaskOK, Working, InTransaction
    <3>2. Recorded(q)
      BY <3>1 DEF CommitAcked, Mine, IInv, SessionOK, CommitsTheWhole, RowOf, Recorded
    <3>3. logBar[q] # Null
      BY <3>1, <3>2, NullIsNoValue DEF logBar
    <3>4. replyBar' = [replyBar EXCEPT ![q] = "written"]
      BY <2>4, <2>6 DEF Working, InTransaction
    <3>5. QED
      BY <2>1, <2>2, <2>4, <3>3, <3>4
        DEF Log!Acknowledge, Log!Answer, logBar, replyBar, Recorded
  <2>7. CASE place \in {"failed", "killed"}
    <3>1. replyBar' = [replyBar EXCEPT ![q] = place]
      BY <2>4, <2>7 DEF Working, InTransaction
    <3>2. QED
      BY <2>1, <2>2, <2>4, <2>7, <3>1
        DEF Log!GiveUp, Log!Kill, Log!Answer, logBar, replyBar, Recorded
  <2>8. QED
    BY <2>5, <2>6, <2>7
<1>3. ASSUME NEW q \in Query, NEW t \in Try, ServerCommits(q, t)
      PROVE  Log!Record(q) \/ UNCHANGED Log!vars
  <2>1. UNCHANGED <<job, pc>> /\ session[q][t].status = "committing"
    BY <1>3 DEF ServerCommits
  <2>2. pc[q] # "idle" /\ job[q] \in Job
    BY <2>1 DEF IInv, SessionOK, FollowsTheTask, NoSession, TaskOK
  <2>3. replyBar' = replyBar /\ replyBar[q] # "idle"
    BY <2>1, <2>2 DEF replyBar, Reply, Working, InTransaction
  <2>4. CASE UNCHANGED queryLog
    BY <2>1, <2>3, <2>4 DEF Log!vars, logBar, replyBar, Recorded
  <2>5. CASE NoRowOf(q) /\ queryLog' = queryLog \cup {[id |-> <<q, t>>, query |-> q,
                                                      outcome |-> job[q].outcome]}
    <3>1. logBar[q] = Null /\ Recorded(q)'
      <4>. DEFINE new == [id |-> <<q, t>>, query |-> q, outcome |-> job[q].outcome]
      <4>1. ~Recorded(q)
        BY <2>5 DEF Recorded, NoRowOf
      <4>2. new \in queryLog' /\ new.query = q
        BY <2>5
      <4>. HIDE DEF new
      <4>3. QED
        BY <4>1, <4>2 DEF logBar, Recorded
    <3>2. \A r \in Query \ {q} : Recorded(r)' <=> Recorded(r)
      BY <2>5 DEF Recorded
    <3>3. logBar' = [logBar EXCEPT ![q] = job[q]]
      BY <2>1, <3>1, <3>2 DEF logBar
    <3>4. QED
      BY <2>1, <2>3, <3>1, <3>3 DEF Log!Record, logBar, replyBar, Recorded
  <2>6. QED
    BY <1>3, <2>4, <2>5, CommitAddsOrRepeats
<1>4. ASSUME NEW q \in Query, NEW t \in Try, ServerAborts(q, t)
      PROVE  UNCHANGED Log!vars
  BY <1>4 DEF ServerAborts, Log!vars, Reply
<1>5. UNCHANGED vars => UNCHANGED Log!vars
  BY DEF vars, Log!vars, Reply
<1>6. QED
  BY <1>1, <1>2, <1>3, <1>4, <1>5 DEF Next, Log!Next

(* The two tables, with their transactions, locks and retries, take only   *)
(* the steps of the atomic log.                                            *)
THEOREM StepsOfAuditLog == Spec => Log!Init /\ [][Log!Next]_(Log!vars)
BY Invariant, InitRefines, NextRefines, PTL DEF Spec

(* What the pipeline relies on, of the tables: the record of a request is  *)
(* what it asked to write or nothing, it is there when that was said, and  *)
(* no retry replaces it or takes it away.                                  *)
THEOREM LogIsKept == Spec => []Log!LogIsHonest /\ Log!LogIsFinal
<1>1. IInv => Log!LogIsHonest
  <2>. SUFFICES ASSUME IInv, NEW q \in Query
                PROVE  /\ logBar[q] \in {Null, job[q]}
                       /\ Reply(q) = "written" => logBar[q] = job[q]
    BY DEF Log!LogIsHonest, logBar, Recorded
  <2>1. Reply(q) = "written" => pc[q] = "written"
    BY DEF Reply
  <2>2. pc[q] = "written" => Recorded(q)
    BY DurableIfInvariant DEF WrittenIsDurable, Recorded
  <2>3. QED
    BY <2>1, <2>2 DEF logBar
<1>2. [Log!Next]_(Log!vars) =>
        [\A q \in Query : logBar[q] # Null => logBar'[q] = logBar[q]]_(Log!vars)
  <2>. SUFFICES ASSUME Log!Next, NEW r \in Query, logBar[r] # Null
                PROVE  logBar'[r] = logBar[r]
    OBVIOUS
  <2>1. PICK q \in Query :
          \/ \E j \in Job : Log!Submit(q, j)
          \/ Log!Record(q) \/ Log!Acknowledge(q) \/ Log!GiveUp(q) \/ Log!Kill(q)
    BY DEF Log!Next
  <2>2. CASE Log!Record(q)
    <3>1. logBar[q] = Null /\ logBar' = [logBar EXCEPT ![q] = job[q]]
      BY <2>2 DEF Log!Record, logBar, Recorded
    <3>2. QED
      BY <3>1 DEF logBar
  <2>3. CASE logBar' = logBar
    BY <2>3
  <2>4. QED
    BY <2>1, <2>2, <2>3
    DEF Log!Submit, Log!Acknowledge, Log!GiveUp, Log!Kill, Log!Answer, logBar, Recorded
<1>3. IInv /\ [Next]_vars =>
        [\A q \in Query : logBar[q] # Null => logBar'[q] = logBar[q]]_(Log!vars)
  BY <1>2, NextRefines
<1>4. Spec => [][\A q \in Query : logBar[q] # Null => logBar'[q] = logBar[q]]_(Log!vars)
  BY <1>3, Invariant, PTL DEF Spec
<1>5. QED
  BY <1>1, <1>4, Invariant, PTL DEF Log!LogIsFinal, logBar, Recorded
=============================================================================
