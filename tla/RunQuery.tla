------------------------------ MODULE RunQuery ------------------------------
(***************************************************************************)
(* nlq/pipeline.py:run_query, with the components it calls: the budget     *)
(* (Budget), SQL generation (SqlGeneration), the narrative (Narrative) and *)
(* the audit log (AuditLog, which AuditWriter implements).  One step is    *)
(* what happens between two awaits; an await may fail, or the task may be  *)
(* cancelled in it.                                                        *)
(*                                                                         *)
(* Costs are counted in completions.  Of a result only its shape is kept.  *)
(***************************************************************************)
EXTENDS Integers, Sequences, FiniteSets

CONSTANTS
  Query, SqlMaxAttempts, NarrativeMaxAttempts,
  Period, NoPeriod, Number, Backed,
  DailyLimit, MonthlyLimit, DaysPerMonth, LastDay, Spent,
  Null              \* None in Python, NULL in SQL

VARIABLES
  today, counter, step, owed, charges, basis, since, exhausted, paid, began, ledger,   \* Budget
  gen, billed,                                                   \* SqlGeneration
  nar,                                                           \* Narrative
  entry, log, reply,                                             \* AuditLog
  pc,        \* the await each run is in
  outcome,   \* the outcome a run is heading for, then the one it returns
  shape,     \* of the result: none, zero, zeroAggregate, some
  events     \* what was given to on_event, in order

acctVars ==
  <<today, counter, step, owed, charges, basis, since, exhausted, paid, began, ledger>>
genVars == <<gen, billed>>
narVars == <<nar>>
logVars == <<entry, log, reply>>
runVars == <<pc, outcome, shape, events>>
vars == <<acctVars, genVars, narVars, logVars, runVars>>

Acct == INSTANCE Budget WITH
  Cost <- 0..SqlMaxAttempts + NarrativeMaxAttempts, Charges <- 2

Rejection == {"REJECTED_SQL_RELATION", "REJECTED_SQL_COST"}

Gen == INSTANCE SqlGeneration WITH MaxAttempts <- SqlMaxAttempts

Nar == INSTANCE Narrative WITH
  MaxAttempts <- NarrativeMaxAttempts,
  Wording <- SUBSET Number, Backed <- [q \in Query |-> Backed]

Answered == {"OK", "OK_ZERO_ROWS", "OK_DEGRADED_NARRATIVE"}

DatabaseFailure == {"FAILED_DB_TIMEOUT", "FAILED_DB_ERROR"}

Outcome ==
  Answered \cup DatabaseFailure \cup Gen!Sentinel \cup Rejection
    \cup {"FAILED_LLM_ERROR", "FAILED_INTERNAL_ERROR", "THROTTLED_BUDGET"}

Entry ==
  [outcome : Outcome,
   attempts : UNION {[1..n -> Gen!Sentinel \cup Rejection \cup {Gen!Accepted}] :
                       n \in 0..SqlMaxAttempts},
   rows : {"zero", "zeroAggregate", "some", Null}]

Log == INSTANCE AuditLog WITH NoEntry <- Null

ASSUME RunQueryAssumption ==
  Acct!BudgetParameters /\ Gen!SqlGenerationParameters /\ Nar!NarrativeParameters

Init ==
  /\ Acct!Init /\ Gen!Init /\ Nar!Init /\ Log!Init
  /\ pc = [q \in Query |-> "new"]
  /\ outcome = [q \in Query |-> "none"]
  /\ shape = [q \in Query |-> "none"]
  /\ events = [q \in Query |-> <<>>]

Goto(q, l) == pc' = [pc EXCEPT ![q] = l]

Event(name) == [event |-> name, outcome |-> "none"]

Emit(q, es) == events' = [events EXCEPT ![q] = @ \o es]

(* A slip: only the attempts of a result are kept.                         *)
AuditAttemptsOfResult(q) ==
  IF gen[q].exit = "result"
  THEN [i \in DOMAIN gen[q].attempts |-> gen[q].attempts[i].outcome]
  ELSE <<>>

(* audit_attempts: set when generation returns or raises one of its own    *)
(* exceptions; empty until then.                                           *)
AuditAttempts(q) ==
  IF gen[q].status = "returned"
  THEN [i \in DOMAIN gen[q].attempts |-> gen[q].attempts[i].outcome]
  ELSE <<>>

(* await _persist_audit(record=_record(o), attempts, final_row_count).     *)
Audit(q, o, rows) ==
  /\ Goto(q, "auditing")
  /\ outcome' = [outcome EXCEPT ![q] = o]
  /\ Log!Submit(q, [outcome |-> o, attempts |-> AuditAttempts(q), rows |-> rows])

(* An await raised: by a handler of its own or by the outer except, the run*)
(* is audited as a failure, with no row count.                             *)
Fail(q, o) ==
  /\ Audit(q, o, Null)
  /\ UNCHANGED <<shape, events>>

Start(q) ==
  /\ pc[q] = "new"
  /\ Goto(q, "budget")
  /\ Acct!Arrive(q)
  /\ UNCHANGED <<genVars, narVars, logVars, outcome, shape, events>>

(* A slip: the reads are made and their answer is not looked at.           *)
ReadBudgetUnheeded(q) ==
  /\ pc[q] = "budget"
  /\ Acct!CheckDaily(q) \/ Acct!CheckMonthly(q)
  /\ \/ /\ step'[q] = "readMonth"
        /\ UNCHANGED <<genVars, pc>>
     \/ /\ step'[q] \in {"admitted", "blocked"}
        /\ Goto(q, "generating")
        /\ Gen!Begin(q, NoPeriod)
  /\ UNCHANGED <<narVars, logVars, outcome, shape, events>>

(* check_budget answers one of its two reads.                              *)
ReadBudget(q) ==
  /\ pc[q] = "budget"
  /\ Acct!CheckDaily(q) \/ Acct!CheckMonthly(q)
  /\ \/ /\ step'[q] = "readMonth"
        /\ UNCHANGED <<genVars, logVars, pc, outcome>>
     \/ /\ step'[q] = "blocked"
        /\ Audit(q, "THROTTLED_BUDGET", Null)
        /\ UNCHANGED genVars
     \/ /\ step'[q] = "admitted"
        /\ Goto(q, "generating")
        /\ \E inherited \in Period \cup {NoPeriod} : Gen!Begin(q, inherited)
        /\ UNCHANGED <<logVars, outcome>>
  /\ UNCHANGED <<narVars, shape, events>>

ReadBudgetFails(q) ==
  /\ pc[q] = "budget"
  /\ Acct!ReadFails(q)
  /\ \E o \in DatabaseFailure : Fail(q, o)
  /\ UNCHANGED <<genVars, narVars>>

(* The model answers or fails; generation goes on, returns or raises.      *)
Generate(q) ==
  /\ pc[q] = "generating"
  /\ Gen!Reply(q)
  /\ \/ /\ gen'[q].status = "calling"
        /\ UNCHANGED <<logVars, runVars>>
     \/ /\ gen'[q].status = "returned" /\ gen'[q].exit # "crash"
        /\ Goto(q, "accounting")
        /\ UNCHANGED <<logVars, outcome, shape, events>>
     \/ /\ gen'[q].exit = "crash"
        /\ Fail(q, gen'[q].outcome)
  /\ UNCHANGED <<acctVars, narVars>>

(* A slip: the usage the exceptions of generation carry is not looked at.  *)
ChargeDailyOfResults(q) ==
  /\ \/ pc[q] = "accounting"
        /\ Acct!PayDaily(q, IF gen[q].exit = "result" THEN gen[q].usage ELSE 0)
     \/ pc[q] = "accounting_narrative" /\ Acct!PayDaily(q, nar[q].usage)
  /\ UNCHANGED <<genVars, narVars, logVars, runVars>>

(* _charge_global_budget: DAY, then MONTH.                                 *)
ChargeDaily(q) ==
  /\ \/ pc[q] = "accounting" /\ Acct!PayDaily(q, gen[q].usage)
     \/ pc[q] = "accounting_narrative" /\ Acct!PayDaily(q, nar[q].usage)
  /\ UNCHANGED <<genVars, narVars, logVars, runVars>>

ChargeMonthly(q) ==
  /\ pc[q] = "accounting"
  /\ Acct!PayMonthly(q)
  /\ \/ /\ gen[q].exit = "result"
        /\ Emit(q, <<Event("sql")>>)
        /\ Goto(q, "executing")
        /\ UNCHANGED <<logVars, outcome>>
     \/ /\ gen[q].exit # "result"
        /\ Audit(q, gen[q].outcome, Null)
        /\ UNCHANGED events
  /\ UNCHANGED <<genVars, narVars, shape>>

ChargeBreaks(q) ==
  \/ pc[q] = "accounting" /\ Acct!PayDailyFails(q, gen[q].usage)
  \/ pc[q] = "accounting_narrative" /\ Acct!PayDailyFails(q, nar[q].usage)
  \/ pc[q] \in {"accounting", "accounting_narrative"} /\ Acct!PayMonthlyFails(q)

ChargeFails(q) ==
  /\ ChargeBreaks(q)
  /\ \E o \in DatabaseFailure : Fail(q, o)
  /\ UNCHANGED <<genVars, narVars>>

(* What follows the rows without an await: the warnings, and then the      *)
(* narrative if it was asked for or else the audit.  The narrative that    *)
(* needs no model call has ended by the time it is awaited.                *)
Decorate(q, es, o, s, warned) ==
  LET told == es \o IF warned THEN <<Event("warnings")>> ELSE <<>>
  IN  /\ Emit(q, told)
      /\ shape' = [shape EXCEPT ![q] = s]
      /\ \/ /\ Audit(q, o, s)
            /\ UNCHANGED narVars
         \/ /\ \E f \in Nar!Facts :
                 /\ f.zero = (s = "zero")
                 /\ s = "zero" => f.reason = warned
                 /\ f.reason => warned /\ s # "some"
                 /\ f.truncated => s = "some"
                 /\ Nar!Begin(q, f)
            /\ Goto(q, IF nar'[q].status = "returned" THEN "accounting_narrative"
                       ELSE "narrating")
            /\ outcome' = [outcome EXCEPT ![q] = o]
            /\ UNCHANGED logVars

RowEvents == <<Event("row_count"), Event("rows")>>

(* executor.run returns rows; an empty result or a zero count is diagnosed *)
(* first.                                                                  *)
ExecuteRows(q) ==
  /\ pc[q] = "executing"
  /\ \E warned \in BOOLEAN : Decorate(q, RowEvents, "OK", "some", warned)
  /\ UNCHANGED <<acctVars, genVars>>

ExecuteZero(q) ==
  /\ pc[q] = "executing"
  /\ \E s \in {"zero", "zeroAggregate"} :
       /\ shape' = [shape EXCEPT ![q] = s]
       /\ outcome' = [outcome EXCEPT ![q] = IF s = "zero" THEN "OK_ZERO_ROWS" ELSE "OK"]
  /\ Emit(q, RowEvents)
  /\ Goto(q, "diagnosing")
  /\ UNCHANGED <<acctVars, genVars, narVars, logVars>>

Diagnose(q) ==
  /\ pc[q] = "diagnosing"
  /\ \E warned \in BOOLEAN : Decorate(q, <<>>, outcome[q], shape[q], warned)
  /\ UNCHANGED <<acctVars, genVars>>

(* The data side fails: a timeout, an error of the database, or anything   *)
(* else while the rows are worked on.                                      *)
DataFails(q) ==
  /\ pc[q] \in {"executing", "diagnosing"}
  /\ \/ \E o \in DatabaseFailure : Fail(q, o)
     \/ Fail(q, "FAILED_INTERNAL_ERROR")
  /\ UNCHANGED <<acctVars, genVars, narVars>>

Narrate(q) ==
  /\ pc[q] = "narrating"
  /\ Nar!Reply(q)
  /\ \/ /\ nar'[q].status = "writing"
        /\ UNCHANGED <<logVars, runVars>>
     \/ /\ nar'[q].status = "returned"
        /\ Goto(q, "accounting_narrative")
        /\ UNCHANGED <<logVars, outcome, shape, events>>
     \/ /\ nar'[q].status = "crashed"
        /\ Fail(q, "FAILED_INTERNAL_ERROR")
  /\ UNCHANGED <<acctVars, genVars>>

Graded(q) ==
  IF outcome[q] = "OK" /\ ~nar[q].verified THEN "OK_DEGRADED_NARRATIVE" ELSE outcome[q]

(* A slip: the narrative is served and not charged.                        *)
NarrativeUncharged(q) ==
  /\ pc[q] = "accounting_narrative"
  /\ Emit(q, <<Event("narrative")>>)
  /\ Audit(q, Graded(q), shape[q])
  /\ UNCHANGED <<acctVars, genVars, narVars, shape>>

NarrativeCharged(q) ==
  /\ pc[q] = "accounting_narrative"
  /\ Acct!PayMonthly(q)
  /\ Emit(q, <<Event("narrative")>>)
  /\ Audit(q, Graded(q), shape[q])
  /\ UNCHANGED <<genVars, narVars, shape>>

(* The audit's transaction takes effect, whether or not the run still      *)
(* waits for it: asyncio.shield keeps it from the run's cancellation.      *)
AuditCommits(q) ==
  /\ Log!Record(q)
  /\ UNCHANGED <<acctVars, genVars, narVars, runVars>>

(* A slip: done comes first.                                               *)
LastWordsSwapped(o) ==
  <<[event |-> "done", outcome |-> o]>>
    \o IF o \in Answered THEN <<>> ELSE <<[event |-> "error", outcome |-> o]>>

LastWords(o) ==
  (IF o \in Answered THEN <<>> ELSE <<[event |-> "error", outcome |-> o]>>)
    \o <<[event |-> "done", outcome |-> o]>>

(* A slip: the audit is left to itself and done sent at once.              *)
FinishUnwaited(q) ==
  /\ pc[q] = "auditing"
  /\ Emit(q, LastWords(outcome[q]))
  /\ Goto(q, "returned")
  /\ UNCHANGED <<acctVars, genVars, narVars, logVars, outcome, shape>>

(* The audit answers; its failure is logged and goes no further.           *)
Finish(q) ==
  /\ pc[q] = "auditing"
  /\ Log!Acknowledge(q) \/ Log!GiveUp(q)
  /\ Emit(q, LastWords(outcome[q]))
  /\ Goto(q, "returned")
  /\ UNCHANGED <<acctVars, genVars, narVars, outcome, shape>>

(* A slip: without the shield, the audit is cancelled with its run.        *)
CancelUnshielded(q) ==
  /\ pc[q] = "auditing"
  /\ Log!Kill(q)
  /\ Goto(q, "cancelled")
  /\ UNCHANGED <<acctVars, genVars, narVars, outcome, shape, events>>

(* CancelledError is no Exception: no handler of run_query sees it.  What  *)
(* was being awaited is abandoned, except the audit.                       *)
Cancel(q) ==
  /\ \/ pc[q] = "budget" /\ Acct!ReadFails(q) /\ UNCHANGED <<genVars, narVars>>
     \/ pc[q] = "generating" /\ Gen!Abandon(q) /\ UNCHANGED <<acctVars, narVars>>
     \/ ChargeBreaks(q) /\ UNCHANGED <<genVars, narVars>>
     \/ /\ pc[q] \in {"executing", "diagnosing", "auditing"}
        /\ UNCHANGED <<acctVars, genVars, narVars>>
     \/ pc[q] = "narrating" /\ Nar!Abandon(q) /\ UNCHANGED <<acctVars, genVars>>
  /\ Goto(q, "cancelled")
  /\ UNCHANGED <<logVars, outcome, shape, events>>

(* The audit task of a cancelled run goes on by itself.                    *)
AuditEndsAlone(q) ==
  /\ pc[q] = "cancelled"
  /\ Log!Acknowledge(q) \/ Log!GiveUp(q)
  /\ UNCHANGED <<acctVars, genVars, narVars, runVars>>

NewDay ==
  /\ Acct!NewDay
  /\ UNCHANGED <<genVars, narVars, logVars, runVars>>

RunStep(q) ==
  \/ ReadBudget(q) \/ ReadBudgetFails(q)
  \/ Generate(q)
  \/ ChargeDaily(q) \/ ChargeMonthly(q) \/ ChargeFails(q)
  \/ ExecuteRows(q) \/ ExecuteZero(q) \/ Diagnose(q) \/ DataFails(q)
  \/ Narrate(q) \/ NarrativeCharged(q)
  \/ Finish(q)

Next ==
  \/ \E q \in Query :
       Start(q) \/ RunStep(q) \/ AuditCommits(q) \/ Cancel(q) \/ AuditEndsAlone(q)
  \/ NewDay

(* Every await of a run ends: the pools, the statements and the client of  *)
(* the model all have timeouts, and the audit gives up after three tries.  *)
Fairness == \A q \in Query : WF_vars(RunStep(q)) /\ WF_vars(AuditEndsAlone(q))

Spec == Init /\ [][Next]_vars /\ Fairness
-----------------------------------------------------------------------------
Place == {"new", "budget", "generating", "accounting", "executing", "diagnosing",
          "narrating", "accounting_narrative", "auditing", "returned", "cancelled"}

Names(q) == {events[q][i].event : i \in DOMAIN events[q]}

LastEvent(q) == events[q][Len(events[q])]

(* Each component keeps its own type invariant in this company, and a run  *)
(* that knows its rows knows where it is heading.                          *)
TypeOK ==
  /\ Acct!TypeOK /\ Gen!TypeOK /\ Nar!TypeOK /\ Log!TypeOK
  /\ pc \in [Query -> Place]
  /\ outcome \in [Query -> Outcome \cup {"none"}]
  /\ shape \in [Query -> {"none", "zero", "zeroAggregate", "some"}]
  /\ \A q \in Query : shape[q] # "none" => outcome[q] # "none"

Order == <<"sql", "row_count", "rows", "warnings", "narrative", "error", "done">>

Rank(name) == CHOOSE i \in DOMAIN Order : Order[i] = name

(* "sql -> row_count -> rows -> narrative -> done (o error -> done si el   *)
(* pipeline corta antes)" (query_stream): however a run goes, its events   *)
(* come in this order, none twice, none after done, the rows with their    *)
(* count, and error just when the outcome is no answer.                    *)
EventsInOrder ==
  \A q \in Query :
    /\ \A i, j \in DOMAIN events[q] :
         i < j => Rank(events[q][i].event) < Rank(events[q][j].event)
    /\ "rows" \in Names(q) <=> {"sql", "row_count"} \subseteq Names(q)
    /\ {"warnings", "narrative"} \cap Names(q) # {} => "rows" \in Names(q)
    /\ pc[q] = "returned" =>
         /\ LastEvent(q) = [event |-> "done", outcome |-> outcome[q]]
         /\ "error" \in Names(q) <=> outcome[q] \notin Answered

(* "Espera el COMMIT antes de emitir done": when a client has read done,   *)
(* the audit has answered, and if it holds the run at all it holds it with *)
(* the outcome the client read.                                            *)
DoneAfterAudit ==
  \A q \in Query : "done" \in Names(q) =>
    /\ reply[q] \in {"written", "failed"}
    /\ log[q] # Null => log[q].outcome = LastEvent(q).outcome
    /\ reply[q] = "written" => log[q] # Null

(* What is recorded of a run is what happened in it: an answer has all its *)
(* attempts and ends with the accepted one, with the rows the user got; a  *)
(* failure keeps the attempts made before it, unless generation broke down *)
(* itself.                                                                 *)
LogTellsTheRun ==
  \A q \in Query : log[q] # Null =>
    LET e == log[q]
    IN  /\ gen[q].exit # "crash" => Len(e.attempts) = gen[q].usage
        /\ e.outcome \in Answered =>
             /\ e.attempts[Len(e.attempts)] = Gen!Accepted
             /\ e.rows = shape[q]
             /\ e.outcome = "OK_ZERO_ROWS" <=> shape[q] = "zero"
        /\ e.outcome \notin Answered => e.rows = Null

(* Two tables agree: every attempt that nlq_attempts holds of a run was    *)
(* charged to both counters, however generation and what followed it       *)
(* ended, and a run that broke on a charge is never logged as anything     *)
(* else.                                                                   *)
LoggedAttemptsArePaid ==
  \A q \in Query : log[q] # Null =>
    IF step[q] = "failed" THEN log[q].outcome \in DatabaseFailure
    ELSE \A type \in Acct!PeriodType : paid[q][type] >= Len(log[q].attempts)

(* An answer is paid for: both counters got the cost of every completion   *)
(* that went into it, the SQL's and the narrative's.                       *)
AnswersArePaid ==
  \A q \in Query : (pc[q] = "returned" /\ outcome[q] \in Answered) =>
    \A type \in Acct!PeriodType : paid[q][type] = gen[q].usage + nar[q].usage

(* Over budget, nothing runs and nothing is spent: before the budget has   *)
(* been read, and for good once it says no, there is no call to the model, *)
(* no SQL and no charge.                                                   *)
OverBudgetNothingRuns ==
  \A q \in Query : step[q] \in {"readDay", "readMonth", "blocked"} =>
    /\ gen[q].status = "idle" /\ billed[q] = 0
    /\ "sql" \notin Names(q)
    /\ outcome[q] \in {"none", "THROTTLED_BUDGET"}
=============================================================================
