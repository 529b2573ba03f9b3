# A formal model of MIRA API

MIRA API answers questions about public procurement in Central America. A
question in natural language becomes SQL written by a language model, the SQL
is validated and run, the rows are decorated with warnings and, if asked for,
with a sentence whose every number must be backed by the rows. Each request is
paid for from a global budget and leaves a record in an audit log.

This directory holds TLA+ modules of that service, TLC configurations that
check them on small instances, and theorems that TLAPS proves for every value
of the constants. Paths in this text are relative to `src/src/mira_api`.

## 1. Inventory

| Component | State it keeps | Operations | What is hard | What makes it correct |
|---|---|---|---|---|
| Rate limiter (`api/rate_limit.py`, `main.py`) | `_counts`: key to count and start of window | `check`, the 429 answer | threads inside `check` at once without a lock, window boundaries, whole seconds in Retry-After | where no thread overwrote a count, twice the limit in any span of a window; waiting as told suffices |
| Budget (`quota/counters.py`, `quota/budget.py`) | counters GLOBAL/DAY and GLOBAL/MONTH in PostgreSQL | `check_budget`, `record_global_spend` | four separate statements of many requests, midnight between any two, failure between the charges | a full block at 100%, bounded overshoot, no lost charge |
| Audit log (`audit/writer.py`, `db/log_executor.py`) | `query_log`, `query_attempt` | `write_audit_log`, three tries | a COMMIT whose answer is lost, a retry beside a live transaction, a dying process | one whole record per request, durable once acknowledged |
| SQL generation (`nlq/sql_generation.py`, `llm/client.py`) | the attempts and usage of a call | `generate_validated_sql` | five exits, usage over attempts, the last attempt | exit, attempts and usage agree; an inherited period stays |
| Narrative (`nlq/narrative.py`) | the attempt and usage of a call | `generate_narrative` | retries, templates, empty texts | no unbacked number is served, the flag tells the truth |
| Pipeline (`nlq/pipeline.py`) | locals of `run_query`, `_audit_tasks` | `run_query`, `_persist_audit`, `_charge_global_budget` | failure and cancellation at every await, one `except` for all | events in order, log, charges and outcome agree |
| Warnings (`nlq/pipeline.py`, `nlq/validator.py`, `db/executor.py`) | none | LIMIT, truncation, warnings from the rows | boundaries, one warning hiding another | what a table does not show is said |
| Diagnosis of a zero (`nlq/coverage_facts.py`) | locals of `diagnose_empty_result` | counts per entity, dates, terms | read after the query while the ETL loads, partial failure, merged ranges | the reason given was true, silence means the data is there |
| Stream (`main.py`) | an unbounded queue and a task per request | `_stream_query_events` | slow clients, clients that leave | everything is delivered, done last; the audit survives |
| Lifespan (`main.py`), pools (`db/pool.py`) | three pools | open, close, `wait_for_audit_tasks` | shutdown beside running tasks, runs uvicorn no longer knows of, pools at their limit | no audit found at work is lost to a closed pool |
| Validator (`nlq/validator.py`) | none | structural rules over a syntax tree | completeness over node types | only what the rules allow passes |
| Conversation (`nlq/country_scope.py`, `nlq/period_scope.py`, `nlq/ranking.py`) | none; the turns come with the request | scope of countries, period, ranking | inheritance over several turns | a follow-up keeps the scope it inherits |
| Numbers (`nlq/number_extraction.py`) | none | extraction and matching | separators, rounding | only backed numbers match |
| Catalogue, coverage, entities (`db/procedures.py`, `db/coverage.py`, `nlq/entities.py`) | none | fixed read-only SQL | a page and its count in two statements | page and total agree |
| Subjects and prices (`quota/identity.py`, `quota/subject.py`, `quota/pricing.py`) | none | signing, hashing, prices | - | pure functions; subject quotas are disabled |
| Deployment (`deploy/release.sh`) | files of a host | apply, rollback | failure in the middle, failing rollback | the version that ran is the one restored |
| Text, schemas, settings, evaluation | none | - | - | - |

How they interact:

    client -> Rate limiter -> Stream -> run_query
       run_query -> Budget (read) -> SQL generation -> Budget (charge)
                 -> executor -> Diagnosis of a zero -> Warnings
                 -> Narrative -> Budget (charge) -> Audit log -> done

The budget and the audit share the database and pool of `analytics.*`; queries
and the diagnosis use the read pool. Nearly all of a process runs on one event
loop: what is between two awaits is atomic there, and nothing else is. The
exception is `_enforce_rate_limit`, a plain `def` that FastAPI runs in its
threadpool: several threads are inside `IpRateLimiter.check` at once, and each
access to `_counts` is a step of its own.

The hazards, each with its line and the properties that watch it, are in
`PROJECT.json`.

Status: modelled are the limiter, the budget, the audit log, SQL generation, the
narrative, the pipeline, the diagnosis, the lifespan with the pools, the
conversation and the deployment; partly the warnings, the stream, the validator
and the numbers (section 8 says what is missing); not modelled the catalogue with
coverage and entities, the subjects and prices, and the last line of the table.

## 2. Modules

| Module | Models | State and its code | Actions |
|---|---|---|---|
| `RateLimiter` | `IpRateLimiter.check`, `_enforce_rate_limit` | `counts` = `_counts`, `now` = `time.monotonic()` in ticks, `check` = the locals of each thread in `check()` | `TakeTime`, `ReadEntry`, `Admit` (writes), `Reject` by thread; `Tick` |
| `Budget` | `check_budget`, `record_global_spend`, `record_spend` | `counter` = `quota_counters.spent_usd` of GLOBAL, `step`, `owed` = where each request is and its `cost_usd`; `since` = when its last statement ran; `ledger`, `paid` = what was added, kept for the properties | one per SQL statement, plus its failure; `NewDay` |
| `AuditLog` | the promise of the audit | `log`, `reply` | `Submit`, `Record`, `Acknowledge`, `GiveUp`, `Kill` |
| `AuditWriter` | `write_audit_log` and PostgreSQL under it | `queryLog`, `queryAttempt` tables; `session` = one transaction per try; `try` = `attempt_no` | one per statement, COMMIT, errors, lost connection, `ServerCommits`, `ServerAborts` |
| `SqlGeneration` | `generate_validated_sql`, `complete_text` | `gen` = locals of the call | one per kind of answer |
| `ValidatorRules` | `validate` of `nlq/validator.py`, rule by rule; the extraction and the preservation of a period; the scope of countries | none: operators over statements of at most two SELECTs | - |
| `Conversation` | turns asked one after the other | `history` = what the client sends; `request`, `accepted`; `gen` as above; `about`, `held`, `silent` = what the conversation is about, kept for the properties | `Ask`, `Offer` (an answer of the model, validated), `NoStatement`, `GiveUp`, `Answered` |
| `Narrative` | `generate_narrative` | `nar` = locals of the call | one per kind of text |
| `NumberVerification` | `nlq/number_extraction.py` | none: operators over numbers as they are written | - |
| `VerifiedNarrative` | the two together | `nar` | those of `Narrative` |
| `RunQuery` | `run_query` | `pc` = the await the run is in, `outcome`, `events` = calls of `on_event` | one per await, its failure, `Cancel` |
| `QueryStream` | `_stream_query_events` | `taken`, `reader` = the generator | `Take`, `Send`, `Close`, `Leave`, `CancelRun` |
| `ZeroDiagnosis` | `diagnose_empty_result` | locals of the call, `loaded`, `named` = what the views hold, and in which columns the terms are | one per read, its failure; `Load` = the ETL |
| `ResultWarnings` | `_enforce_limit`, `ReadOnlyExecutor.run`, the warnings of `run_query` | `sql`, `effective`, `result`, `warnings` | `Validate`, `RunList`, `RunCount`, `WarnOfZero`, `WarnOfRows` |
| `Service` | `lifespan`, the three pools, the requests between them | `phase` of the process; `open`, `queue`, `held` of each pool; `job` = the connections a request asks for still, and where its client is; `awaited` = `pending` of `wait_for_audit_tasks` | `Startup`, `Arrive`, `Ask`, `Grant`, `TimeOut`, `Use`, `Leave`, `Drop`, `Deliver`, `Terminate`, `Drained`, `FindAuditTasks`, `WaitForAuditTasks`, `ClosePool`, `Exit`, `Kill` |
| `Release` | `deploy/release.sh` | `host` = files, container and record; `previous` = the backup; `script` = its next command; `before`, `target` = the host earlier, kept for the properties | one per command; `Abort` and `GiveUp` = a failure or a signal; `Kill` |

`MC*` modules give the constants their values; `*Proofs` modules hold the
theorems of section 6. `CoverageReasons` has the codes and the constants that
`ZeroDiagnosis` and `ResultWarnings` share. Two modules hold the theorems of two
components each, `ProcessProofs` (`RateLimiter`, `Service`) and `WarningsProofs`
(`ResultWarnings`, `ZeroDiagnosis`), which is why the formulas of `Service` and
`ZeroDiagnosis` bear a name of their own (`ServiceNext`, `DiagnosisNext`).

Composition. `RunQuery` has `Budget`, `SqlGeneration`, `Narrative` and
`AuditLog` as instances over its own variables; each of its actions conjoins
the action of the component that the awaited call performs. `QueryStream`
extends `RunQuery`. `AuditWriter` implements `AuditLog` (property
`ImplementsAuditLog`), so `RunQuery` uses the abstract log and need not carry
the two tables. `Conversation` runs one `SqlGeneration` per turn, whose answers
are judged by `ValidatorRules`; in `RunQuery` the verdict is nondeterministic.
`VerifiedNarrative` gives `Narrative` the numbers that `NumberVerification` lets
through; in `RunQuery` they are a constant. There the warnings are one Boolean;
what they are is the business of `ResultWarnings` and `ZeroDiagnosis`.

Operators whose comment begins with "A slip" are not part of any specification:
each is a plausible wrong version of the definition that follows it, with which
the property it is paired with in `PROJECT.json` fails.

What stands for what:

- Costs are counted in completions (`RunQuery`, `SqlGeneration`) or in a small
  unit (`Budget`). A period key is worked out before the statement waits for its
  connection, so it may be of any day since the statement before.
- In `RunQuery` a text is an origin and a set of numbers, and SQL a verdict of
  the validator. In `Conversation` a statement is what the rules look at: the
  views, the columns shown with the operations around them and the conjuncts of
  its WHERE, in at most one inner SELECT (a derived table, or a CTE with its name)
  and the one around it. A condition on a country is on one view, under its alias
  or without one; the rule does not look. No SELECT reads a view twice, nor two
  views with the same dates (`DatesAssumption`), so a condition on a date needs no
  alias. Operations within a WHERE are left out. A question is what the patterns of
  `country_scope.py`, `period_scope.py` and `ranking.py` find in it; the patterns
  themselves belong to `re`, as parsing belongs to sqlglot. A date is a day, and
  a period two of them.
- In `NumberVerification` a number is its groups of digits with the separators
  between them and the word after it, as far as the code or a reader tells such
  words apart; values are integers, in thousandths, up to `Top`. There is no minus
  sign. `Meanings` is what a reader may take it for, one value or two.
- In `AuditWriter` losing a connection does not roll back: the server may have
  committed, may still, or may keep the transaction with its lock until
  `idle_in_transaction_session_timeout`.
- In `Service` a request is the sequence of pools it needs a connection of; the
  calls to the model lie between. A client is connected until it has read its
  response, leaves with its run cancelled (`Leave`), or leaves while something
  is sent to it (`Drop`): then nobody tells the run. Reconnecting and recycling
  of psycopg_pool are within `Grant`.
- In `Release` a file is known by the version it comes from; a write that was
  cut leaves `Torn`. The branches of the script for mira-etl are left out.
- In `ZeroDiagnosis` a date is a day, or a year where the filter is written in
  years; the date literals of a statement are the bounds of its one period, while
  its numbers may be anything. The loader is not part of this repository and only
  adds rows. That an award is in `query.v_awards_all` and not in `v_awards` is left
  out. After an unexplained zero over awards, `run_query` still adds
  `NO_VALID_AWARDS`; that is in `ResultWarnings`.
- In `ResultWarnings` a LIMIT of 0 and rows without a country or a currency are
  not enumerated; an OFFSET, a LIMIT of an inner SELECT and
  `unnormalised_item_warning` are left out.
- External behaviour (PostgreSQL, the clock, the model, clients) is in the map as
  external and does whatever the code must be prepared for. The client of
  `Conversation` keeps the turns that were answered, with the countries of the
  answer.

## 3. Runs

| Run | Bounds | What it shows |
|---|---|---|
| `rate_limiter` | two threads, one address and the shared bucket, limit 2, window of 3 ticks, 2 ticks a second, 5 ticks, 6 calls | `AtMostTwiceTheLimit`, `RetryAfterSuffices` |
| `budget` | 2 requests at a time, costs 0 and 2, two charges each, 3 days in 2 months, limits 2 and 4 | `NoAdmissionAfterExhaustion`, `OvershootBounded`, `MonthFollowsDay`, `CountersAddUp` |
| `audit_writer` | 1 request, 2 outcomes, 2 attempts, 3 tries | `OneRowPerQuery`, `RecordIsWhole`, `WrittenIsDurable`, refinement of `AuditLog` |
| `conversation` | 2 countries, 2 currencies, 2 days, histories of 2 turns, 2 attempts a turn; questions with and without a name, a period, a total; for every rule a statement that breaks it, and statements that get through though they should not | `AnswersOnlyTheAsked`, `ConversationKeepsItsPeriod`, `AmountsAreStored`, `OneWinnerPerCurrency`, `ExitTellsTheAttempts` |
| `narrative` | 2 results, 2 attempts, texts with a plain number of up to three groups, alone, with the number of rows or with a number that is misread | `NoInventedNumber`, `NoFalseAlarm`, `VerifiedTellsTheText` |
| `zero_diagnosis` | 2 countries, 2 dates, filters with either bound open, up to 2 year numbers, 1 term in 2 columns, five sets of entities, 1 load | `ReasonsWereTrue`, `SilenceMeansLoaded` |
| `result_warnings` | 3 countries, 2 currencies, cap of 3 rows, LIMIT 1 to 4 or none | `HiddenRowsAreSaid`, `PartialTableIsSaid`, `AbsenceIsNotOverstated` |
| `service` | 3 requests, pools of one connection with one place to wait | `AuditsEndBeforeThePool`, `ConnectionsReturn`, `EverythingEnds` |
| `release` | 3 versions, 4 scripts in a row | `DeployedIsWhole`, `FailureChangesNothing`, `RollbackUndoesTheDeployment` |
| `query_stream` | 1 stream, 2 attempts at SQL, 1 at the narrative, 2 days in one month, limits 1 and 2 | `EventsInOrder`, `DoneAfterAudit`, `LogTellsTheRun`, `LoggedAttemptsArePaid`, `AnswersArePaid`, `OverBudgetNothingRuns` of the run; `StreamTypeOK`, `StreamEndsWithDone`, `SlowClientsHoldNothing`, `PatientClientsAreServed`, `AuditOutlivesTheClient` of its stream |

Why the bounds are enough. The attempt counts of the code are small (3, 2 and 3
tries) and taken as they are where the run's size allows; where a run composes
components, fewer attempts give the same sequences of events. Requests only meet
in the budget counters and in the pools: two of them give every race of a pair,
three let one hold, one wait and one be refused; a pool of one connection is the
one most easily exhausted. The limits are chosen so that a single charge can
exhaust a day and two a month, a cap of 3 leaves room for a LIMIT below, at and
above it, and six calls of two threads fill a window, overwrite each other's
counts and open the next. Two turns of history let the search for an inherited
period pass one turn and stop at the next; the service sends three. Four scripts
give a deployment on top of a failed or a killed one, and a rollback after that.
Days, ticks, loads, rows left out, scripts and values are bounded by `LastDay`,
`Horizon`, `MaxLoads`, `MaxHidden`, `MaxCalls`, `MaxRuns` and `Top`, all of them
constants. Requests (`budget`), threads (`rate_limiter`), countries and
currencies (`result_warnings`) are declared symmetric; those runs have no
liveness property. Every run of requests that come once, or of a bounded number
of scripts, says `CHECK_DEADLOCK FALSE`, since they are over at some point; so
does `rate_limiter`, whose calls are counted. `budget` and `conversation` check
for deadlock: there, requests keep coming.

Some statements and numbers get through the rules that should not (section 4).
They are in the runs all the same: `LooseSql` of `conversation`, which an `ASSUME`
of `MCConversation` shows to be let through and to read other countries or show
amounts that no row holds, and `Misread` of `narrative`. The properties say by name
what they do not speak of: `CountriesStandAlone`, `HidesAView`,
`OperatesAsNamed`, an OFFSET, numbers that are not `Plain`.

Two more runs expect a violation: each states what a docstring says and finds a
behaviour of the code that differs.

| Run | The text | The code |
|---|---|---|
| `silent_zero` | with several entities all are checked (`nlq/coverage_facts.py:189`) | their date ranges are merged per country |
| `computed_money` | computed amounts are impossible (`nlq/validator.py:327`) | not if a derived table renames the column first |

## 4. Limits of the code

What the models show of the code beside the two violations, without a run of
its own. No property above contradicts it: each is stated so as to hold.

- *The limiter.* Threads that read `_counts` before another has written
  (`api/rate_limit.py:57-67`) count once for all of them, so more gets through
  than the "hasta 2x" of the class comment. `AtMostTwiceTheLimit` speaks of
  admissions none of which was written over a count it had not read.
- *Shutdown.* A client that leaves while an event is sent to it leaves a run
  that nobody cancels or awaits; `wait_for_audit_tasks` looks once
  (`nlq/pipeline.py:149`), so an audit that this run begins later meets a closed
  pool or the end of the process, although the docstring of `_persist_audit` has
  the pending tasks waited for. A client that does not read its response keeps
  uvicorn draining until the process is killed: there is no
  `--timeout-graceful-shutdown` (`src/Dockerfile:44`).
- *The log database.* The budget is read and charged on the database of the log,
  so a failure of that database alone leaves the user with an error
  (`nlq/pipeline.py:474`), although `db/pool.py:56` says that users should not be
  affected.
- *Outcomes.* `audit/outcomes.py:22` has every query end in one of the outcomes;
  a run that is cancelled before its audit ends in none.
- *Charges.* A failure between the two UPSERTs of `record_global_spend` leaves a
  cost in DAY and not in MONTH (`PayMonthlyFails`); `MonthFollowsDay` says that
  this is the only way they differ. A refusal of the model is billed and raises
  before `response.usage` is read (`ModelRefuses`): the budget never sees it.
- *Absence.* With two currencies in a table of amounts the mixture of currencies
  is what is said, and a third country that is missing is named nowhere
  (`nlq/pipeline.py:256-273`). `PartialTableIsSaid` only promises that such a
  table does not go out bare.
- *Reasons for a zero.* `extract_queried_date_range` takes any date literal, or
  number like a year, for the period (`Literals`): a one-sided bound becomes one
  day, an amount of 2024 a year, and of several such numbers the first is taken
  (114-116). `ReasonsWereTrue` speaks of the period only where the query states
  both bounds, in dates or as one year. A bound that is excluded counts like one
  that is included (118-133, 278): under `< '2025-01-01'`, data that begins that
  very day is taken to be in range and the zero goes out as real, though no row of
  the period is held. `SilenceMeansLoaded` speaks of the period with that day in it.
- *Terms.* Each ILIKE is looked at alone (`nlq/coverage_facts.py:327-345`): of a
  term searched for in the title or in the description, the one that lacks it is
  blamed although the other has it, and of two that lack it the last is what is
  said.
- *Zeros.* A count of zero is recognised under five
  column names (`IsZeroAggregate`); under another it is served undiagnosed.
- *Numbers.* A suffix ends at no word boundary (`nlq/number_extraction.py:15`):
  "25 milímetros" is read as 25000 and let through where the result has that;
  "500 miligramos" is objected to where a cell says 500; so with "millonario".
  The misspelt "5 millónes" is read as 5. Not matched, hence never objected to:
  a number with a letter before it ("Q8,000"). Matched but refused by `float()`,
  hence skipped: "1,234,56", "9.999.99". Read as another value: "5 million" as
  5, "5 mil millones" as 5000, "0.125" and "1234.567" as thousands, "1.2345" as
  1234. Flagged though right: a tie rounded up, "3" for 2.5.
- *Countries.* `_check_country_scope` wants one predicate in the whole statement,
  whatever its alias (`nlq/validator.py:408-411`): with
  `p.country_code = 'CR'` over processes and suppliers every supplier is read. It
  accepts one under OR or NOT, one that compares two columns, one in another SELECT
  than the view it is for, and a statement over views without a country alone needs
  none.
- *CTEs.* A view with the name of a CTE is left out of the relations even under its
  schema (`nlq/validator.py:397-402`), so none of the rules that go by relations
  sees it (`HidesAView`).
- *Amounts.* The rules name SUM, AVG and the four operations; ROUND, STDDEV,
  PERCENTILE_CONT, % and a minus sign pass and show what no row holds. MIN and MAX
  pass on purpose (`nlq/validator.py:277-284`).
- *Currencies.* The filter on a currency is accepted if the question names some
  currency, be it another (`nlq/validator.py:245-252`). An OFFSET beside
  DISTINCT ON stays, when the LIMIT is dropped (268), and skips a winner.
- *Periods.* A dated view in a subquery of the WHERE is no source for
  `preserves_period` (`nlq/period_scope.py:191`), and a condition around an
  inner SELECT counts for all its dated views. A statement whose filter has a
  second date says no single period; after as many of those as the history holds
  turns, the period of the conversation is gone (`silent`).
- *Follow-ups.* A client that stores its selection with each turn, and not the
  countries of the answer, has the third unnamed follow-up widen to the
  selection, since only the turn before is looked at (`PreviousCountries`).
- *Deployments.* An apply that is killed while it writes its backup leaves one
  with parts of two versions; a rollback that starts from it mixes them.
  `RollbackUndoesTheDeployment` is about the rollback after a deployment that
  succeeded.

## 5. Fairness

Liveness rests on weak fairness of steps the service itself takes. No fairness is
assumed of clients, of the model or of the loader; where the outcome depends on a
client, the property says so.

- A task that can run is run (`RunQuery`, `AuditWriter`, `Service`): they share an
  event loop, and every operation awaited has a timeout (`statement_timeout`,
  `lock_timeout`, the pools' `timeout`, the HTTP client of the model). So each
  await ends, with an answer or an error: `WF(RunStep)`, `WF(TaskStep)`,
  `WF(Use)`. The fairness is of the disjunction of success and failure, so
  success is never assumed.
- `AuditWriter` also assumes that PostgreSQL ends a transaction nobody speaks to
  (`idle_in_transaction_session_timeout=10000` in `db/pool.py`).
- `Service` assumes that a pool hands out a connection it has, that who waits is
  served or times out, and that the lifespan goes on when what it waits for is
  there. Nobody has to arrive, leave, or stop the process. That requests end needs
  nothing of clients; that a shutdown does has in `EverythingEnds` the condition
  that no client leaves its response unread for ever.
- `QueryStream` assumes nothing of clients. `PatientClientsAreServed` has the
  assumption in the property itself: a client that stays and reads sees the end.

`RateLimiter`, `Conversation`, `VerifiedNarrative`, `ZeroDiagnosis`,
`ResultWarnings`, `Budget` and `Release` have no liveness property and state no
fairness.

## 6. Theorems

| Module | Theorem | Establishes |
|---|---|---|
| `ProcessProofs` | `TypeCorrect`, `SlidingBound`, `RetryAfterIsEnough` | the three invariants of `RateLimiter` |
| | `ServiceStaysSound`, `AuditsAreWaitedFor`, `ConnectionsComeBack` | the inductive invariant of `Service`; `AuditsEndBeforeThePool`, `ConnectionsReturn` |
| `BudgetProofs` | `TypeCorrect`, `FullBlock`, `MonthNeverAhead`, `NoLostCharge` | `TypeOK`, `NoAdmissionAfterExhaustion`, `MonthFollowsDay`, `CountersAddUp` |
| | `OvershootIsBounded` | `OvershootBounded` |
| `AuditWriterProofs` | `OneRow`, `WholeRecord`, `Durable` | `OneRowPerQuery`, `RecordIsWhole`, `WrittenIsDurable` |
| | `StepsOfAuditLog` | `AuditWriter` takes only steps of `AuditLog`: the safety part of `ImplementsAuditLog` |
| | `LogIsKept` | `LogIsHonest` and `LogIsFinal` of `AuditLog`, of what `AuditWriter` does |
| `ConversationProofs` | `Inductive` | the inductive invariant of `Conversation` |
| | `OnlyTheAskedIsRead`, `FollowUpsKeepThePeriod` | `AnswersOnlyTheAsked`, `ConversationKeepsItsPeriod` |
| | `StoredMoneyIsShown`, `CurrenciesAreNotMixed`, `TurnsEndAsTheyWent` | `AmountsAreStored`, `OneWinnerPerCurrency`, `ExitTellsTheAttempts` |
| `QueryStreamProofs` | `StreamsRunQueries`, `ComponentsAreKept` | a stream takes only steps of `RunQuery`; within a run, the budget, the call of the model and the log only steps of their own specifications |
| | `StreamsAreInOrder`, `DoneComesAfterTheAudit`, `TheLogTellsTheRun` | `EventsInOrder`, `DoneAfterAudit`, `LogTellsTheRun` |
| | `LoggedAttemptsWerePaid`, `EveryAnswerIsPaid`, `RefusedRunsDoNothing` | `LoggedAttemptsArePaid`, `AnswersArePaid`, `OverBudgetNothingRuns` |
| | `StreamTypes`, `StreamsEndWithDone` | `StreamTypeOK`, `StreamEndsWithDone` |
| | `ExitsTellTheAttempts`, `TheLogIsHonest` | the promises of `SqlGeneration` and `AuditLog`, of every run among others |
| `NarrativeProofs` | `FlagTellsTheText`, `NarrativeType` | `VerifiedTellsTheText`, `TypeOK` |
| | `ServedIsVerified` | a served text has no number that `find_unverified_numbers` objects to |
| | `NothingIsInvented`, `NothingIsLost` | `NoInventedNumber`, `NoFalseAlarm` |
| `WarningsProofs` | `NoSilentCut`, `FairAbsence`, `AbsenceIsSaid` | `HiddenRowsAreSaid`, `AbsenceIsNotOverstated`, `PartialTableIsSaid` |
| | `BlamedDataWasMissing`, `SilentZerosAreCovered` | `ReasonsWereTrue`, `SilenceMeansLoaded` of `ZeroDiagnosis` |
| `ReleaseProofs` | `ReleaseType`, `WholeWhenDeployed`, `FailureIsHarmless`, `RollbackUndoes` | `TypeOK`, `DeployedIsWhole`, `FailureChangesNothing`, `RollbackUndoesTheDeployment` |

The assumptions are those the modules name (`RateLimiterAssumption`,
`BudgetAssumption`, ...): limits and windows are numbers, sets of countries are
finite, sentinels are no values. TLC evaluates them in every run.
`BudgetParameters`, `SqlGenerationParameters` and `NarrativeParameters` are
operators, since these modules are also used by INSTANCE; the modules that use
them assume them. `Conversation` assumes that a client may send at least one
turn (`api/schemas.py` allows three), that a table has room for a row of each
currency (`max_rows` is 500), that the condition of a statement is a finite
set of conjuncts, and that no SELECT reads two views with the same dates. The
theorems of the limiter are about a positive limit; with none the code counts
nothing.

Two more theorems have hypotheses of their own, each met by the constants of a run:

- `OvershootIsBounded`: requests at one time are finitely many, and what an
  earlier process left in the counters is itself within the bound
  (`SpentWithinBounds`; TLC evaluates both as `BeganWithinBounds` of `MCBudget`).
  Nothing else could hold: the bound is on what this process adds.
- `StoredMoneyIsShown`: no inner SELECT gives an amount a name that is none
  (`MoneyKeepsItsName`). TLC evaluates it for the statements of `conversation`
  (`PlainIsPlain`). Without it the invariant is false, as `computed_money` shows.

Conditions of one statement, number or filter are in the properties themselves, so
that they also hold, and are proved, of runs in which others occur: section 3 names
them, section 4 says what the code does beyond them.

The arguments:

- *Rate limiter.* That 2 * Limit admissions span a window speaks of all
  admissions, and is no consequence of the two numbers the code stores. The
  inductive invariant follows the admissions of an address as a chain: as long as
  no count was written over, a later admission belongs to the same window, as many
  counts on, or to a window that opened a full one later (`Chained`), and the
  stored entry is what the last admission wrote (`EntryIsLastAdmission`). What a
  thread has read is what is stored, unless the address was admitted since
  (`ReadIsCurrent`); so an admission that is not stale continues the chain. Of
  2 * Limit chained admissions one of the first `Limit` opens its window, since no
  count is above `Limit`, and one of the `Limit` after that opens a later one
  (`TwiceTheLimitSpansAWindow`). For Retry-After, `PromiseCovers` keeps each
  promise that no admission has overtaken at or after the end of the stored window,
  by `RoundingUp`, for the clock a thread took is never ahead.
- *Budget.* That a period was full when a request arrived must survive until the
  request reads it. It does since counters only grow (`StepGrows`), which gives
  `ExhaustedStaysFull`; `WayInIsClean` covers a request between its two reads. That
  no charge is lost is a sum over all requests: the units of cost each added make a
  set (`Units`), a charge adds as many new ones as it costs (`AddedUnits`), so the
  sum is a cardinality and never unrolled.
- *Overshoot.* The bound counts the charges that were let in before the counter
  was seen full, a sum over requests that come and go. The proof gives each
  request a token for every charge it may still make of a period (`Open`). A
  counter that is at its limit is paid for out of tokens given out before; a
  charge adds at most the greatest cost and burns a token that no later arrival
  restores, since who arrives is turned away (`SpentAndOpen`). The tokens
  of all requests are at most requests times charges, so the sum never has to be
  unrolled.
- *Audit writer.* Several transactions of one request may be live: a try whose
  connection broke and the one after it. A session that has the query_id keeps
  the others out until it ends (`OneHolder`); so what it found, no row or the row
  of an earlier try, is still so when it commits (`KnowsTheRow`), and it commits
  only when its row and all attempts are in it (`CommitsTheWhole`).
  `FollowsTheTask` ties the session of the current try to the place of the task.
  A commit is then a `Record` of the abstract log if there was no row, and a
  stutter if there was. The promises of the log follow from the refinement.
- *Run and stream.* What a run promises at its end was decided at many awaits
  before: the invariant says, place by place, what has been said, paid,
  submitted and recorded when a run is there, for every place of `run_query` at
  once, with the other runs charging and auditing in between. It was checked by
  TLC before it was proved. The components enter by their own
  steps (`ComponentsAreKept`): the run needs of the log only that a record stays,
  of the counters only that they grow, of the call of the model only that what
  is audited agrees with how it ends (`CallOK`: a call that goes on has had
  nothing but rejections, one per attempt). The stream adds what the queue
  holds: what was said is what was sent and what still waits.
- *Conversation.* Three parts, each about one thing the history must still tell:
  the countries (`CountriesAreKnown`), the period and since when it is silent
  (`PeriodIsKnown` with `TellsOf`: the turn that says the period is in the window
  as long as fewer turns than the window holds have been silent), and that the
  statement answered went through every rule for the question of this turn
  (`AnswerIsJudged`). TLC checked them first. What a
  statement that passes reads is then a matter of the rules alone: each theorem
  takes the rule that speaks of it and follows the rows through the conjuncts of
  the statement (`ValidReadsTheAsked`, `ValidShowsStored`, `ValidRanksFairly`).
- *Narrative.* What a call gives out is fixed in the step that returns (`Served`),
  so the invariant carries it for each call. `ServedIsVerified` then rests on
  `find_unverified_numbers` judging each number by itself. For the numbers
  themselves it is enough that a plain number is matched as a whole
  (`PlainIsMatched`), that the reading the code gives it is one of those a reader
  may give it (`PlainIsRead`), and that what the code allows are the values of
  the result and their roundings (`RoundIsRounded`). What the digits add up to
  is the same on both sides and is never computed, so no induction is needed.
- *Warnings.* Rows are left out only by a result that fills its limit
  (`HiddenFillsLimit`), and a result that fills its limit is said to
  (`RowWarningsTell`) and makes no claim of absence (`RowWarningsAreFair`). An
  absence is said since the countries of the rows are among those asked about
  (`RowsAreInScope`): one that has rows and one that has none make two, and the
  code only looks for absences when at least two were asked about.
- *Diagnosis of a zero.* Two moments are told apart, the query and the count,
  with loads in between. What a count finds is still there later, since rows only
  come (`ReadIsHeld`, `RangeIsHeld`), and what it does not find was not there
  when the query ran (`MissingWasMissing`). For the period, of every row the query
  could have used there are kept dates on both sides (`RangeCovers`), by what
  `Max` and `Min` choose in finite sets (`FiniteHasMax`, `FiniteHasMin`);
  `VerdictStands` carries what was decided to the end. Of the terms, what is still
  blamed was missing in the column of some predicate that was read.
- *Service.* What may still want a connection shrinks from phase to phase: after
  uvicorn has drained, only audits whose clients left and dropped runs; once the
  audits found in one look were waited for, only dropped runs
  (`OnlyAuditsAreLeft`). What a step may make of a request keeps it
  there: an audit stays one to its end, and only an audit outlives a client that
  left (`GoesOn`). Connections return since a request is in at most one queue or
  pool, which its own state names, and every way out of it passes through there
  (`LeavingKeeps`, `WithoutOne`).
- *Release.* The promises speak of an idle host, so the invariant says how far a
  script has come: until the host is touched it is as it was, and from then on
  the backup has all of it (`Saved`); each command puts one more part in place
  (`Applying`, `Restoring`). The backup of a deployment stays valid after it
  (`Underway`), for the rollback.

Every safety invariant that a passing run checks is proved. Only model-checked are the
liveness properties (`EverythingEnds`, `SlowClientsHoldNothing`,
`PatientClientsAreServed`, `AuditOutlivesTheClient`) and the fairness part of
`ImplementsAuditLog`: they rest on ENABLED and on fairness, which are out of the
provers' reach. Induction over finite sets and numbers was done where it was
needed as the absence of a smallest counterexample (`FiniteHasMax`). What a
recursive operator computes cannot be proved, so the modules have none:
`Without` of `Service` takes a waiter out of its queue by its place.

## 7. What may follow

`Conversation` could be composed with the countries of `ResultWarnings`, and
`Service` with the steps of `RunQuery`, which multiplies their states and so is
a matter for proofs rather than for runs. That `AuditWriter` implements
`AuditLog` could be carried into `QueryStream`, in whose place the log is
abstract now.

## 8. Not modelled

The text of prompts, the semantic dictionary and the guess of the language have
no state. Schemas and settings are declarations; the settings are constants
here. Prices and cookie signatures are pure functions of numbers and strings.
Entity resolution is one statement whose matching PostgreSQL does, the coverage
endpoint aggregates the rows of one, and the catalogue reads a page and its
count in two statements with nothing in common but the filters. Subject quotas
are disabled and repeat the protocol of `Budget`. The evaluation harness is a
development tool. Of the stream, the `except` of `runner()` in `main.py` is
reached only if the lines of `run_query` before its `try` raise, and is left
out; of the validator, deeper nesting than one inner SELECT, a view read twice in
one SELECT, operations within a WHERE, and NULLS LAST; of the warnings,
`unnormalised_item_warning`, an OFFSET and the LIMIT of an inner SELECT; of the
numbers, negative ones.

## 9. Running

    tlc -config MCBudget.cfg MCBudget
    tlapm BudgetProofs.tla

`PROJECT.json` pairs each run with its module and configuration, each property
with the mutant that breaks it, and each definition with the lines it models.
