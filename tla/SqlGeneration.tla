--------------------------- MODULE SqlGeneration ---------------------------
(***************************************************************************)
(* nlq/sql_generation.py:generate_validated_sql.  The model is asked for   *)
(* SQL at most MaxAttempts times; an answer the validator rejects, or one  *)
(* that drops the period inherited from the conversation, goes back to the *)
(* model with the rule it broke.  The call ends with a result or with one  *)
(* of four exceptions, all but the last carrying attempts and usage.       *)
(*                                                                         *)
(* An answer is what the function tells apart: a sentinel, or SQL with the *)
(* rules it breaks and the period it keeps.  usage counts completions.     *)
(***************************************************************************)
EXTENDS Integers, Sequences

CONSTANTS
  Query,          \* requests, each with one call of the function
  MaxAttempts,    \* max_attempts
  Rejection,      \* the outcomes SqlRejected carries
  Period,         \* periods SQL may filter on
  NoPeriod        \* none: the SQL has no date filter, nothing is inherited

(* For the modules that use this one to assume.                            *)
SqlGenerationParameters ==
  /\ MaxAttempts \in Nat \ {0}
  /\ "REJECTED_SQL_COST" \in Rejection
  /\ NoPeriod \notin Period

Sentinel == {"OUT_OF_SCOPE", "REJECTED_QUESTION_TOO_BROAD", "REJECTED_INTENT_UNCLEAR"}

Valid == "valid"

Sql == [verdict : Rejection \cup {Valid}, period : Period \cup {NoPeriod}]

Accepted == "accepted"

Exit == {"result", "clarification", "out_of_scope", "failed", "model_failed", "crash"}

VARIABLES
  gen,      \* the local state of each call
  billed    \* history: completions the provider charged for

vars == <<gen, billed>>

Idle == [status |-> "idle", inherited |-> NoPeriod, attempts |-> <<>>,
         usage |-> 0, exit |-> "none", outcome |-> "none", period |-> NoPeriod]

Init ==
  /\ gen = [q \in Query |-> Idle]
  /\ billed = [q \in Query |-> 0]

(* _build_messages and _inherited_period, before the first call.           *)
Begin(q, inherited) ==
  /\ gen[q].status = "idle"
  /\ gen' = [gen EXCEPT ![q].status = "calling", ![q].inherited = inherited]
  /\ UNCHANGED billed

AttemptNo(q) == Len(gen[q].attempts) + 1

(* An attempt that was accepted has no outcome of its own yet.             *)
AttemptOf(q, outcome) == [no |-> AttemptNo(q), outcome |-> outcome]

Return(q, exit, outcome, g) ==
  [g EXCEPT !.status = "returned", !.exit = exit, !.outcome = outcome]

(* A completion arrived: its usage is added and the attempt noted.         *)
Completed(q, outcome) ==
  [gen[q] EXCEPT !.usage = @ + 1, !.attempts = Append(@, AttemptOf(q, outcome))]

Calling(q) == gen[q].status = "calling"

Bill(q) == billed' = [billed EXCEPT ![q] = @ + 1]

(* The model asks for detail or declines: never retried.                   *)
Decline(q, sentinel) ==
  /\ Calling(q)
  /\ gen' = [gen EXCEPT ![q] =
               Return(q, IF sentinel = "OUT_OF_SCOPE" THEN "out_of_scope"
                         ELSE "clarification",
                      sentinel, Completed(q, sentinel))]
  /\ Bill(q)

(* validate(), then preserves_period() on what it let through: a follow-up *)
(* that loses its period is rejected like a query too costly.              *)
Verdict(q, sql) ==
  IF sql.verdict = Valid /\ gen[q].inherited \notin {NoPeriod, sql.period}
  THEN "REJECTED_SQL_COST"
  ELSE sql.verdict

(* A slip: the last attempt is retried like the others.                    *)
RejectOnceMore(q, sql) ==
  /\ Calling(q)
  /\ Verdict(q, sql) # Valid
  /\ LET g == Completed(q, Verdict(q, sql))
     IN  gen' = [gen EXCEPT ![q] =
                   IF AttemptNo(q) > MaxAttempts
                   THEN Return(q, "failed", Verdict(q, sql), g)
                   ELSE g]
  /\ Bill(q)

(* except SqlRejected: note the rejection; the last time, GenerationFailed.*)
Reject(q, sql) ==
  /\ Calling(q)
  /\ Verdict(q, sql) # Valid
  /\ LET g == Completed(q, Verdict(q, sql))
     IN  gen' = [gen EXCEPT ![q] =
                   IF AttemptNo(q) = MaxAttempts
                   THEN Return(q, "failed", Verdict(q, sql), g)
                   ELSE g]
  /\ Bill(q)

Accept(q, sql) ==
  /\ Calling(q)
  /\ Verdict(q, sql) = Valid
  /\ gen' = [gen EXCEPT ![q] =
               [Return(q, "result", "none", Completed(q, Accepted))
                  EXCEPT !.period = sql.period]]
  /\ Bill(q)

(* The call to the model fails.  An error of the API may have been billed  *)
(* or not; a refusal was, and complete_text raises before reading usage.   *)
ModelFails(q) ==
  /\ Calling(q)
  /\ gen' = [gen EXCEPT ![q] = Return(q, "model_failed", "FAILED_LLM_ERROR", gen[q])]
  /\ UNCHANGED billed

ModelRefuses(q) ==
  /\ Calling(q)
  /\ gen' = [gen EXCEPT ![q] = Return(q, "model_failed", "FAILED_LLM_ERROR", gen[q])]
  /\ Bill(q)

(* Anything else that is raised leaves attempts and usage behind.          *)
Crash(q) ==
  /\ Calling(q)
  /\ gen' = [gen EXCEPT ![q] = Return(q, "crash", "FAILED_INTERNAL_ERROR", gen[q])]
  /\ UNCHANGED billed \/ Bill(q)

(* The task is cancelled while it waits for the model.                     *)
Abandon(q) ==
  /\ Calling(q)
  /\ gen' = [gen EXCEPT ![q].status = "abandoned"]
  /\ UNCHANGED billed \/ Bill(q)

Reply(q) ==
  \/ \E s \in Sentinel : Decline(q, s)
  \/ \E sql \in Sql : Reject(q, sql) \/ Accept(q, sql)
  \/ ModelFails(q)
  \/ ModelRefuses(q)
  \/ Crash(q)

Next ==
  \E q \in Query :
    \/ \E inherited \in Period \cup {NoPeriod} : Begin(q, inherited)
    \/ Reply(q)
    \/ Abandon(q)

Spec == Init /\ [][Next]_vars
-----------------------------------------------------------------------------
Outcomes(q) == {gen[q].attempts[i].outcome : i \in DOMAIN gen[q].attempts}

(* Attempts are numbered from one, and every one but the last was rejected *)
(* by the validator: nothing follows an answer that ended the call.        *)
TypeOK ==
  /\ billed \in [Query -> Nat]
  /\ \A q \in Query :
       /\ gen[q].status \in {"idle", "calling", "returned", "abandoned"}
       /\ gen[q].exit \in Exit \cup {"none"}
       /\ Len(gen[q].attempts) <= MaxAttempts
       /\ \A i \in DOMAIN gen[q].attempts :
            /\ gen[q].attempts[i].no = i
            /\ i < Len(gen[q].attempts) => gen[q].attempts[i].outcome \in Rejection

(* The exception the pipeline catches and the attempts it audits agree:    *)
(* how the last attempt ended decides how the call ends, and giving up     *)
(* takes every attempt allowed.                                            *)
ExitTellsTheAttempts ==
  \A q \in Query : gen[q].status = "returned" =>
    LET n == Len(gen[q].attempts)
    IN  CASE gen[q].exit = "result" -> gen[q].attempts[n].outcome = Accepted
          [] gen[q].exit \in {"clarification", "out_of_scope"} ->
               gen[q].attempts[n].outcome = gen[q].outcome
          [] gen[q].exit = "failed" ->
               /\ n = MaxAttempts
               /\ gen[q].attempts[n].outcome = gen[q].outcome
          [] OTHER -> n < MaxAttempts /\ Outcomes(q) \subseteq Rejection
=============================================================================
