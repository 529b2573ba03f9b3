------------------------------- MODULE Budget -------------------------------
(***************************************************************************)
(* The global budget (quota/budget.py over quota/counters.py): before any  *)
(* model call a query reads the DAY counter and then the MONTH counter,    *)
(* each in a statement of its own; after the calls it adds their cost to   *)
(* DAY and then to MONTH, again in two separate transactions.  Queries     *)
(* interleave at every await and the calendar moves at any moment.  The    *)
(* period key of a statement is worked out before it waits for its         *)
(* connection: at some time between the statement before it and itself.    *)
(*                                                                         *)
(* A member of Query is a slot: one of the requests in progress at a time. *)
(* When its request is over, the slot takes another.  Amounts are in the   *)
(* smallest unit of cost.  query_count, which the same UPSERT increments,  *)
(* is read by nobody for the subject GLOBAL and is left out.               *)
(***************************************************************************)
EXTENDS Integers, FiniteSets

CONSTANTS
  Query,           \* requests in progress at one time
  Cost,            \* what the model calls charged together may cost
  Charges,         \* charges of one request: SQL generation, narrative
  DailyLimit,      \* budget_daily_usd
  MonthlyLimit,    \* budget_monthly_usd
  DaysPerMonth,
  LastDay,         \* bound on the calendar
  Spent            \* what the first day and month may have spent already

(* For the modules that use this one to assume.                            *)
BudgetParameters ==
  /\ Cost \subseteq Nat
  /\ Charges \in Nat
  /\ DailyLimit \in Nat
  /\ MonthlyLimit \in Nat
  /\ DaysPerMonth \in Nat \ {0}
  /\ LastDay \in Nat
  /\ Spent \subseteq Nat

ASSUME BudgetAssumption == BudgetParameters

VARIABLES
  today,      \* the UTC date, as a day number
  counter,    \* analytics.quota_counters for GLOBAL: period -> spent_usd
  step,       \* where each request is in the protocol
  owed,       \* the cost_usd of record_global_spend while it runs
  charges,    \* how many times the request has been charged
  basis,      \* history: the two periods whose counters admitted the request
  since,      \* the date of its last statement, or of its arrival
  exhausted,  \* history: the periods already used up when it arrived
  paid,       \* history: what it added to DAY and to MONTH counters
  began,      \* history: what the first day and month had spent already
  ledger      \* history: what the requests of a slot added to each counter

vars == <<today, counter, step, owed, charges, basis, since, exhausted, paid, began, ledger>>

PeriodType == {"DAY", "MONTH"}

PeriodKey(type, day) == IF type = "DAY" THEN day ELSE day \div DaysPerMonth

(* The counter of a statement whose key was worked out that day.           *)
PeriodOf(type, day) == <<type, PeriodKey(type, day)>>

CounterKey == PeriodType \X (0..LastDay)

LimitOf(period) == IF period[1] = "DAY" THEN DailyLimit ELSE MonthlyLimit

(* A slip: one more query is let through when the limit is just reached.   *)
IsExhaustedStrict(period) == counter[period] > LimitOf(period)

(* check_budget blocks at 100%: spent >= limit.                            *)
IsExhausted(period) == counter[period] >= LimitOf(period)

Began(p) == IF p[2] = 0 THEN began[p[1]] ELSE 0

Init ==
  /\ today = 0
  /\ began \in [PeriodType -> Spent]
  /\ counter = [p \in CounterKey |-> Began(p)]
  /\ step = [q \in Query |-> "idle"]
  /\ owed = [q \in Query |-> 0]
  /\ charges = [q \in Query |-> 0]
  /\ basis = [q \in Query |-> {}]
  /\ since = [q \in Query |-> 0]
  /\ exhausted = [q \in Query |-> {}]
  /\ paid = [q \in Query |-> [type \in PeriodType |-> 0]]
  /\ ledger = [q \in Query |-> [p \in CounterKey |-> 0]]

MoveTo(q, s) == step' = [step EXCEPT ![q] = s]

Now(q) == since' = [since EXCEPT ![q] = today]

(* A request arrives and waits for a connection to read the DAY counter.   *)
Arrive(q) ==
  /\ step[q] = "idle"
  /\ MoveTo(q, "readDay")
  /\ exhausted' = [exhausted EXCEPT ![q] = {p \in CounterKey : counter[p] >= LimitOf(p)}]
  /\ basis' = [basis EXCEPT ![q] = {}]
  /\ charges' = [charges EXCEPT ![q] = 0]
  /\ paid' = [paid EXCEPT ![q] = [type \in PeriodType |-> 0]]
  /\ Now(q)
  /\ UNCHANGED <<today, counter, owed, began, ledger>>

ReadCounter(q, period, next) ==
  /\ basis' = [basis EXCEPT ![q] = @ \cup {period}]
  /\ MoveTo(q, IF IsExhausted(period) THEN "blocked" ELSE next)
  /\ Now(q)
  /\ UNCHANGED <<today, counter, owed, charges, exhausted, paid, began, ledger>>

CheckDaily(q) ==
  /\ step[q] = "readDay"
  /\ \E day \in since[q]..today : ReadCounter(q, PeriodOf("DAY", day), "readMonth")

CheckMonthly(q) ==
  /\ step[q] = "readMonth"
  /\ \E day \in since[q]..today : ReadCounter(q, PeriodOf("MONTH", day), "admitted")

(* The log database does not answer a read, or the request is cancelled.   *)
ReadFails(q) ==
  /\ step[q] \in {"readDay", "readMonth"}
  /\ MoveTo(q, "failed")
  /\ UNCHANGED <<today, counter, owed, charges, basis, since, exhausted, paid, began, ledger>>

Pays(q, type, period, amount) ==
  /\ paid' = [paid EXCEPT ![q][type] = @ + amount]
  /\ ledger' = [ledger EXCEPT ![q][period] = @ + amount]

(* A slip: the new sum is worked out from what the requests of this slot   *)
(* know of the counter.                                                    *)
UpsertOverwrites(q, type, day, amount) ==
  LET period == PeriodOf(type, day) IN
    /\ counter' = [counter EXCEPT ![period] = Began(period) + ledger[q][period] + amount]
    /\ Pays(q, type, period, amount)

(* insert ... on conflict do update set spent = spent + excluded.spent     *)
Upsert(q, type, day, amount) ==
  LET period == PeriodOf(type, day) IN
    /\ counter' = [counter EXCEPT ![period] = @ + amount]
    /\ Pays(q, type, period, amount)

(* record_global_spend: the cost of the calls just made, to DAY first.     *)
PayDaily(q, amount) ==
  /\ step[q] = "admitted"
  /\ charges[q] < Charges
  /\ charges' = [charges EXCEPT ![q] = @ + 1]
  /\ owed' = [owed EXCEPT ![q] = amount]
  /\ \E day \in since[q]..today : Upsert(q, "DAY", day, amount)
  /\ MoveTo(q, "payMonth")
  /\ Now(q)
  /\ UNCHANGED <<today, basis, exhausted, began>>

(* A slip: the month is charged again on a second attempt.                 *)
PayMonthlyTwice(q) ==
  /\ step[q] = "payMonth"
  /\ \E day \in since[q]..today : Upsert(q, "MONTH", day, 2 * owed[q])
  /\ owed' = [owed EXCEPT ![q] = 0]
  /\ MoveTo(q, "admitted")
  /\ Now(q)
  /\ UNCHANGED <<today, charges, basis, exhausted, began>>

PayMonthly(q) ==
  /\ step[q] = "payMonth"
  /\ \E day \in since[q]..today : Upsert(q, "MONTH", day, owed[q])
  /\ owed' = [owed EXCEPT ![q] = 0]
  /\ MoveTo(q, "admitted")
  /\ Now(q)
  /\ UNCHANGED <<today, charges, basis, exhausted, began>>

(* One of the two UPSERTs raises, or the request is cancelled inside it.   *)
(* It may have been committed all the same: the answer was what got lost.  *)
(* Nothing is retried and nothing undone.                                  *)
PayDailyFails(q, amount) ==
  /\ step[q] = "admitted"
  /\ charges[q] < Charges
  /\ charges' = [charges EXCEPT ![q] = @ + 1]
  /\ \/ \E day \in since[q]..today : Upsert(q, "DAY", day, amount)
     \/ UNCHANGED <<counter, paid, ledger>>
  /\ MoveTo(q, "failed")
  /\ UNCHANGED <<today, owed, basis, since, exhausted, began>>

PayMonthlyFails(q) ==
  /\ step[q] = "payMonth"
  /\ \/ \E day \in since[q]..today : Upsert(q, "MONTH", day, owed[q])
     \/ UNCHANGED <<counter, paid, ledger>>
  /\ owed' = [owed EXCEPT ![q] = 0]
  /\ MoveTo(q, "failed")
  /\ UNCHANGED <<today, charges, basis, since, exhausted, began>>

(* The request is over; its slot is free for the next one.                 *)
Leave(q) ==
  /\ step[q] \in {"admitted", "blocked", "failed"}
  /\ MoveTo(q, "idle")
  /\ UNCHANGED <<today, counter, owed, charges, basis, since, exhausted, paid, began, ledger>>

NewDay ==
  /\ today < LastDay
  /\ today' = today + 1
  /\ UNCHANGED <<counter, step, owed, charges, basis, since, exhausted, paid, began, ledger>>

Next ==
  \/ \E q \in Query :
       \/ Arrive(q)
       \/ CheckDaily(q)
       \/ CheckMonthly(q)
       \/ ReadFails(q)
       \/ \E amount \in Cost : PayDaily(q, amount) \/ PayDailyFails(q, amount)
       \/ PayMonthly(q)
       \/ PayMonthlyFails(q)
       \/ Leave(q)
  \/ NewDay

Spec == Init /\ [][Next]_vars
-----------------------------------------------------------------------------
Admitted(q) == step[q] \in {"admitted", "payMonth"}

(* A request that is admitted has been charged at most twice, owes nothing *)
(* outside record_global_spend, and was admitted on two counters, of its   *)
(* day and of a month.                                                     *)
TypeOK ==
  /\ today \in 0..LastDay
  /\ counter \in [CounterKey -> Nat]
  /\ step \in [Query -> {"idle", "readDay", "readMonth", "admitted", "blocked",
                         "payMonth", "failed"}]
  /\ owed \in [Query -> Nat]
  /\ charges \in [Query -> 0..Charges]
  /\ basis \in [Query -> SUBSET CounterKey]
  /\ since \in [Query -> 0..today]
  /\ exhausted \in [Query -> SUBSET CounterKey]
  /\ paid \in [Query -> [PeriodType -> Nat]]
  /\ began \in [PeriodType -> Nat]
  /\ ledger \in [Query -> [CounterKey -> Nat]]
  /\ \A q \in Query : step[q] # "payMonth" => owed[q] = 0

(* check_budget is a full block at 100%: a query that arrived when a       *)
(* period was used up is never admitted on that period, whatever the other *)
(* queries charge between its two reads.                                   *)
NoAdmissionAfterExhaustion ==
  \A q \in Query : Admitted(q) => basis[q] \cap exhausted[q] = {}

(* What the first day and month have spent already is within the bound     *)
(* that the process before this one kept.                                  *)
SpentWithinBounds ==
  \A s \in Spent : \A p \in CounterKey : \A c \in Cost :
    (LimitOf(p) > 0 /\ \A d \in Cost : d <= c) =>
      s < LimitOf(p) + Cardinality(Query) * Charges * c

(* The price of charging after the call: a counter passes its limit only   *)
(* by what the queries already let in can still cost.  No period ever      *)
(* collects more than that.                                                *)
OvershootBounded ==
  \A p \in CounterKey : \A c \in Cost :
    (LimitOf(p) > 0 /\ \A d \in Cost : d <= c) =>
      counter[p] < LimitOf(p) + Cardinality(Query) * Charges * c

(* Of each request the MONTH counters never hold more than the DAY         *)
(* counters, and what they hold less is the charge under way or one that   *)
(* failed half way.                                                        *)
MonthFollowsDay ==
  \A q \in Query :
    /\ paid[q]["MONTH"] <= paid[q]["DAY"]
    /\ Admitted(q) => paid[q]["DAY"] = paid[q]["MONTH"] + owed[q]

(* The units of cost the requests added to a counter, slot by slot.        *)
Units(p) == UNION {{q} \X (1..ledger[q][p]) : q \in Query}

(* "N peticiones concurrentes produzcan exactamente N incrementos": a      *)
(* counter holds what it began with and everything that was ever added to  *)
(* it, by whatever requests, interleaved as they may: no charge is lost to *)
(* a concurrent one.                                                       *)
CountersAddUp ==
  \A p \in CounterKey : counter[p] = Began(p) + Cardinality(Units(p))
=============================================================================
