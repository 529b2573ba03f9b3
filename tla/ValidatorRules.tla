--------------------------- MODULE ValidatorRules ---------------------------
(***************************************************************************)
(* nlq/validator.py, nlq/ranking.py, nlq/country_scope.py and              *)
(* nlq/period_scope.py: what a question asks, which SQL is let through for *)
(* it, and the period the SQL is about.                                    *)
(*                                                                         *)
(* A statement is a tree already (sqlglot parses); of the tree is kept     *)
(* what a rule looks at: an outer SELECT that may read an inner one (a     *)
(* derived table or a CTE, with its name).  A SELECT has the views it      *)
(* reads, none of them twice, the columns it shows and a WHERE, a set of   *)
(* conjuncts, each a set of alternatives.  A question is what the patterns *)
(* find in it.  Dates are numbers.                                         *)
(***************************************************************************)
EXTENDS Integers, Sequences, FiniteSets, FiniteSetsExt

CONSTANTS
  Country,     \* codes
  MaxRows,     \* max_rows
  NoLimit, NoPeriod

(* ------------------------------- SQL ----------------------------------- *)

AllowedRelations ==
  {"v_process", "v_buyers", "v_suppliers", "v_supplier_award_totals", "v_process_buyers",
   "v_items", "v_awards", "v_awards_all", "v_award_items", "v_award_suppliers"}

CountryScopedViews == {"v_process", "v_buyers", "v_suppliers", "v_supplier_award_totals"}

DateViews(column) == IF column = "award_date" THEN {"v_awards", "v_awards_all"} ELSE {"v_process"}

DateColumn == {"award_date", "publication_date"}

Money == {"awarded_amount", "estimated_amount", "total_awarded_amount"}

Select(views, shows, where) == [views |-> views, shows |-> shows, where |-> where]

Nothing == Select({}, {}, {})

Selects(s) == {s.inner, s.outer}

Views(s) == s.inner.views \cup s.outer.views

(* _collect_relations: a view with the name of the CTE is taken for it,    *)
(* even when the statement says its schema.                                *)
Relations(s) == Views(s) \ {s.cte}

Atoms(s) == UNION (s.inner.where \cup s.outer.where)

(* A shown column: what it is called, of which column it is made, and      *)
(* which operations and functions stand around it.                         *)
Column(ops, of, as) == [ops |-> ops, of |-> of, as |-> as]

(* What _MONEY_AGGREGATES and _MONEY_ARITHMETIC name, and what returns a   *)
(* value that is there; round, stddev, % or a minus sign are neither.      *)
Computing == {"sum", "avg", "add", "sub", "mul", "div"}
Picking == {"min", "max"}

(* An alternative of a WHERE: on the country of one view, on a date or on  *)
(* anything else; on the views of its own SELECT or, from the inner one,   *)
(* on its rows.  A country is compared with literals, with a subquery, or  *)
(* otherwise (with a column, or under a NOT).                              *)
CountryIs(values, of) ==
  [on |-> "country", from |-> "views", of |-> of, values |-> values, form |-> "literals"]

DateWithin(column, from, lo, hi) ==
  [on |-> "date", from |-> from, column |-> column, lo |-> lo, hi |-> hi]

Anything == [on |-> "other"]

(* ------------------------------ Countries ------------------------------ *)

(* resolve_country_scope; previous is {} when there is none.               *)
ResolveCountryScope(question, available, previous) ==
  IF question.allCountries THEN available
  ELSE IF question.named # {}
       THEN IF question.named \subseteq available THEN question.named ELSE available
  ELSE IF previous # {} /\ previous \subseteq available THEN previous
  ELSE available

CountryAtoms(s) == {a \in Atoms(s) : a.on = "country"}

(* A slip: the countries of the filter are not looked at.                  *)
CountryScopeFound(s, countries) ==
  IF CountryAtoms(s) = {} THEN "REJECTED_SQL_COUNTRY_SCOPE" ELSE "valid"

(* _check_country_scope: some predicate on the country_code of some view,  *)
(* wherever it is, and no literal in any of them that was not asked.       *)
CountryScope(s, countries) ==
  IF \/ CountryAtoms(s) = {}
     \/ \E a \in CountryAtoms(s) : a.form = "subquery" \/ ~(a.values \subseteq countries)
  THEN "REJECTED_SQL_COUNTRY_SCOPE"
  ELSE "valid"

(* -------------------------------- Rules -------------------------------- *)

(* parse, one statement, a SELECT, no WITH RECURSIVE.                      *)
Form(s) ==
  CASE s.form = "unparsable" -> "REJECTED_SQL_PARSE"
    [] s.form \in {"several", "not_select", "recursive"} -> "REJECTED_SQL_NOT_SELECT"
    [] OTHER -> "valid"

RelationsAllowed(s) ==
  IF Relations(s) \subseteq AllowedRelations THEN "valid" ELSE "REJECTED_SQL_RELATION"

ForbiddenFunctions(s) == IF s.forbidden THEN "REJECTED_SQL_FUNCTION" ELSE "valid"

(* A slip: only the outer SELECT is looked at.                             *)
NoComputedMoneyOutside(s) ==
  IF \E c \in s.outer.shows : c.ops \cap Computing # {} /\ c.of \in Money
  THEN "REJECTED_SQL_FUNCTION" ELSE "valid"

(* _check_no_money_aggregation and _check_no_money_arithmetic: by the name *)
(* of the column within SUM, AVG, +, -, * or /.                            *)
NoComputedMoney(s) ==
  IF \E q \in Selects(s) : \E c \in q.shows : c.ops \cap Computing # {} /\ c.of \in Money
  THEN "REJECTED_SQL_FUNCTION" ELSE "valid"

ItemAwardFanout(s) ==
  IF /\ Relations(s) \cap {"v_awards", "v_awards_all"} # {}
     /\ "v_items" \in Relations(s) /\ "v_award_items" \notin Relations(s)
  THEN "REJECTED_SQL_FUNCTION" ELSE "valid"

IndexedProcessSearch(s) ==
  IF "v_process" \in Relations(s) /\ s.search = "wrapped" THEN "REJECTED_SQL_COST" ELSE "valid"

Totals(s) == "v_supplier_award_totals" \in Relations(s)

(* DISTINCT ON (currency_code); an obligatory equality with a currency.    *)
SingleCurrency(s) == s.currencies # {}
PerCurrency(s) == s.each /\ ~SingleCurrency(s)

(* The accumulated amount of a supplier comes from its snapshot, read      *)
(* alone, for a question it can answer, one currency at a time: one only   *)
(* if the question names some currency, be it another.                     *)
SupplierTotals(s, question) ==
  CASE s.joined \/ s.inner # Nothing \/ Cardinality(s.outer.views) # 1 -> "REJECTED_SQL_FUNCTION"
    [] question.saysPeriod \/ question.saysExcludedStatus -> "REJECTED_SQL_COST"
    [] ~s.named -> "REJECTED_SQL_FUNCTION"
    [] ~SingleCurrency(s) /\ ~PerCurrency(s) -> "REJECTED_SQL_FUNCTION"
    [] SingleCurrency(s) /\ question.currencies = {} -> "REJECTED_SQL_FUNCTION"
    [] PerCurrency(s) /\ ~s.ordered -> "REJECTED_SQL_COST"
    [] OTHER -> "valid"

WinnerLimit(s, question) ==
  IF question.singleWinner /\ ~(Totals(s) /\ PerCurrency(s)) /\ s.limit # 1
  THEN "REJECTED_SQL_COST" ELSE "valid"

RankingIntent(s, question) ==
  CASE question.supplierTotal /\ ~Totals(s) -> "REJECTED_SQL_COST"
    [] Totals(s) /\ SupplierTotals(s, question) # "valid" -> SupplierTotals(s, question)
    [] OTHER -> WinnerLimit(s, question)

Checks(s, question, countries) ==
  <<Form(s), RelationsAllowed(s), ForbiddenFunctions(s), NoComputedMoney(s), ItemAwardFanout(s),
    IndexedProcessSearch(s), RankingIntent(s, question),
    IF Relations(s) \cap CountryScopedViews # {} THEN CountryScope(s, countries) ELSE "valid">>

(* The first rule that is broken decides.                                  *)
Validate(s, question, countries) ==
  LET checks == Checks(s, question, countries)
      broken == {i \in DOMAIN checks : checks[i] # "valid"}
  IN  IF broken = {} THEN "valid" ELSE checks[Min(broken)]

(* A slip: the LIMIT of a list of winners stays.                           *)
EffectiveLimitKept(s) == IF s.limit = NoLimit THEN MaxRows ELSE Min({s.limit, MaxRows})

(* _enforce_limit, after the LIMIT of a list of winners was dropped (an    *)
(* OFFSET stays).                                                          *)
EffectiveLimit(s) ==
  IF s.limit = NoLimit \/ (Totals(s) /\ PerCurrency(s)) THEN MaxRows ELSE Min({s.limit, MaxRows})

(* ------------------------------- Periods ------------------------------- *)

(* _periods: the bounds that the conjuncts without alternatives put on a   *)
(* date column of the views or of the inner SELECT; both are needed.       *)
PeriodOf(q, column, from) ==
  LET bounds == {a \in UNION {c \in q.where : Cardinality(c) = 1} :
                   a.on = "date" /\ a.column = column /\ a.from = from}
      lows == {a.lo : a \in bounds} \ {NoLimit}
      highs == {a.hi : a \in bounds} \ {NoLimit}
  IN  IF lows # {} /\ highs # {} /\ Max(lows) < Min(highs)
      THEN [column |-> column, start |-> Max(lows), end |-> Min(highs)]
      ELSE NoPeriod

PeriodsOf(s) ==
  {PeriodOf(q, column, from) : q \in Selects(s), column \in DateColumn, from \in {"views", "inner"}}
    \ {NoPeriod}

(* extract_period: the one period of the statement.                        *)
ExtractPeriod(s) ==
  IF Cardinality(PeriodsOf(s)) = 1 THEN CHOOSE p \in PeriodsOf(s) : TRUE ELSE NoPeriod

ReadsDates(q, expected) == q.views \cap DateViews(expected.column) # {}

(* preserves_period: every dated view that is read is restricted to that   *)
(* period, by its own SELECT or by the one around it, and there is one.    *)
PreservesPeriod(s, expected) ==
  LET Restricts(q, from) == PeriodOf(q, expected.column, from) = expected
  IN  /\ ReadsDates(s.outer, expected) => Restricts(s.outer, "views")
      /\ ReadsDates(s.inner, expected) =>
           Restricts(s.inner, "views") \/ Restricts(s.outer, "inner")
      /\ ReadsDates(s.outer, expected) \/ ReadsDates(s.inner, expected)
-----------------------------------------------------------------------------
(* ---------------------------- What SQL means --------------------------- *)

(* An alternative bears on a view of the SELECT that it is in, or of the   *)
(* inner one: on the dates of each, on the country of one.                 *)
Bears(a, from, view) ==
  a.on # "other" /\ a.from = from /\ (a.on = "country" => a.of = view)

Holds(a, row) ==
  CASE a.on = "country" -> row.country \in a.values \/ a.form # "literals"
    [] a.on = "date" ->
         row.column = a.column =>
           (a.lo = NoLimit \/ row.date >= a.lo) /\ (a.hi = NoLimit \/ row.date < a.hi)
    [] OTHER -> TRUE

Keeps(q, from, view, row) ==
  \A c \in q.where : \E a \in c : Bears(a, from, view) => Holds(a, row)

(* A row of one of the views is read.                                      *)
Reads(s, view, row) ==
  \/ view \in s.outer.views /\ Keeps(s.outer, "views", view, row)
  \/ /\ view \in s.inner.views
     /\ Keeps(s.inner, "views", view, row) /\ Keeps(s.outer, "inner", view, row)

(* The columns of the inner SELECT that hold money, under their new names. *)
MoneyWithin(s) == {c.as : c \in {d \in s.inner.shows : d.of \in Money}}

(* Every amount that is shown is one that is stored.                       *)
ShowsStoredMoney(s) ==
  /\ \A c \in s.inner.shows : c.of \in Money => c.ops \subseteq Picking
  /\ \A c \in s.outer.shows : c.of \in Money \cup MoneyWithin(s) => c.ops \subseteq Picking
=============================================================================
