--------------------------- MODULE ResultWarnings ---------------------------
(***************************************************************************)
(* What a table is served with.  The validator puts a LIMIT on the query   *)
(* (nlq/validator.py:_enforce_limit), the executor calls a result that     *)
(* fills max_rows truncated, and run_query decides, from the rows alone,   *)
(* which warnings tell the user what the table does not show: rows beyond  *)
(* a limit, countries without a row, amounts that cannot be compared.      *)
(*                                                                         *)
(* Of the rows only how many there are and which countries and currencies  *)
(* occur in them is kept.                                                  *)
(***************************************************************************)
EXTENDS CoverageReasons, Integers, FiniteSets

CONSTANTS
  Currency,
  MaxRows,     \* max_rows
  MaxHidden    \* bound: how many rows more than its LIMIT a query matches

ASSUME ResultWarningsAssumption ==
  /\ MaxRows \in Nat \ {0} /\ MaxHidden \in Nat
  /\ Null \notin Nat
  /\ IsFiniteSet(Country)

VARIABLES
  pc,
  ask,         \* the countries in scope and the size the question asks for
  sql,         \* the SELECT the model wrote
  effective,   \* effective_limit
  result,      \* rows_result
  hidden,      \* history: how many rows that match are not in the result
  warnings

vars == <<pc, ask, sql, effective, result, hidden, warnings>>

(* A COUNT has one row with one number, under a name the code knows or     *)
(* another; a list shows some of the columns the warnings look at.  The    *)
(* LIMIT, if there is one, is at least 1.                                  *)
Select ==
  [form : {"list"}, columns : SUBSET {"money", "country_code", "currency_code"},
   relations : SUBSET {"v_awards", "v_items"}, limit : 1..MaxRows + 1 \cup {Null}]
  \cup
  [form : {"total", "otherCount"}, columns : {{}},
   relations : SUBSET {"v_awards", "v_items"}, limit : {1, Null}]

Row == [country : Country, currency : Currency]

NoResult == [count |-> 0, kinds |-> {}, truncated |-> FALSE, zero |-> FALSE]

Init ==
  /\ pc = "asked"
  /\ ask \in [countries : (SUBSET Country) \ {{}}, requested : 1..MaxRows + 1 \cup {Null}]
  /\ sql \in Select
  /\ effective = 0 /\ result = NoResult /\ hidden = 0
  /\ warnings = {}

(* "Nunca se confia en que el modelo lo puso."                             *)
EnforceLimit(limit) == IF limit = Null \/ limit > MaxRows THEN MaxRows ELSE limit

Validate ==
  /\ pc = "asked"
  /\ pc' = "validated"
  /\ effective' = EnforceLimit(sql.limit)
  /\ UNCHANGED <<ask, sql, result, hidden, warnings>>

(* The rows of countries in scope that fit in the limit come back.         *)
RunList ==
  /\ pc = "validated" /\ sql.form = "list"
  /\ \E n \in 0..effective, more \in 0..MaxHidden :
       /\ more > 0 => n = effective
       /\ hidden' = more
       /\ \E kinds \in SUBSET [country : ask.countries, currency : Currency] :
            /\ Cardinality(kinds) <= n /\ (kinds = {}) = (n = 0)
            /\ result' = [count |-> n, kinds |-> kinds, truncated |-> n >= MaxRows,
                          zero |-> FALSE]
  /\ pc' = "executed"
  /\ UNCHANGED <<ask, sql, effective, warnings>>

RunCount ==
  /\ pc = "validated" /\ sql.form # "list"
  /\ \E zero \in BOOLEAN :
       result' = [count |-> 1, kinds |-> {}, truncated |-> 1 >= MaxRows, zero |-> zero]
  /\ pc' = "executed"
  /\ UNCHANGED <<ask, sql, effective, hidden, warnings>>

Warning(code) == [code |-> code, absent |-> {}, limited |-> FALSE]

(* What the rows say, if the column is there to say it.                    *)
Present ==
  IF "country_code" \in sql.columns THEN {r.country : r \in result.kinds} ELSE {}

Currencies ==
  IF "currency_code" \in sql.columns THEN {r.currency : r \in result.kinds} ELSE {}

Absent == IF Present = {} THEN {} ELSE ask.countries \ Present

IsZeroAggregate == sql.form = "total" /\ result.zero

(* A slip: the limit counts as reached once it is passed.                  *)
LimitPassed == result.count > effective

LimitReached == result.count >= effective

(* A limit that the question did not ask for.                              *)
ImplicitLimitReached ==
  LimitReached /\ effective > 1 /\ ask.requested # effective

(* A slip: only the cap counts, and not a limit below it.                  *)
LimitedByTheCap == result.truncated

Limited == result.truncated \/ LimitReached

(* A slip: the countries that are absent are not looked at.                *)
MixedCurrencyOnly ==
  IF "money" \in sql.columns /\ Cardinality(Currencies) >= 2
  THEN {Warning("MIXED_CURRENCY")}
  ELSE {}

(* mixed_currency_warning: several currencies, which are listed; or else   *)
(* several countries asked about and one of them absent.                   *)
MixedCurrency ==
  IF "money" \notin sql.columns THEN {}
  ELSE IF Cardinality(Currencies) >= 2 THEN {Warning("MIXED_CURRENCY")}
  ELSE IF Cardinality(ask.countries) >= 2 /\ Absent # {}
  THEN {[Warning("MIXED_CURRENCY") EXCEPT !.absent = Absent]}
  ELSE {}

MissingCountry ==
  IF "money" \notin sql.columns /\ Cardinality(ask.countries) >= 2 /\ Absent # {}
  THEN {[code |-> "MISSING_COUNTRY_IN_RESULT", absent |-> Absent, limited |-> Limited]}
  ELSE {}

Said(code, condition) == IF condition THEN {Warning(code)} ELSE {}

RowWarnings ==
  IF result.count = 0 THEN {}
  ELSE MixedCurrency \cup MissingCountry
         \cup Said("UNNORMALISED_ITEM_TEXT", "v_items" \in sql.relations)
         \cup Said("LIMIT_MAY_HIDE_ROWS", ~result.truncated /\ ImplicitLimitReached)
         \cup Said("TRUNCATED_RESULT", result.truncated)

(* What ZeroDiagnosis answers, and the reminder for awards when it has     *)
(* nothing to say.                                                         *)
ZeroWarnings(reason) ==
  IF reason # "none" THEN {Warning(reason)}
  ELSE Said("NO_VALID_AWARDS", "v_awards" \in sql.relations)

WarnOfZero ==
  /\ pc = "executed"
  /\ result.count = 0 \/ IsZeroAggregate
  /\ \E reason \in Reason : warnings' = ZeroWarnings(reason) \cup RowWarnings
  /\ pc' = "warned"
  /\ UNCHANGED <<ask, sql, effective, result, hidden>>

WarnOfRows ==
  /\ pc = "executed"
  /\ result.count # 0 /\ ~IsZeroAggregate
  /\ warnings' = RowWarnings
  /\ pc' = "warned"
  /\ UNCHANGED <<ask, sql, effective, result, hidden>>

Next == Validate \/ RunList \/ RunCount \/ WarnOfZero \/ WarnOfRows

Spec == Init /\ [][Next]_vars
-----------------------------------------------------------------------------
Warned == pc = "warned"

Codes == {w.code : w \in warnings}

TypeOK ==
  /\ pc \in {"asked", "validated", "executed", "warned"}
  /\ ask \in [countries : (SUBSET Country) \ {{}}, requested : 1..MaxRows + 1 \cup {Null}]
  /\ sql \in Select
  /\ effective \in 0..MaxRows
  /\ pc # "asked" => effective # 0
  /\ result \in [count : 0..MaxRows, kinds : SUBSET Row, truncated : BOOLEAN, zero : BOOLEAN]
  /\ hidden \in 0..MaxHidden
  /\ warnings \subseteq
       [code : {"MIXED_CURRENCY", "MISSING_COUNTRY_IN_RESULT", "UNNORMALISED_ITEM_TEXT",
                "LIMIT_MAY_HIDE_ROWS", "TRUNCATED_RESULT", "NO_VALID_AWARDS"}
                \cup Reason,
        absent : SUBSET Country, limited : BOOLEAN]

(* A table that leaves rows out says so, whoever set the limit; only one   *)
(* with as many rows as the question asked for, or with one row by a LIMIT *)
(* of one, goes without a word.                                            *)
HiddenRowsAreSaid ==
  Warned /\ hidden > 0 =>
    \/ Codes \cap {"LIMIT_MAY_HIDE_ROWS", "TRUNCATED_RESULT"} # {}
    \/ result.count = ask.requested
    \/ result.count = 1

(* A table that names its countries and lacks one that was asked about     *)
(* never goes out bare, with amounts or without.                           *)
PartialTableIsSaid ==
  Warned /\ Present # {} /\ ask.countries \ Present # {} =>
    Codes \cap {"MIXED_CURRENCY", "MISSING_COUNTRY_IN_RESULT"} # {}

(* "No aparecen resultados ... con estos filtros" is said only of countries*)
(* that the filters do exclude: no row was left out by a limit.            *)
AbsenceIsNotOverstated ==
  \A w \in warnings :
    w.code = "MISSING_COUNTRY_IN_RESULT" /\ ~w.limited => hidden = 0
=============================================================================
