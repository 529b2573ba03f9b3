--------------------------- MODULE ZeroDiagnosis ---------------------------
(***************************************************************************)
(* nlq/coverage_facts.py:diagnose_empty_result.  A query came back empty;  *)
(* before the zero is served the service asks the database whether what    *)
(* was asked for is loaded at all: entity by entity, then the period, then *)
(* the free text terms.  Each question is a read of its own, and the       *)
(* loader, which is not part of this repository, goes on adding rows       *)
(* between them.                                                           *)
(*                                                                         *)
(* A Date is a day, or a year where the filter is written in years; of a   *)
(* row only its entity, its country, its date and what its text columns    *)
(* say are kept.  The formulas of the specification bear the name of the   *)
(* component, so that it may stand beside ResultWarnings.                  *)
(***************************************************************************)
EXTENDS CoverageReasons, Integers, Sequences, FiniteSets, FiniteSetsExt

CONSTANTS
  Date,          \* the periods rows are dated in, integers
  Column,        \* _TEXT_SEARCH_COLUMNS
  Term,          \* what an ILIKE may look for
  Asked,         \* the queries that come back empty
  MaxLoads       \* bound: commits of the loader during one diagnosis

EntityOrder ==
  <<"procesos", "adjudicaciones", "proveedores", "compradores", "productos">>

Entity == {EntityOrder[i] : i \in DOMAIN EntityOrder}

(* Those counted with their extreme dates; the others report null dates.   *)
Dated == {"procesos", "adjudicaciones"}

(* What the WHERE says of dates: a lower and an upper bound, either of     *)
(* which may be left open, the upper one included or not (open).  They are *)
(* date literals, or numbers of years; numbers has every number between    *)
(* 1990 and 2100 in the order the parse finds them, those that are         *)
(* compared with something else among them.                                *)
Filter ==
  LET Bound == Date \cup {Null} IN
  {f \in [low : Bound, high : Bound, open : BOOLEAN, asDates : BOOLEAN, numbers : Seq(Date)] :
    /\ f.low # Null /\ f.high # Null =>
         f.low <= f.high /\ (f.open => f.low # f.high)
    /\ f.open => f.high # Null
    /\ ~f.asDates =>
         {f.low, f.high} \ {Null} \subseteq {f.numbers[i] : i \in DOMAIN f.numbers}}

(* predicates: the column and the term of each ILIKE.                      *)
Query ==
  [countries : (SUBSET Country) \ {{}}, entities : SUBSET Entity, filter : Filter,
   predicates : SUBSET (Column \X Term)]

ASSUME ZeroDiagnosisAssumption ==
  /\ Date \subseteq Int /\ IsFiniteSet(Date) /\ Null \notin Date
  /\ Asked \subseteq Query
  /\ MaxLoads \in Nat

(* What a country may hold of e: rows with dates, or only rows without.    *)
Held(e) == (IF e \in Dated THEN SUBSET Date ELSE {{}}) \cup {{Null}}

VARIABLES
  loaded,    \* the dates of the rows held, by entity asked about and country
  named,     \* the countries with a process whose column has the term, by predicate
  loads,
  query,     \* the query that came back empty
  stage,
  todo,      \* entities still to be read
  missing,   \* sin_datos: entity and country pairs that hold no row
  range,     \* country_dates: the extreme dates read, by country
  predicates,  \* those still to be read
  absent,    \* sin_match: by term, the countries of its last predicate without a match
  answer,
  atQuery    \* history: what was held when the query itself ran

base == <<loaded, named, loads>>
diagnosisVars ==
  <<base, query, stage, todo, missing, range, predicates, absent, answer, atQuery>>

NoAnswer == [reason |-> "none", coverage |-> FALSE]

DiagnosisInit ==
  /\ query \in Asked
  /\ loaded \in [query.entities -> [Country -> SUBSET (Date \cup {Null})]]
  /\ \A e \in query.entities, c \in Country : loaded[e][c] \in Held(e)
  /\ named \in [query.predicates -> SUBSET Country]
  /\ loads = 0
  /\ stage = "asked"
  /\ todo = {} /\ missing = {} /\ predicates = {}
  /\ absent = [t \in Term |-> {}]
  /\ range = [c \in Country |-> {}]
  /\ answer = NoAnswer
  /\ atQuery = [loaded |-> loaded, named |-> named]

(* The loader commits rows, while the answer is being worked out.          *)
Load ==
  /\ loads < MaxLoads
  /\ stage \in {"entities", "terms"}
  /\ loads' = loads + 1
  /\ \/ /\ \E e \in query.entities, c \in Country :
             \E rows \in Held(e) : loaded' = [loaded EXCEPT ![e][c] = @ \cup rows]
        /\ UNCHANGED named
     \/ /\ \E p \in query.predicates, c \in Country :
             named' = [named EXCEPT ![p] = @ \cup {c}]
        /\ UNCHANGED loaded
  /\ UNCHANGED <<query, stage, todo, missing, range, predicates, absent, answer, atQuery>>

Answer(reason, coverage) ==
  /\ stage' = "answered"
  /\ answer' = [reason |-> reason, coverage |-> coverage]

(* The query ran and found nothing; with no entity to query about there is   *)
(* nothing to explain.                                                     *)
FindNothing ==
  /\ stage = "asked"
  /\ atQuery' = [loaded |-> loaded, named |-> named]
  /\ IF query.entities = {}
     THEN Answer("none", FALSE) /\ UNCHANGED todo
     ELSE /\ stage' = "entities"
          /\ todo' = query.entities
          /\ UNCHANGED answer
  /\ UNCHANGED <<base, query, missing, range, predicates, absent>>

(* extract_queried_date_range: every date literal, an excluded bound like  *)
(* an included one; or else the first number that could be a year,         *)
(* whatever it is compared with.                                           *)
Literals ==
  LET f == query.filter
      dates == IF f.asDates THEN {f.low, f.high} \ {Null} ELSE {}
  IN  IF dates # {} THEN dates
      ELSE IF f.numbers # <<>> THEN {f.numbers[1]} ELSE {}

OutOfRange(r) ==
  {c \in query.countries :
    /\ r[c] # {} /\ Literals # {}
    /\ Max(Literals) < Min(r[c]) \/ Min(Literals) > Max(r[c])}

(* A slip: rows without a date are not counted.                            *)
LacksDates(e) == {c \in query.countries : loaded[e][c] \ {Null} = {}}

(* faltantes: the countries asked about that hold no row of e.             *)
Lacks(e) == {c \in query.countries : loaded[e][c] = {}}

(* The extreme dates of e are merged into those read before.               *)
Widen(e) ==
  [c \in Country |->
    LET seen == range[c] \cup (loaded[e][c] \ {Null}) IN
    IF c \in query.countries /\ seen # {} THEN {Min(seen), Max(seen)} ELSE {}]

(* What follows from the counts, once all of them are in.                  *)
Verdict(lacking, dates) ==
  IF lacking # {} THEN Answer("PARTIAL_COVERAGE", TRUE) /\ UNCHANGED predicates
  ELSE IF OutOfRange(dates) # {} THEN Answer("NO_DATA_FOR_PERIOD", TRUE) /\ UNCHANGED predicates
  ELSE IF query.predicates # {} /\ "procesos" \in query.entities
       THEN stage' = "terms" /\ predicates' = query.predicates /\ UNCHANGED answer
       ELSE Answer("none", TRUE) /\ UNCHANGED predicates

(* Entities are read in the order of _ENTITY_SQL.                          *)
NextEntity ==
  EntityOrder[Min({i \in DOMAIN EntityOrder : EntityOrder[i] \in todo})]

ReadEntity ==
  /\ stage = "entities"
  /\ todo' = todo \ {NextEntity}
  /\ missing' = missing \cup {NextEntity} \X Lacks(NextEntity)
  /\ range' = Widen(NextEntity)
  /\ IF todo' = {}
     THEN Verdict(missing', range')
     ELSE UNCHANGED <<stage, predicates, answer>>
  /\ UNCHANGED <<base, query, absent, atQuery>>

(* A slip: the entity is left out, as a term would be.                     *)
EntityFailsSkipped ==
  /\ stage = "entities"
  /\ todo' = todo \ {NextEntity}
  /\ IF todo' = {} THEN Verdict(missing, range) ELSE UNCHANGED <<stage, predicates, answer>>
  /\ UNCHANGED <<base, query, missing, range, absent, atQuery>>

(* A read fails: the zero goes without explanation, and what was found so  *)
(* far goes with it.                                                       *)
EntityFails ==
  /\ stage = "entities"
  /\ Answer("none", FALSE)
  /\ UNCHANGED <<base, query, todo, missing, range, predicates, absent, atQuery>>

NextPredicate(p) ==
  /\ predicates' = predicates \ {p}
  /\ IF predicates' # {}
     THEN UNCHANGED <<stage, answer>>
     ELSE Answer(IF \E t \in Term : absent'[t] # {} THEN "NO_MATCH_FOR_TERM" ELSE "none",
                 TRUE)
  /\ UNCHANGED <<base, query, todo, missing, range, atQuery>>

(* faltan: each predicate is looked at by itself, whatever the WHERE joins *)
(* it with, and what is said of a term is said last of its last column.    *)
ReadTerm(p) ==
  /\ stage = "terms" /\ p \in predicates
  /\ LET lacking == query.countries \ named[p] IN
       absent' = IF lacking = {} THEN absent ELSE [absent EXCEPT ![p[2]] = lacking]
  /\ NextPredicate(p)

(* Nothing is said of a predicate that could not be read.                  *)
TermFails(p) ==
  /\ stage = "terms" /\ p \in predicates
  /\ UNCHANGED absent
  /\ NextPredicate(p)

Diagnose ==
  \/ FindNothing
  \/ ReadEntity
  \/ EntityFails
  \/ \E p \in Column \X Term : ReadTerm(p) \/ TermFails(p)

DiagnosisNext == Load \/ Diagnose

DiagnosisSpec == DiagnosisInit /\ [][DiagnosisNext]_diagnosisVars
-----------------------------------------------------------------------------
Answered(reason) == stage = "answered" /\ answer.reason = reason

(* The dates the query asked for.                                          *)
AskedDates ==
  LET f == query.filter IN
  {d \in Date : /\ f.low = Null \/ f.low <= d
                /\ f.high = Null \/ d < f.high \/ (d = f.high /\ ~f.open)}

(* Both bounds are stated, in dates or as one year.                        *)
StatesItsPeriod ==
  LET f == query.filter IN
  /\ Null \notin {f.low, f.high}
  /\ f.asDates \/ \A i \in DOMAIN f.numbers : f.numbers[i] = f.numbers[1]

(* The dated rows the query could have used, when it ran.                  *)
HeldAtQuery(c) == UNION {atQuery.loaded[e][c] \ {Null} : e \in query.entities}

(* "PARTIAL_COVERAGE" and "NO_MATCH_FOR_TERM" blame the data for a zero:   *)
(* what they name was missing already when the query ran, although the     *)
(* counts are read after it and the loader never stops: the entity, and    *)
(* the term in one of the columns it was looked for in (the others may     *)
(* have it, even where the WHERE asks for either).  So was the period,     *)
(* when the query states it in dates or as one year.                       *)
ReasonsWereTrue ==
  /\ Answered("PARTIAL_COVERAGE") =>
       /\ missing # {}
       /\ \A m \in missing : atQuery.loaded[m[1]][m[2]] = {}
  /\ Answered("NO_MATCH_FOR_TERM") =>
       /\ \E t \in Term : absent[t] # {}
       /\ \A t \in Term : absent[t] # {} =>
            \E p \in query.predicates :
              p[2] = t /\ \A c \in absent[t] : c \notin atQuery.named[p]
  /\ Answered("NO_DATA_FOR_PERIOD") /\ StatesItsPeriod =>
       \E c \in query.countries : HeldAtQuery(c) \cap AskedDates = {}

(* A zero that goes out with its coverage note and no warning is one whose *)
(* data is there: every entity the query touched holds rows of every       *)
(* country, and no country that had dates when the query ran has all of    *)
(* them before the period or after the day that ends it.  That day counts  *)
(* even where the filter leaves it out, so of a half-open period only the  *)
(* days around it are known to be held.                                    *)
SilenceMeansLoaded ==
  Answered("none") /\ answer.coverage =>
    \A c \in query.countries :
      LET dates == UNION {loaded[e][c] \ {Null} : e \in query.entities} IN
      /\ \A e \in query.entities : loaded[e][c] # {}
      /\ StatesItsPeriod /\ HeldAtQuery(c) # {} =>
           /\ \E d \in dates : d <= query.filter.high
           /\ \E d \in dates : query.filter.low <= d

(* What _entities_for says of a query that joins processes and awards, "si *)
(* toco varias, se revisan todas: puede fallar por cualquiera de las dos", *)
(* and the last comment of the function, "el periodo esta dentro de rango: *)
(* el cero es real": with no load in between, a silent zero is about a     *)
(* period, both its days included, that none of the entities lies wholly   *)
(* before or after.                                                        *)
SilentZeroIsReal ==
  Answered("none") /\ answer.coverage /\ loads = 0
    /\ StatesItsPeriod /\ ~query.filter.open =>
      \A e \in query.entities, c \in query.countries :
        LET dates == loaded[e][c] \ {Null} IN
        dates # {} =>
          /\ \E d \in dates : d <= query.filter.high
          /\ \E d \in dates : query.filter.low <= d
=============================================================================
