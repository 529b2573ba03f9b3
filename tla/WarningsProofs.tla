--------------------------- MODULE WarningsProofs --------------------------
(***************************************************************************)
(* What a table says of the rows it leaves out (ResultWarnings), for any   *)
(* cap, any limit and any countries and currencies; and what an empty one  *)
(* says of the data it did not find (ZeroDiagnosis), for any queries,      *)
(* dates and number of loads.                                              *)
(*                                                                         *)
(* The invariants speak of the end.  Those of a table rest on two facts    *)
(* that hold from the moment the query ran: rows are left out only by a    *)
(* result that fills its limit (HiddenFillsLimit), and what the rows show  *)
(* is of the countries asked about (RowsAreInScope).  Those of an empty    *)
(* result rest on what each count, once read, says of two moments: of now, *)
(* where what was found still is, for rows only come (ReadIsHeld,          *)
(* RangeIsHeld), and of the query, where what was not found was not either *)
(* (MissingWasMissing, RangeCovers).                                       *)
(***************************************************************************)
EXTENDS ResultWarnings, ZeroDiagnosis, FiniteSetTheorems, WellFoundedInduction, TLAPS

Ran == pc \in {"executed", "warned"}

HiddenFillsLimit ==
  /\ hidden \in Nat
  /\ hidden > 0 => Ran /\ result.count = effective /\ sql.form = "list"

LimitIsSet ==
  /\ pc \in {"asked", "validated", "executed", "warned"}
  /\ pc # "asked" => effective \in 1..MaxRows
  /\ sql.form = "total" => sql.limit \in {1, Null}
  /\ sql.limit \in 1..MaxRows + 1 \cup {Null}

(* Nothing is said before the end.                                         *)
SilentUntilWarned == pc # "warned" => warnings = {}

RowsAreInScope ==
  /\ ask.countries \subseteq Country
  /\ Ran => /\ result.kinds \subseteq [country : ask.countries, currency : Currency]
            /\ result.kinds # {} => result.count # 0

IInv ==
  /\ LimitIsSet
  /\ RowsAreInScope
  /\ Ran => result.count \in Nat
  /\ HiddenFillsLimit
  /\ SilentUntilWarned
  /\ HiddenRowsAreSaid
  /\ AbsenceIsNotOverstated
  /\ PartialTableIsSaid

LEMMA LimitInRange ==
  ASSUME NEW limit \in 1..MaxRows + 1 \cup {Null}
  PROVE  EnforceLimit(limit) \in 1..MaxRows
BY ResultWarningsAssumption DEF EnforceLimit

LEMMA InitIInv == Init => IInv
<1>. SUFFICES ASSUME Init PROVE IInv
  OBVIOUS
<1>1. LimitIsSet
  <2>1. sql.limit \in 1..MaxRows + 1 \cup {Null} /\ (sql.form = "total" => sql.limit \in {1, Null})
    <3>1. sql \in Select
      BY DEF Init
    <3>2. CASE sql.form = "list"
      BY <3>1, <3>2, ResultWarningsAssumption DEF Select
    <3>3. CASE sql.form # "list"
      BY <3>1, <3>3, ResultWarningsAssumption DEF Select
    <3>4. QED
      BY <3>2, <3>3
  <2>2. QED
    BY <2>1 DEF Init, LimitIsSet
<1>2. QED
  BY <1>1 DEF Init, IInv, Ran, HiddenFillsLimit, SilentUntilWarned, HiddenRowsAreSaid,
              AbsenceIsNotOverstated, PartialTableIsSaid, RowsAreInScope, Warned

(* A table that leaves rows out gets a word about it from the code of      *)
(* run_query that looks at the rows.                                       *)
LEMMA RowWarningsTell ==
  ASSUME IInv, pc = "executed", hidden > 0
  PROVE  \/ {w.code : w \in RowWarnings} \cap {"LIMIT_MAY_HIDE_ROWS", "TRUNCATED_RESULT"} # {}
         \/ result.count = ask.requested
         \/ result.count = 1
<1>1. result.count = effective /\ effective \in 1..MaxRows
  BY DEF IInv, HiddenFillsLimit, LimitIsSet
<1>2. LimitReached /\ result.count # 0
  BY <1>1 DEF LimitReached
<1>3. CASE result.truncated
  <2>1. Warning("TRUNCATED_RESULT") \in RowWarnings
    BY <1>2, <1>3 DEF RowWarnings, Said
  <2>2. Warning("TRUNCATED_RESULT").code = "TRUNCATED_RESULT"
    BY DEF Warning
  <2>3. QED
    BY <2>1, <2>2
<1>4. CASE ~result.truncated /\ ImplicitLimitReached
  <2>1. Warning("LIMIT_MAY_HIDE_ROWS") \in RowWarnings
    BY <1>2, <1>4 DEF RowWarnings, Said
  <2>2. Warning("LIMIT_MAY_HIDE_ROWS").code = "LIMIT_MAY_HIDE_ROWS"
    BY DEF Warning
  <2>3. QED
    BY <2>1, <2>2
<1>5. CASE ~ImplicitLimitReached
  BY <1>1, <1>2, <1>5 DEF ImplicitLimitReached
<1>6. QED
  BY <1>3, <1>4, <1>5

(* "With these filters" is only said of a result below its limit.          *)
LEMMA RowWarningsAreFair ==
  ASSUME IInv, pc = "executed", NEW w \in RowWarnings,
         w.code = "MISSING_COUNTRY_IN_RESULT", ~w.limited
  PROVE  hidden = 0
<1>1. w \in MissingCountry \/ w \in MixedCurrency
      \/ \E code \in {"UNNORMALISED_ITEM_TEXT", "LIMIT_MAY_HIDE_ROWS", "TRUNCATED_RESULT"} :
           w = Warning(code)
  BY DEF RowWarnings, Said
<1>2. CASE w \in MissingCountry
  <2>1. ~Limited
    BY <1>2 DEF MissingCountry
  <2>2. result.count < effective
    BY <2>1 DEF Limited, LimitReached, IInv, LimitIsSet, Ran
  <2>3. QED
    BY <2>2 DEF IInv, HiddenFillsLimit, LimitIsSet
<1>3. CASE w \in MixedCurrency
  BY <1>3 DEF MixedCurrency, Warning
<1>4. CASE \E code \in {"UNNORMALISED_ITEM_TEXT", "LIMIT_MAY_HIDE_ROWS", "TRUNCATED_RESULT"} :
             w = Warning(code)
  BY <1>4 DEF Warning
<1>5. QED
  BY <1>1, <1>2, <1>3, <1>4

(* Of several countries, one with rows and one without get a word.         *)
LEMMA RowWarningsNameTheAbsent ==
  ASSUME IInv, pc = "executed", Present # {}, ask.countries \ Present # {}
  PROVE  {w.code : w \in RowWarnings} \cap {"MIXED_CURRENCY", "MISSING_COUNTRY_IN_RESULT"} # {}
<1>1. result.kinds # {} /\ Present \subseteq ask.countries
  BY DEF Present, IInv, RowsAreInScope, Ran
<1>2. result.count # 0 /\ Absent # {}
  BY <1>1 DEF IInv, RowsAreInScope, Ran, Absent
<1>3. Cardinality(ask.countries) >= 2
  <2>1. IsFiniteSet(ask.countries)
    BY ResultWarningsAssumption, FS_Subset DEF IInv, RowsAreInScope
  <2>2. Cardinality(ask.countries) \in Nat
    BY <2>1, FS_CardinalityType
  <2>3. Cardinality(ask.countries) # 0
    BY <1>1, <2>1, FS_EmptySet
  <2>4. Cardinality(ask.countries) # 1
    <3>1. \A c : ask.countries # {c}
      BY <1>1
    <3>2. QED
      BY <2>1, <3>1, FS_Singleton
  <2>5. QED
    BY <2>2, <2>3, <2>4
<1>4. CASE "money" \notin sql.columns
  <2>1. [code |-> "MISSING_COUNTRY_IN_RESULT", absent |-> Absent, limited |-> Limited]
          \in RowWarnings
    BY <1>2, <1>3, <1>4 DEF RowWarnings, MissingCountry
  <2>2. QED
    BY <2>1
<1>5. CASE "money" \in sql.columns
  <2>1. \E w \in MixedCurrency : w.code = "MIXED_CURRENCY"
    BY <1>2, <1>3, <1>5 DEF MixedCurrency, Warning
  <2>2. QED
    BY <1>2, <2>1 DEF RowWarnings
<1>6. QED
  BY <1>4, <1>5

(* What is added for a zero is neither of the two.                         *)
LEMMA ZeroWarningsAreOthers ==
  ASSUME NEW reason \in Reason, NEW w \in ZeroWarnings(reason)
  PROVE  w.code # "MISSING_COUNTRY_IN_RESULT"
BY DEF ZeroWarnings, Said, Warning, Reason

(* The last step: the warnings are those of the rows, and of a zero.       *)
LEMMA WarnKeeps ==
  ASSUME IInv, pc = "executed", pc' = "warned",
         UNCHANGED <<ask, sql, effective, result, hidden>>,
         RowWarnings \subseteq warnings',
         \A w \in warnings' : w \in RowWarnings \/ w.code # "MISSING_COUNTRY_IN_RESULT"
  PROVE  IInv'
<1>1. HiddenRowsAreSaid'
  <2>. SUFFICES ASSUME hidden > 0 PROVE HiddenRowsAreSaid'
    BY DEF HiddenRowsAreSaid
  <2>1. \/ {w.code : w \in RowWarnings} \cap {"LIMIT_MAY_HIDE_ROWS", "TRUNCATED_RESULT"} # {}
        \/ result.count = ask.requested
        \/ result.count = 1
    BY RowWarningsTell
  <2>2. {w.code : w \in RowWarnings} \subseteq Codes'
    BY DEF Codes
  <2>3. QED
    BY <2>1, <2>2 DEF HiddenRowsAreSaid
<1>2. AbsenceIsNotOverstated'
  BY RowWarningsAreFair DEF AbsenceIsNotOverstated
<1>3. PartialTableIsSaid'
  <2>. SUFFICES ASSUME Present # {}, ask.countries \ Present # {}
                PROVE  PartialTableIsSaid'
    BY DEF PartialTableIsSaid, Present
  <2>1. {w.code : w \in RowWarnings}
          \cap {"MIXED_CURRENCY", "MISSING_COUNTRY_IN_RESULT"} # {}
    BY RowWarningsNameTheAbsent
  <2>2. {w.code : w \in RowWarnings} \subseteq Codes'
    BY DEF Codes
  <2>3. QED
    BY <2>1, <2>2 DEF PartialTableIsSaid
<1>4. /\ (LimitIsSet /\ HiddenFillsLimit /\ SilentUntilWarned /\ RowsAreInScope)'
      /\ (Ran => result.count \in Nat)'
  BY DEF IInv, LimitIsSet, HiddenFillsLimit, SilentUntilWarned, RowsAreInScope, Ran
<1>5. QED
  BY <1>1, <1>2, <1>3, <1>4 DEF IInv

LEMMA NextIInv == IInv /\ [Next]_vars => IInv'
<1>. SUFFICES ASSUME IInv, [Next]_vars PROVE IInv'
  OBVIOUS
<1>1. CASE Validate
  <2>1. effective' \in 1..MaxRows
    BY <1>1, LimitInRange DEF Validate, IInv, LimitIsSet
  <2>2. QED
    BY <1>1, <2>1 DEF Validate, IInv, LimitIsSet, HiddenFillsLimit, SilentUntilWarned, Ran,
                      HiddenRowsAreSaid, AbsenceIsNotOverstated, PartialTableIsSaid, RowsAreInScope, Warned
<1>2. CASE RunList
  <2>1. /\ pc = "validated" /\ pc' = "executed" /\ sql.form = "list"
        /\ result'.count \in 0..effective /\ hidden' \in 0..MaxHidden
        /\ hidden' > 0 => result'.count = effective
    BY <1>2 DEF RunList
  <2>2. effective \in 1..MaxRows
    BY <2>1 DEF IInv, LimitIsSet
  <2>3. QED
    BY <1>2, <2>1, <2>2, ResultWarningsAssumption
      DEF RunList, IInv, LimitIsSet, HiddenFillsLimit, SilentUntilWarned, Ran,
          HiddenRowsAreSaid, AbsenceIsNotOverstated, PartialTableIsSaid, RowsAreInScope, Warned
<1>3. CASE RunCount
  BY <1>3 DEF RunCount, IInv, LimitIsSet, HiddenFillsLimit, SilentUntilWarned, Ran,
              HiddenRowsAreSaid, AbsenceIsNotOverstated, PartialTableIsSaid, RowsAreInScope, Warned
<1>4. CASE WarnOfZero
  <2>1. PICK reason \in Reason : warnings' = ZeroWarnings(reason) \cup RowWarnings
    BY <1>4 DEF WarnOfZero
  <2>2. \A w \in warnings' : w \in RowWarnings \/ w.code # "MISSING_COUNTRY_IN_RESULT"
    BY <2>1, ZeroWarningsAreOthers
  <2>3. QED
    BY <1>4, <2>1, <2>2, WarnKeeps DEF WarnOfZero
<1>5. CASE WarnOfRows
  BY <1>5, WarnKeeps DEF WarnOfRows
<1>6. CASE UNCHANGED vars
  BY <1>6 DEF vars, IInv, LimitIsSet, HiddenFillsLimit, SilentUntilWarned, Ran,
              HiddenRowsAreSaid, AbsenceIsNotOverstated, PartialTableIsSaid, RowsAreInScope, Present, Warned, Codes
<1>7. QED
  BY <1>1, <1>2, <1>3, <1>4, <1>5, <1>6 DEF Next

(* Whatever the cap and the limit, a table that leaves rows out says so,   *)
(* but for the sizes that were asked for and a LIMIT of one.               *)
THEOREM NoSilentCut == Spec => []HiddenRowsAreSaid
<1>1. Spec => []IInv
  BY InitIInv, NextIInv, PTL DEF Spec
<1>2. IInv => HiddenRowsAreSaid
  BY DEF IInv
<1>3. QED
  BY <1>1, <1>2, PTL

(* A country is only said to have no result "with these filters" when the  *)
(* limit hides none.                                                       *)
THEOREM FairAbsence == Spec => []AbsenceIsNotOverstated
<1>1. Spec => []IInv
  BY InitIInv, NextIInv, PTL DEF Spec
<1>2. IInv => AbsenceIsNotOverstated
  BY DEF IInv
<1>3. QED
  BY <1>1, <1>2, PTL

(* A country asked about that has no row in a table with the others is     *)
(* never passed over in silence.                                           *)
THEOREM AbsenceIsSaid == Spec => []PartialTableIsSaid
<1>1. Spec => []IInv
  BY InitIInv, NextIInv, PTL DEF Spec
<1>2. IInv => PartialTableIsSaid
  BY DEF IInv
<1>3. QED
  BY <1>1, <1>2, PTL
-----------------------------------------------------------------------------
(* The empty result.  Rows are dates, or Null, by entity and country.      *)
Rows == [query.entities -> [Country -> SUBSET (Date \cup {Null})]]

DiagnosisTyped ==
  /\ query \in Query
  /\ stage \in {"asked", "entities", "terms", "answered"}
  /\ loaded \in Rows /\ atQuery.loaded \in Rows
  /\ named \in [query.predicates -> SUBSET Country]
  /\ atQuery.named \in [query.predicates -> SUBSET Country]
  /\ todo \subseteq query.entities
  /\ stage = "entities" => todo # {}
  /\ predicates \subseteq query.predicates
  /\ range \in [Country -> SUBSET Date]
  /\ missing \subseteq query.entities \X query.countries
  /\ absent \in [Term -> SUBSET query.countries]
  /\ stage # "answered" => answer = NoAnswer
  /\ stage = "asked" => missing = {} /\ \A t \in Term : absent[t] = {}

(* The loader only adds rows.                                              *)
RowsStay ==
  /\ \A e \in query.entities, c \in Country : atQuery.loaded[e][c] \subseteq loaded[e][c]
  /\ \A p \in query.predicates : atQuery.named[p] \subseteq named[p]

(* What was found to be missing had been missing all along.                *)
MissingWasMissing ==
  /\ \A e \in query.entities, c \in query.countries :
       <<e, c>> \in missing => atQuery.loaded[e][c] = {}
  /\ \A t \in Term : absent[t] # {} =>
       \E p \in query.predicates :
         p[2] = t /\ \A c \in absent[t] : c \notin atQuery.named[p]

(* The entities whose counts are in.                                       *)
Read == IF stage = "asked" THEN {} ELSE query.entities \ todo

(* What was read and not found to be missing is there.                     *)
ReadIsHeld ==
  \A e \in Read, c \in query.countries : <<e, c>> \in missing \/ loaded[e][c] # {}

(* The dates of a country are those of rows it holds, and none of the      *)
(* entities read so far had a row before or after them when the query ran. *)
RangeIsHeld ==
  \A c \in query.countries : \A d \in range[c] : \E e \in query.entities : d \in loaded[e][c]

RangeCovers ==
  \A e \in Read, c \in query.countries : \A d \in atQuery.loaded[e][c] \ {Null} :
    \E lo, hi \in range[c] : lo <= d /\ d <= hi

(* The reason given is the verdict on what was read.                       *)
VerdictStands ==
  /\ stage = "terms" \/ Answered("NO_MATCH_FOR_TERM") \/ (Answered("none") /\ answer.coverage) =>
       missing = {} /\ OutOfRange(range) = {} /\ todo = {}
  /\ Answered("PARTIAL_COVERAGE") => missing # {}
  /\ Answered("NO_DATA_FOR_PERIOD") => OutOfRange(range) # {} /\ todo = {}
  /\ Answered("NO_MATCH_FOR_TERM") => \E t \in Term : absent[t] # {}

DiagnosisInv ==
  /\ DiagnosisTyped /\ RowsStay /\ MissingWasMissing /\ ReadIsHeld
  /\ RangeIsHeld /\ RangeCovers /\ VerdictStands
-----------------------------------------------------------------------------
(* Max and Min choose what they are named for in a finite set of integers.  *)
(* A smallest nonempty set without a greatest member would have one        *)
(* without it already when any member is taken away.                       *)
LEMMA FiniteHasMax ==
  ASSUME NEW S \in SUBSET Int, IsFiniteSet(S), S # {}
  PROVE  Max(S) \in S /\ \A x \in S : Max(S) >= x
<1>. DEFINE HasMax(U) == \E m \in U : \A x \in U : m >= x
            Bad == {U \in FiniteSubsetsOf(Int) : U # {} /\ ~HasMax(U)}
            R == StrictSubsetOrdering(Int)
<1>1. Bad = {}
  <2>. SUFFICES ASSUME Bad # {} PROVE FALSE
    OBVIOUS
  <2>1. IsWellFoundedOn(R, FiniteSubsetsOf(Int))
    BY FS_StrictSubsetOrderingWellFounded
  <2>2. Bad \subseteq FiniteSubsetsOf(Int)
    OBVIOUS
  <2>3. \E U \in Bad : \A V \in Bad : <<V, U>> \notin R
    <3>. HIDE DEF Bad, R
    <3>1. QED
      BY <2>1, <2>2, WFMin
  <2>4. PICK U \in Bad : \A V \in Bad : <<V, U>> \notin R
    BY <2>3
  <2>5. PICK x \in U : TRUE
    OBVIOUS
  <2>6. U \in SUBSET Int /\ IsFiniteSet(U) /\ x \in Int
    BY <2>5 DEF FiniteSubsetsOf
  <2>. DEFINE V == U \ {x}
  <2>7. V \in SUBSET Int /\ IsFiniteSet(V) /\ V \subseteq U /\ V # U
    BY <2>5, <2>6, FS_RemoveElement
  <2>8. V \notin Bad
    BY <2>4, <2>6, <2>7 DEF StrictSubsetOrdering
  <2>9. V = {} \/ HasMax(V)
    BY <2>7, <2>8 DEF FiniteSubsetsOf
  <2>10. CASE V = {}
    BY <2>5, <2>6, <2>10
  <2>11. CASE HasMax(V)
    <3>1. PICK m \in V : \A y \in V : m >= y
      BY <2>11
    <3>2. m \in U /\ m \in Int
      BY <2>7, <3>1
    <3>3. CASE m >= x
      BY <2>6, <3>1, <3>2, <3>3
    <3>4. CASE x > m
      BY <2>5, <2>6, <3>1, <3>2, <3>4
    <3>5. QED
      BY <2>6, <3>2, <3>3, <3>4
  <2>12. QED
    BY <2>9, <2>10, <2>11
<1>2. HasMax(S)
  BY <1>1 DEF FiniteSubsetsOf
<1>3. QED
  BY <1>2 DEF Max

(* The least of a set is the opposite of the greatest opposite.            *)
LEMMA FiniteHasMin ==
  ASSUME NEW S \in SUBSET Int, IsFiniteSet(S), S # {}
  PROVE  Min(S) \in S /\ \A x \in S : Min(S) <= x
<1>. DEFINE opposite == [x \in S |-> -x]
            T == {-x : x \in S}
<1>1. opposite \in Surjection(S, T)
  BY DEF Surjection
<1>2. IsFiniteSet(T) /\ T \in SUBSET Int /\ T # {}
  <2>1. T \in SUBSET Int
    <3>1. \A x \in S : -x \in Int
      OBVIOUS
    <3>2. QED
      BY <3>1
  <2>2. T # {}
    OBVIOUS
  <2>3. IsFiniteSet(T)
    <3>. HIDE DEF T, opposite
    <3>1. QED
      BY <1>1, FS_Surjection
  <2>4. QED
    BY <2>1, <2>2, <2>3
<1>3. Max(T) \in T /\ \A y \in T : Max(T) >= y
  <2>. HIDE DEF T
  <2>1. QED
    BY <1>2, FiniteHasMax
<1>4. PICK x \in S : Max(T) = -x
  BY <1>3
<1>5. \A y \in S : x <= y
  <2>. SUFFICES ASSUME NEW y \in S PROVE x <= y
    OBVIOUS
  <2>1. -y \in T /\ x \in Int /\ y \in Int
    OBVIOUS
  <2>2. -x >= -y
    BY <1>3, <1>4, <2>1
  <2>3. QED
    BY <2>1, <2>2
<1>6. QED
  BY <1>5 DEF Min

(* What a query is.                                                        *)
LEMMA QueryIs ==
  ASSUME DiagnosisTyped
  PROVE  /\ query.countries \subseteq Country
         /\ query.entities \subseteq Entity /\ query.predicates \subseteq Column \X Term
         /\ query.filter.low \in Date \cup {Null} /\ query.filter.high \in Date \cup {Null}
BY DEF DiagnosisTyped, Query, Filter

(* The entity that is read next is one that was not read yet.              *)
LEMMA NextIsToDo ==
  ASSUME DiagnosisTyped, todo # {}
  PROVE  NextEntity \in todo
<1>. DEFINE places == {i \in DOMAIN EntityOrder : EntityOrder[i] \in todo}
<1>1. DOMAIN EntityOrder = 1..5
  BY DEF EntityOrder
<1>2. todo \subseteq Entity
  BY QueryIs DEF DiagnosisTyped
<1>3. places \subseteq 1..5 /\ places # {}
  BY <1>1, <1>2 DEF Entity
<1>4. IsFiniteSet(places) /\ places \in SUBSET Int
  <2>1. IsFiniteSet(1..5)
    <3>1. 1 \in Int /\ 5 \in Int
      OBVIOUS
    <3>2. QED
      BY <3>1, FS_Interval, Zenon
  <2>2. IsFiniteSet(places)
    <3>. HIDE DEF places
    <3>1. QED
      BY <1>3, <2>1, FS_Subset
  <2>3. QED
    BY <1>3, <2>2
<1>5. Min(places) \in places
  BY <1>3, <1>4, FiniteHasMin
<1>6. QED
  BY <1>5 DEF NextEntity

(* What is seen of a country lies between the dates kept of it.            *)
LEMMA WidenCovers ==
  ASSUME DiagnosisTyped, NEW e \in query.entities
  PROVE  /\ Widen(e) \in [Country -> SUBSET Date]
         /\ \A c \in query.countries :
              LET seen == range[c] \cup (loaded[e][c] \ {Null}) IN
              /\ Widen(e)[c] \subseteq seen
              /\ \A d \in seen : \E lo, hi \in Widen(e)[c] : lo <= d /\ d <= hi
<1>. DEFINE seen(c) == range[c] \cup (loaded[e][c] \ {Null})
<1>1. \A c \in Country :
        Widen(e)[c] = IF c \in query.countries /\ seen(c) # {}
                      THEN {Min(seen(c)), Max(seen(c))} ELSE {}
  BY DEF Widen
<1>2. ASSUME NEW c \in Country
      PROVE  seen(c) \subseteq Date /\ seen(c) \in SUBSET Int /\ IsFiniteSet(seen(c))
  <2>1. range[c] \subseteq Date /\ loaded[e][c] \subseteq Date \cup {Null}
    BY <1>2 DEF DiagnosisTyped, Rows
  <2>2. seen(c) \subseteq Date
    BY <2>1
  <2>. HIDE DEF seen
  <2>3. QED
    BY <2>2, FS_Subset, ZeroDiagnosisAssumption
<1>. HIDE DEF seen
<1>3. ASSUME NEW c \in Country, seen(c) # {}
      PROVE  /\ Min(seen(c)) \in seen(c) /\ \A d \in seen(c) : Min(seen(c)) <= d
             /\ Max(seen(c)) \in seen(c) /\ \A d \in seen(c) : d <= Max(seen(c))
  <2>1. seen(c) \in SUBSET Int /\ IsFiniteSet(seen(c)) /\ Max(seen(c)) \in Int
    BY <1>2, <1>3, FiniteHasMax
  <2>2. QED
    BY <1>3, <2>1, FiniteHasMin, FiniteHasMax
<1>4. \A c \in Country : Widen(e)[c] \subseteq seen(c)
  BY <1>1, <1>3
<1>5. Widen(e) \in [Country -> SUBSET Date]
  <2>1. Widen(e) = [c \in Country |-> Widen(e)[c]]
    BY DEF Widen
  <2>2. \A c \in Country : Widen(e)[c] \in SUBSET Date
    BY <1>2, <1>4
  <2>3. QED
    BY <2>1, <2>2
<1>6. ASSUME NEW c \in query.countries, NEW d \in seen(c)
      PROVE  \E lo, hi \in Widen(e)[c] : lo <= d /\ d <= hi
  <2>1. c \in Country /\ seen(c) # {}
    BY <1>6, QueryIs
  <2>2. Min(seen(c)) \in Widen(e)[c] /\ Max(seen(c)) \in Widen(e)[c]
    BY <1>1, <1>6, <2>1
  <2>3. QED
    BY <1>3, <1>6, <2>1, <2>2
<1>7. QED
  BY <1>4, <1>5, <1>6, QueryIs DEF seen
-----------------------------------------------------------------------------
(* Every step of the diagnosis and of the loader keeps the invariant.      *)
LEMMA DiagnosisStarts == DiagnosisInit => DiagnosisInv
<1>. SUFFICES ASSUME DiagnosisInit PROVE DiagnosisInv
  OBVIOUS
<1>1. /\ query \in Query /\ stage = "asked" /\ answer = NoAnswer
      /\ loaded \in Rows /\ named \in [query.predicates -> SUBSET Country]
      /\ atQuery.loaded = loaded /\ atQuery.named = named
      /\ todo = {} /\ missing = {} /\ absent = [t \in Term |-> {}] /\ predicates = {}
      /\ range = [c \in Country |-> {}]
  BY ZeroDiagnosisAssumption DEF DiagnosisInit, Rows
<1>2. query.countries \subseteq Country
  BY <1>1 DEF Query
<1>3. DiagnosisTyped
  BY <1>1 DEF DiagnosisTyped
<1>4. RowsStay /\ MissingWasMissing
  BY <1>1 DEF RowsStay, MissingWasMissing
<1>5. ReadIsHeld /\ RangeCovers
  BY <1>1 DEF ReadIsHeld, RangeCovers, Read
<1>6. RangeIsHeld
  BY <1>1, <1>2 DEF RangeIsHeld
<1>7. VerdictStands
  BY <1>1 DEF VerdictStands, Answered
<1>8. QED
  BY <1>3, <1>4, <1>5, <1>6, <1>7 DEF DiagnosisInv

(* Rows only come.                                                         *)
LEMMA LoadAdds ==
  ASSUME DiagnosisInv, Load
  PROVE  /\ loaded' \in Rows /\ named' \in [query.predicates -> SUBSET Country]
         /\ \A e \in query.entities, c \in Country : loaded[e][c] \subseteq loaded'[e][c]
         /\ \A p \in query.predicates : named[p] \subseteq named'[p]
<1>1. loaded \in Rows /\ named \in [query.predicates -> SUBSET Country]
  BY DEF DiagnosisInv, DiagnosisTyped
<1>2. CASE /\ \E e \in query.entities, c \in Country :
                \E rows \in Held(e) : loaded' = [loaded EXCEPT ![e][c] = @ \cup rows]
           /\ UNCHANGED named
  <2>0. PICK e \in query.entities, c \in Country :
          \E rows \in Held(e) : loaded' = [loaded EXCEPT ![e][c] = @ \cup rows]
    BY <1>2
  <2>1. PICK rows \in Held(e) : loaded' = [loaded EXCEPT ![e][c] = @ \cup rows]
    BY <2>0
  <2>2. rows \subseteq Date \cup {Null}
    BY DEF Held
  <2>3. loaded' \in Rows
    BY <1>1, <2>1, <2>2 DEF Rows
  <2>4. \A f \in query.entities, k \in Country : loaded[f][k] \subseteq loaded'[f][k]
    BY <1>1, <2>1 DEF Rows
  <2>5. QED
    BY <1>1, <1>2, <2>3, <2>4
<1>3. CASE /\ \E p \in query.predicates, c \in Country :
                named' = [named EXCEPT ![p] = @ \cup {c}]
           /\ UNCHANGED loaded
  BY <1>1, <1>3
<1>4. QED
  BY <1>2, <1>3 DEF Load

LEMMA LoadKeeps ==
  ASSUME DiagnosisInv, Load
  PROVE  DiagnosisInv'
<1>1. UNCHANGED <<query, stage, todo, missing, range, predicates, absent, answer, atQuery>>
  BY DEF Load
<1>2. DiagnosisTyped /\ query.countries \subseteq Country
  BY QueryIs DEF DiagnosisInv
<1>3. DiagnosisTyped'
  BY <1>1, <1>2, LoadAdds DEF DiagnosisTyped, Rows
<1>4. RowsStay'
  BY <1>1, LoadAdds DEF DiagnosisInv, RowsStay
<1>5. MissingWasMissing'
  BY <1>1 DEF DiagnosisInv, MissingWasMissing
<1>6. ReadIsHeld'
  <2>1. Read' = Read /\ Read \subseteq query.entities
    BY <1>1 DEF Read
  <2>2. \A e \in Read, c \in query.countries : <<e, c>> \in missing \/ loaded'[e][c] # {}
    <3>1. \A e \in Read, c \in query.countries : loaded[e][c] \subseteq loaded'[e][c]
      BY <1>2, <2>1, LoadAdds
    <3>2. QED
      BY <3>1 DEF DiagnosisInv, ReadIsHeld
  <2>3. QED
    BY <1>1, <2>1, <2>2 DEF ReadIsHeld
<1>7. RangeIsHeld'
  BY <1>1, <1>2, LoadAdds DEF DiagnosisInv, RangeIsHeld
<1>8. RangeCovers'
  BY <1>1 DEF DiagnosisInv, RangeCovers, Read
<1>9. VerdictStands'
  BY <1>1 DEF DiagnosisInv, VerdictStands, Answered, OutOfRange, Literals
<1>10. QED
  BY <1>3, <1>4, <1>5, <1>6, <1>7, <1>8, <1>9 DEF DiagnosisInv

LEMMA FindNothingKeeps ==
  ASSUME DiagnosisInv, FindNothing
  PROVE  DiagnosisInv'
<1>1. /\ stage = "asked" /\ UNCHANGED <<loaded, named, query, missing, range, predicates, absent>>
      /\ atQuery'.loaded = loaded /\ atQuery'.named = named
      /\ DiagnosisTyped /\ missing = {} /\ (\A t \in Term : absent[t] = {}) /\ answer = NoAnswer
  BY DEF FindNothing, base, DiagnosisInv, DiagnosisTyped
<1>2. \/ /\ query.entities = {} /\ stage' = "answered" /\ todo' = todo
         /\ answer' = [reason |-> "none", coverage |-> FALSE]
      \/ /\ query.entities # {} /\ stage' = "entities" /\ todo' = query.entities
         /\ answer' = answer
  BY DEF FindNothing, Answer
<1>3. DiagnosisTyped'
  BY <1>1, <1>2 DEF DiagnosisTyped, Rows
<1>4. Read' = {}
  BY <1>1, <1>2 DEF Read
<1>5. RowsStay' /\ MissingWasMissing'
  BY <1>1 DEF RowsStay, MissingWasMissing
<1>6. ReadIsHeld' /\ RangeCovers'
  BY <1>4 DEF ReadIsHeld, RangeCovers
<1>7. RangeIsHeld'
  BY <1>1 DEF DiagnosisInv, RangeIsHeld
<1>8. VerdictStands'
  BY <1>1, <1>2 DEF VerdictStands, Answered
<1>9. QED
  BY <1>3, <1>5, <1>6, <1>7, <1>8 DEF DiagnosisInv

LEMMA ReadEntityKeeps ==
  ASSUME DiagnosisInv, ReadEntity
  PROVE  DiagnosisInv'
<1>. DEFINE e == NextEntity
<1>1. /\ stage = "entities" /\ todo' = todo \ {e}
      /\ missing' = missing \cup {e} \X Lacks(e) /\ range' = Widen(e)
      /\ UNCHANGED <<loaded, named, query, absent, atQuery>>
  BY DEF ReadEntity, base
<1>2. DiagnosisTyped /\ todo # {} /\ todo \subseteq query.entities /\ answer = NoAnswer
  BY <1>1 DEF DiagnosisInv, DiagnosisTyped
<1>3. e \in todo /\ e \in query.entities
  BY <1>2, NextIsToDo
<1>4. query.countries \subseteq Country
  BY <1>2, QueryIs
<1>5. IF todo' = {} THEN Verdict(missing', range') ELSE UNCHANGED <<stage, predicates, answer>>
  BY DEF ReadEntity
<1>. HIDE DEF e
<1>6. \/ /\ todo' # {} /\ UNCHANGED <<stage, predicates, answer>>
      \/ /\ todo' = {} /\ stage' = "answered" /\ UNCHANGED predicates
         /\ missing' # {} /\ answer' = [reason |-> "PARTIAL_COVERAGE", coverage |-> TRUE]
      \/ /\ todo' = {} /\ stage' = "answered" /\ UNCHANGED predicates
         /\ OutOfRange(range') # {}
         /\ answer' = [reason |-> "NO_DATA_FOR_PERIOD", coverage |-> TRUE]
      \/ /\ todo' = {} /\ stage' = "terms" /\ predicates' = query.predicates /\ UNCHANGED answer
         /\ missing' = {} /\ OutOfRange(range') = {}
      \/ /\ todo' = {} /\ stage' = "answered" /\ UNCHANGED predicates
         /\ missing' = {} /\ OutOfRange(range') = {}
         /\ answer' = [reason |-> "none", coverage |-> TRUE]
  BY <1>5 DEF Verdict, Answer
<1>7. OutOfRange(range)' = OutOfRange(range')
  BY <1>1 DEF OutOfRange, Literals
<1>8. Lacks(e) = {c \in query.countries : loaded[e][c] = {}}
  BY DEF Lacks
<1>9. DiagnosisTyped'
  <2>1. range' \in [Country -> SUBSET Date]
    BY <1>1, <1>2, <1>3, WidenCovers
  <2>2. missing' \subseteq query.entities \X query.countries
    BY <1>1, <1>2, <1>3, <1>8 DEF DiagnosisTyped
  <2>3. stage' \in {"asked", "entities", "terms", "answered"} /\ stage' # "asked"
    BY <1>1, <1>6
  <2>4. stage' # "answered" => answer' = NoAnswer
    BY <1>2, <1>6
  <2>5. stage' = "entities" => todo' # {}
    BY <1>6
  <2>6. predicates' \subseteq query.predicates /\ todo' \subseteq query.entities
    BY <1>1, <1>2, <1>6 DEF DiagnosisTyped
  <2>7. QED
    BY <1>1, <1>2, <2>1, <2>2, <2>3, <2>4, <2>5, <2>6 DEF DiagnosisTyped, Rows
<1>10. Read' = Read \cup {e} /\ Read \subseteq query.entities
  <2>1. stage' # "asked"
    BY <1>1, <1>6
  <2>2. QED
    BY <1>1, <1>3, <2>1 DEF Read
<1>11. RowsStay'
  BY <1>1 DEF DiagnosisInv, RowsStay
<1>12. MissingWasMissing'
  <2>1. \A f \in query.entities, c \in query.countries :
          <<f, c>> \in missing' => atQuery.loaded[f][c] = {}
    BY <1>1, <1>4, <1>8 DEF DiagnosisInv, MissingWasMissing, RowsStay
  <2>2. QED
    BY <1>1, <2>1 DEF DiagnosisInv, MissingWasMissing
<1>13. ReadIsHeld'
  BY <1>1, <1>8, <1>10 DEF DiagnosisInv, ReadIsHeld
<1>14. RangeIsHeld'
  <2>. SUFFICES ASSUME NEW c \in query.countries, NEW d \in range'[c]
                PROVE  \E f \in query.entities : d \in loaded[f][c]
    BY <1>1 DEF RangeIsHeld
  <2>1. d \in range[c] \/ d \in loaded[e][c]
    BY <1>1, <1>2, <1>3, WidenCovers
  <2>2. QED
    BY <1>3, <2>1 DEF DiagnosisInv, RangeIsHeld
<1>15. RangeCovers'
  <2>. SUFFICES ASSUME NEW f \in Read \cup {e}, NEW c \in query.countries,
                       NEW d \in atQuery.loaded[f][c] \ {Null}
                PROVE  \E lo, hi \in range'[c] : lo <= d /\ d <= hi
    BY <1>1, <1>10 DEF RangeCovers
  <2>1. \A x \in range[c] \cup (loaded[e][c] \ {Null}) :
          \E lo, hi \in range'[c] : lo <= x /\ x <= hi
    BY <1>1, <1>2, <1>3, WidenCovers
  <2>2. /\ range[c] \subseteq Date /\ range'[c] \subseteq Date
        /\ c \in Country /\ d \in Date
    BY <1>1, <1>2, <1>3, <1>4, <1>9, <1>10 DEF DiagnosisTyped, Rows
  <2>3. CASE f = e
    <3>1. d \in loaded[e][c]
      BY <1>3, <2>2, <2>3 DEF DiagnosisInv, RowsStay
    <3>2. QED
      BY <2>1, <3>1
  <2>4. CASE f \in Read
    <3>1. PICK lo, hi \in range[c] : lo <= d /\ d <= hi
      BY <2>4 DEF DiagnosisInv, RangeCovers
    <3>2. PICK l \in range'[c] : l <= lo
      BY <2>1, <3>1
    <3>3. PICK h \in range'[c] : hi <= h
      BY <2>1, <3>1
    <3>4. lo \in Int /\ hi \in Int /\ l \in Int /\ h \in Int /\ d \in Int
      BY <2>2, <3>1, <3>2, <3>3, ZeroDiagnosisAssumption
    <3>5. l <= d /\ d <= h
      BY <3>1, <3>2, <3>3, <3>4
    <3>6. QED
      BY <3>2, <3>3, <3>5
  <2>5. QED
    BY <2>3, <2>4
<1>16. VerdictStands'
  BY <1>1, <1>6, <1>7 DEF VerdictStands, Answered
<1>17. QED
  BY <1>9, <1>11, <1>12, <1>13, <1>14, <1>15, <1>16 DEF DiagnosisInv

LEMMA EntityFailsKeeps ==
  ASSUME DiagnosisInv, EntityFails
  PROVE  DiagnosisInv'
<1>1. /\ stage = "entities" /\ stage' = "answered"
      /\ answer' = [reason |-> "none", coverage |-> FALSE]
      /\ UNCHANGED <<loaded, named, query, todo, missing, range, predicates, absent, atQuery>>
  BY DEF EntityFails, Answer, base
<1>2. DiagnosisTyped'
  BY <1>1 DEF DiagnosisInv, DiagnosisTyped, Rows
<1>3. RowsStay' /\ MissingWasMissing' /\ RangeIsHeld'
  BY <1>1 DEF DiagnosisInv, RowsStay, MissingWasMissing, RangeIsHeld
<1>4. Read' = Read
  BY <1>1 DEF Read
<1>5. ReadIsHeld' /\ RangeCovers'
  BY <1>1, <1>4 DEF DiagnosisInv, ReadIsHeld, RangeCovers
<1>6. VerdictStands'
  BY <1>1 DEF VerdictStands, Answered
<1>7. QED
  BY <1>2, <1>3, <1>5, <1>6 DEF DiagnosisInv

LEMMA TermKeeps ==
  ASSUME DiagnosisInv, NEW p \in Column \X Term, ReadTerm(p) \/ TermFails(p)
  PROVE  DiagnosisInv'
<1>1. /\ stage = "terms" /\ p \in predicates /\ NextPredicate(p)
      /\ \/ UNCHANGED absent
         \/ absent' = [absent EXCEPT ![p[2]] = query.countries \ named[p]]
  BY DEF ReadTerm, TermFails
<1>2. /\ predicates' = predicates \ {p}
      /\ UNCHANGED <<loaded, named, query, todo, missing, range, atQuery>>
  BY <1>1 DEF NextPredicate, base
<1>3. \/ UNCHANGED <<stage, answer>>
      \/ /\ stage' = "answered" /\ \E t \in Term : absent'[t] # {}
         /\ answer' = [reason |-> "NO_MATCH_FOR_TERM", coverage |-> TRUE]
      \/ stage' = "answered" /\ answer' = [reason |-> "none", coverage |-> TRUE]
  BY <1>1 DEF NextPredicate, Answer
<1>4. DiagnosisTyped /\ p \in query.predicates /\ query.countries \subseteq Country /\ p[2] \in Term
  BY <1>1, QueryIs DEF DiagnosisInv, DiagnosisTyped
<1>5. DiagnosisTyped'
  <2>1. absent' \in [Term -> SUBSET query.countries]
    BY <1>1, <1>4 DEF DiagnosisTyped
  <2>2. QED
    BY <1>1, <1>2, <1>3, <1>4, <2>1 DEF DiagnosisTyped, Rows
<1>6. RowsStay' /\ RangeIsHeld'
  BY <1>2 DEF DiagnosisInv, RowsStay, RangeIsHeld
<1>7. MissingWasMissing'
  <2>1. \A t \in Term : absent'[t] # {} =>
          \E r \in query.predicates :
            r[2] = t /\ \A c \in absent'[t] : c \notin atQuery.named[r]
    <3>1. CASE UNCHANGED absent
      BY <3>1 DEF DiagnosisInv, MissingWasMissing
    <3>2. CASE absent' = [absent EXCEPT ![p[2]] = query.countries \ named[p]]
      <4>1. ASSUME NEW t \in Term, t # p[2], absent'[t] # {}
            PROVE  \E r \in query.predicates :
                     r[2] = t /\ \A c \in absent'[t] : c \notin atQuery.named[r]
        <5>1. absent'[t] = absent[t]
          BY <3>2, <4>1
        <5>2. QED
          BY <4>1, <5>1 DEF DiagnosisInv, MissingWasMissing
      <4>2. absent'[p[2]] = query.countries \ named[p]
        BY <1>4, <3>2 DEF DiagnosisTyped
      <4>3. \A c \in absent'[p[2]] : c \notin atQuery.named[p]
        BY <1>4, <4>2 DEF DiagnosisInv, RowsStay
      <4>4. QED
        BY <1>4, <4>1, <4>3
    <3>3. QED
      BY <1>1, <3>1, <3>2
  <2>2. QED
    BY <1>2, <2>1 DEF DiagnosisInv, MissingWasMissing
<1>8. Read' = Read
  BY <1>1, <1>2, <1>3 DEF Read
<1>9. ReadIsHeld' /\ RangeCovers'
  BY <1>2, <1>8 DEF DiagnosisInv, ReadIsHeld, RangeCovers
<1>10. OutOfRange(range)' = OutOfRange(range)
  BY <1>2 DEF OutOfRange, Literals
<1>11. missing = {} /\ OutOfRange(range) = {} /\ todo = {}
  BY <1>1 DEF DiagnosisInv, VerdictStands
<1>12. VerdictStands'
  BY <1>1, <1>2, <1>3, <1>10, <1>11 DEF VerdictStands, Answered
<1>13. QED
  BY <1>5, <1>6, <1>7, <1>9, <1>12 DEF DiagnosisInv

LEMMA DiagnosisGoesOn == DiagnosisSpec => []DiagnosisInv
<1>1. DiagnosisInv /\ [DiagnosisNext]_diagnosisVars => DiagnosisInv'
  <2>. SUFFICES ASSUME DiagnosisInv, [DiagnosisNext]_diagnosisVars PROVE DiagnosisInv'
    OBVIOUS
  <2>1. CASE UNCHANGED diagnosisVars
    <3>1. UNCHANGED <<loaded, named, query, stage, todo, missing, range, predicates, absent, answer,
                      atQuery>>
      BY <2>1 DEF diagnosisVars, base
    <3>2. DiagnosisTyped' /\ RowsStay' /\ MissingWasMissing'
      BY <3>1 DEF DiagnosisInv, DiagnosisTyped, Rows, RowsStay, MissingWasMissing
    <3>3. ReadIsHeld' /\ RangeIsHeld' /\ RangeCovers'
      BY <3>1 DEF DiagnosisInv, ReadIsHeld, RangeIsHeld, RangeCovers, Read
    <3>4. VerdictStands'
      BY <3>1 DEF DiagnosisInv, VerdictStands, Answered, OutOfRange, Literals
    <3>5. QED
      BY <3>2, <3>3, <3>4 DEF DiagnosisInv
  <2>2. QED
    BY <2>1, LoadKeeps, FindNothingKeeps, ReadEntityKeeps, EntityFailsKeeps, TermKeeps
    DEF DiagnosisNext, Diagnose
<1>2. QED
  BY <1>1, DiagnosisStarts, PTL DEF DiagnosisSpec
-----------------------------------------------------------------------------
(* The literals of a query that states its period are its bounds.         *)
LEMMA BothBounds ==
  ASSUME DiagnosisTyped, StatesItsPeriod
  PROVE  /\ Literals = {query.filter.low, query.filter.high}
         /\ query.filter.low \in Int /\ query.filter.high \in Int
         /\ Max(Literals) = query.filter.high /\ Min(Literals) = query.filter.low
<1>. DEFINE f == query.filter
<1>1. f \in Filter /\ Null \notin {f.low, f.high}
  BY DEF DiagnosisTyped, Query, StatesItsPeriod
<1>2. f.low \in Int /\ f.high \in Int /\ f.low <= f.high /\ f.asDates \in BOOLEAN
      /\ f.numbers \in Seq(Date)
  BY <1>1, QueryIs, ZeroDiagnosisAssumption DEF Filter
<1>3. Literals = {f.low, f.high}
  <2>1. CASE f.asDates
    BY <1>1, <2>1 DEF Literals
  <2>2. CASE ~f.asDates
    <3>1. \E i \in DOMAIN f.numbers : f.low = f.numbers[i]
      BY <1>1, <2>2 DEF Filter
    <3>2. \E i \in DOMAIN f.numbers : f.high = f.numbers[i]
      BY <1>1, <2>2 DEF Filter
    <3>3. \A i \in DOMAIN f.numbers : f.numbers[i] = f.numbers[1]
      BY <2>2 DEF StatesItsPeriod
    <3>4. f.low = f.numbers[1] /\ f.high = f.numbers[1]
      BY <3>1, <3>2, <3>3
    <3>5. DOMAIN f.numbers # {}
      BY <3>1
    <3>6. f.numbers # <<>>
      BY <3>5
    <3>7. QED
      BY <2>2, <3>4, <3>6 DEF Literals
  <2>3. QED
    BY <1>2, <2>1, <2>2
<1>4. IsFiniteSet(Literals) /\ Literals \in SUBSET Int /\ Literals # {}
  <2>1. Literals \subseteq Date
    BY <1>1, <1>3, QueryIs
  <2>2. QED
    BY <1>3, <2>1, FS_Subset, ZeroDiagnosisAssumption
<1>5. /\ Max(Literals) \in Literals /\ \A x \in Literals : Max(Literals) >= x
      /\ Min(Literals) \in Literals /\ \A x \in Literals : Min(Literals) <= x
  BY <1>4, FiniteHasMax, FiniteHasMin
<1>6. QED
  BY <1>2, <1>3, <1>5

(* The dates kept of a country are finitely many.                          *)
LEMMA RangeIsFinite ==
  ASSUME DiagnosisTyped, NEW c \in Country
  PROVE  range[c] \in SUBSET Int /\ IsFiniteSet(range[c])
<1>1. range[c] \subseteq Date
  BY DEF DiagnosisTyped
<1>2. QED
  BY <1>1, FS_Subset, ZeroDiagnosisAssumption

(* "PARTIAL_COVERAGE", "NO_DATA_FOR_PERIOD" and "NO_MATCH_FOR_TERM" blame  *)
(* the data for a zero: the entity, the stated period, and the term in a   *)
(* column it was looked for in, were missing already when the query ran,   *)
(* however many rows the loader commits while the counts are read.         *)
THEOREM BlamedDataWasMissing == DiagnosisSpec => []ReasonsWereTrue
<1>1. ASSUME DiagnosisInv, Answered("PARTIAL_COVERAGE")
      PROVE  missing # {} /\ \A m \in missing : atQuery.loaded[m[1]][m[2]] = {}
  BY <1>1 DEF DiagnosisInv, DiagnosisTyped, VerdictStands, MissingWasMissing
<1>2. ASSUME DiagnosisInv, Answered("NO_MATCH_FOR_TERM")
      PROVE  /\ \E t \in Term : absent[t] # {}
             /\ \A t \in Term : absent[t] # {} =>
                  \E p \in query.predicates :
                    p[2] = t /\ \A c \in absent[t] : c \notin atQuery.named[p]
  BY <1>2 DEF DiagnosisInv, DiagnosisTyped, VerdictStands, MissingWasMissing
<1>3. ASSUME DiagnosisInv, Answered("NO_DATA_FOR_PERIOD"), StatesItsPeriod
      PROVE  \E c \in query.countries : HeldAtQuery(c) \cap AskedDates = {}
  <2>1. PICK c \in OutOfRange(range) : TRUE
    BY <1>3 DEF DiagnosisInv, VerdictStands
  <2>2. /\ c \in query.countries /\ range[c] # {}
        /\ Max(Literals) < Min(range[c]) \/ Min(Literals) > Max(range[c])
    BY <2>1 DEF OutOfRange
  <2>3. DiagnosisTyped /\ c \in Country /\ Read = query.entities
    <3>1. todo = {} /\ stage = "answered"
      BY <1>3 DEF DiagnosisInv, VerdictStands, Answered
    <3>2. QED
      BY <1>3, <2>2, <3>1, QueryIs DEF DiagnosisInv, Read
  <2>4. /\ range[c] \in SUBSET Int
        /\ Min(range[c]) \in range[c] /\ \A x \in range[c] : Min(range[c]) <= x
        /\ Max(range[c]) \in range[c] /\ \A x \in range[c] : Max(range[c]) >= x
    BY <2>2, <2>3, RangeIsFinite, FiniteHasMin, FiniteHasMax
  <2>5. ASSUME NEW d \in HeldAtQuery(c), d \in AskedDates PROVE FALSE
    <3>1. PICK f \in query.entities : d \in atQuery.loaded[f][c] \ {Null}
      BY <2>5 DEF HeldAtQuery
    <3>2. PICK lo, hi \in range[c] : lo <= d /\ d <= hi
      BY <1>3, <2>2, <2>3, <3>1 DEF DiagnosisInv, RangeCovers
    <3>3. query.filter.low <= d /\ d <= query.filter.high /\ d \in Int
      <4>1. query.filter.low # Null /\ query.filter.high # Null /\ query.filter.high \in Int
        BY <1>3, <2>3, BothBounds DEF StatesItsPeriod
      <4>2. d \in Int
        BY <2>5, ZeroDiagnosisAssumption DEF AskedDates
      <4>3. QED
        BY <2>5, <4>1, <4>2 DEF AskedDates
    <3>4. lo \in Int /\ hi \in Int /\ Min(range[c]) <= lo /\ hi <= Max(range[c])
      BY <2>4, <3>2
    <3>5. /\ Max(Literals) = query.filter.high /\ Min(Literals) = query.filter.low
          /\ query.filter.low \in Int /\ query.filter.high \in Int
      BY <1>3, <2>3, BothBounds
    <3>6. Min(range[c]) \in Int /\ Max(range[c]) \in Int
      BY <2>4
    <3>7. QED
      BY <2>2, <3>2, <3>3, <3>4, <3>5, <3>6
  <2>6. QED
    BY <2>2, <2>5
<1>4. DiagnosisInv => ReasonsWereTrue
  BY <1>1, <1>2, <1>3 DEF ReasonsWereTrue
<1>5. QED
  BY <1>4, DiagnosisGoesOn, PTL

(* A zero that goes out with its coverage note and no warning is one whose *)
(* entities all hold rows, and not all of them before or after the period  *)
(* it states, the day that ends it counted in even where the filter leaves *)
(* it out; for any entities, countries and periods.                        *)
THEOREM SilentZerosAreCovered == DiagnosisSpec => []SilenceMeansLoaded
<1>. DEFINE dates(c) == UNION {loaded[f][c] \ {Null} : f \in query.entities}
<1>1. ASSUME DiagnosisInv, Answered("none"), answer.coverage, NEW c \in query.countries
      PROVE  /\ \A e \in query.entities : loaded[e][c] # {}
             /\ StatesItsPeriod /\ HeldAtQuery(c) # {} =>
                  /\ \E d \in dates(c) : d <= query.filter.high
                  /\ \E d \in dates(c) : query.filter.low <= d
  <2>1. missing = {} /\ OutOfRange(range) = {} /\ todo = {} /\ stage = "answered"
    BY <1>1 DEF DiagnosisInv, VerdictStands, Answered
  <2>2. DiagnosisTyped /\ c \in Country /\ Read = query.entities
    BY <1>1, <2>1, QueryIs DEF DiagnosisInv, Read
  <2>3. \A e \in query.entities : loaded[e][c] # {}
    BY <1>1, <2>1, <2>2 DEF DiagnosisInv, ReadIsHeld
  <2>4. ASSUME StatesItsPeriod, HeldAtQuery(c) # {}
        PROVE  /\ \E d \in dates(c) : d <= query.filter.high
               /\ \E d \in dates(c) : query.filter.low <= d
    <3>0. PICK d \in HeldAtQuery(c) : TRUE
      BY <2>4
    <3>1. PICK f \in query.entities : d \in atQuery.loaded[f][c] \ {Null}
      BY DEF HeldAtQuery
    <3>2. range[c] # {}
      BY <1>1, <2>2, <3>1 DEF DiagnosisInv, RangeCovers
    <3>3. range[c] \in SUBSET Int /\ Min(range[c]) \in range[c] /\ Max(range[c]) \in range[c]
      BY <2>2, <3>2, RangeIsFinite, FiniteHasMin, FiniteHasMax
    <3>4. /\ Literals # {}
          /\ Max(Literals) = query.filter.high /\ Min(Literals) = query.filter.low
          /\ query.filter.low \in Int /\ query.filter.high \in Int
      BY <2>2, <2>4, BothBounds
    <3>5. ~(Max(Literals) < Min(range[c])) /\ ~(Min(Literals) > Max(range[c]))
      BY <1>1, <2>1, <3>2, <3>4 DEF OutOfRange
    <3>6. Min(range[c]) <= query.filter.high /\ query.filter.low <= Max(range[c])
      BY <3>3, <3>4, <3>5
    <3>7. \A x \in range[c] : x \in dates(c)
      <4>1. \A x \in range[c] : x # Null
        BY <2>2, ZeroDiagnosisAssumption DEF DiagnosisTyped
      <4>2. QED
        BY <1>1, <4>1 DEF DiagnosisInv, RangeIsHeld
    <3>8. QED
      BY <3>3, <3>6, <3>7
  <2>5. QED
    BY <2>3, <2>4
<1>2. DiagnosisInv => SilenceMeansLoaded
  BY <1>1 DEF SilenceMeansLoaded
<1>3. QED
  BY <1>2, DiagnosisGoesOn, PTL
=============================================================================
