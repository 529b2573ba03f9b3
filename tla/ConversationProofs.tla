------------------------ MODULE ConversationProofs ------------------------
(***************************************************************************)
(* What a conversation keeps, for any number of turns, any history window, *)
(* any number of attempts and any statements.                              *)
(*                                                                         *)
(* The code finds everything again from the history it is sent, so the     *)
(* invariant says what the history still tells: the countries of the turn  *)
(* before are those the conversation is about (CountriesAreKnown), and the *)
(* last turn that tells of a period tells of the one it is about, unless   *)
(* as many silent turns as the window holds came after (PeriodIsKnown).    *)
(* What is answered went through the rules for this very question          *)
(* (AnswerIsJudged).                                                       *)
(***************************************************************************)
EXTENDS Conversation, FiniteSetTheorems, SequenceTheorems, TLAPS

SqlPeriod == {ExtractPeriod(s) : s \in SqlWritten} \cup {NoPeriod}

PastTurn ==
  [changesPeriod : {question.changesPeriod : question \in Question}, period : SqlPeriod]

Request ==
  [question : Question, selection : (SUBSET Country) \ {{}}, countries : SUBSET Country]

Attempt == [no : Nat, outcome : Rejection \cup Gen!Sentinel \cup {Gen!Accepted}]

Call ==
  [status : {"idle", "calling", "returned", "abandoned"},
   inherited : SqlPeriod, attempts : Seq(Attempt), usage : Nat,
   exit : Gen!Exit \cup {"none"},
   outcome : Rejection \cup Gen!Sentinel \cup {"none", "FAILED_LLM_ERROR", "FAILED_INTERNAL_ERROR"},
   period : SqlPeriod]

HistoryTyped == history \in Seq(PastTurn) /\ Len(history) <= MaxHistory

StoryTyped == about \subseteq Country /\ held \in SqlPeriod /\ silent \in 0..MaxHistory

Typed ==
  /\ HistoryTyped
  /\ latest \in Latest \cup {NoRequest}
  /\ request \in Request \cup {NoRequest}
  /\ accepted \in SqlWritten \cup {NoRequest}
  /\ gen \in [{Turn} -> Call]
  /\ StoryTyped

CountriesAreKnown ==
  /\ latest = NoRequest => about = {}
  /\ latest # NoRequest =>
       /\ about # {} /\ about = latest.countries
       /\ ResolveCountryScope(latest.question, latest.countries, {}) = about
  /\ request # NoRequest => request.countries = Asked

Tells(turn) == turn.period # NoPeriod \/ turn.changesPeriod

(* The last turn of a history that tells of a period.                      *)
LastToTell(turns, k) ==
  /\ k \in DOMAIN turns /\ Tells(turns[k])
  /\ \A i \in DOMAIN turns : Tells(turns[i]) => i <= k

(* A history tells of this period, after so many silent turns.             *)
TellsOf(turns, period, quiet) ==
  \/ (\A i \in DOMAIN turns : ~Tells(turns[i])) /\ period = NoPeriod
  \/ \E k \in DOMAIN turns :
       /\ LastToTell(turns, k)
       /\ turns[k].period = period
       /\ period # NoPeriod => k = Len(turns) - quiet

PeriodIsKnown ==
  /\ TellsOf(history, held, silent)
  /\ request # NoRequest =>
       gen[Turn].inherited = IF request.question.changesPeriod THEN NoPeriod ELSE held

AnswerIsJudged ==
  /\ accepted # NoRequest <=> gen[Turn].exit = "result"
  /\ accepted # NoRequest =>
       /\ request # NoRequest
       /\ Validate(accepted, request.question, request.countries) = "valid"
       /\ gen[Turn].inherited # NoPeriod => PreservesPeriod(accepted, gen[Turn].inherited)

(* How a call ended agrees with its attempts.                              *)
Told(g) ==
  LET n == Len(g.attempts)
  IN  CASE g.exit = "result" -> g.attempts[n].outcome = Gen!Accepted
        [] g.exit \in {"clarification", "out_of_scope"} -> g.attempts[n].outcome = g.outcome
        [] g.exit = "failed" -> n = MaxAttempts /\ g.attempts[n].outcome = g.outcome
        [] OTHER -> n < MaxAttempts
                      /\ {g.attempts[i].outcome : i \in DOMAIN g.attempts} \subseteq Rejection

(* A call that goes on has been rejected each time.                        *)
CallOK(g) ==
  /\ g.status \in {"idle", "calling"} =>
       /\ Len(g.attempts) < MaxAttempts
       /\ \A i \in DOMAIN g.attempts : g.attempts[i].outcome \in Rejection
  /\ g.status # "returned" => g.exit = "none"
  /\ g.status = "returned" => Told(g)

IInv ==
  /\ Typed
  /\ CallOK(gen[Turn])
  /\ CountriesAreKnown
  /\ PeriodIsKnown
  /\ AnswerIsJudged
-----------------------------------------------------------------------------
(* Finite sets of numbers have a largest and a smallest member: induction  *)
(* over finite sets, as the absence of a smallest counterexample.          *)
LEMMA FiniteHasMax ==
  ASSUME NEW S \in SUBSET Int, IsFiniteSet(S), S # {}
  PROVE  Max(S) \in S /\ \A x \in S : Max(S) >= x
<1>. DEFINE HasMax(U) == \E m \in U : \A x \in U : m >= x
            Bad == {U \in FiniteSubsetsOf(Int) : U # {} /\ ~HasMax(U)}
            R == StrictSubsetOrdering(Int)
<1>1. Bad = {}
  <2>. SUFFICES ASSUME Bad # {} PROVE FALSE
    OBVIOUS
  <2>1. IsWellFoundedOn(R, FiniteSubsetsOf(Int))
    BY FS_StrictSubsetOrderingWellFounded
  <2>2. Bad \subseteq FiniteSubsetsOf(Int)
    OBVIOUS
  <2>3. \E U \in Bad : \A V \in Bad : <<V, U>> \notin R
    <3>. HIDE DEF Bad, R
    <3>1. QED
      BY <2>1, <2>2, WFMin
  <2>4. PICK U \in Bad : \A V \in Bad : <<V, U>> \notin R
    BY <2>3
  <2>5. PICK x \in U : TRUE
    OBVIOUS
  <2>6. U \in SUBSET Int /\ IsFiniteSet(U) /\ x \in Int
    BY <2>5 DEF FiniteSubsetsOf
  <2>. DEFINE V == U \ {x}
  <2>7. V \in SUBSET Int /\ IsFiniteSet(V) /\ V \subseteq U /\ V # U
    BY <2>5, <2>6, FS_RemoveElement
  <2>8. V \notin Bad
    BY <2>4, <2>6, <2>7 DEF StrictSubsetOrdering
  <2>9. V = {} \/ HasMax(V)
    BY <2>7, <2>8 DEF FiniteSubsetsOf
  <2>10. CASE V = {}
    BY <2>5, <2>6, <2>10
  <2>11. CASE HasMax(V)
    <3>1. PICK m \in V : \A y \in V : m >= y
      BY <2>11
    <3>2. m \in U /\ m \in Int
      BY <2>7, <3>1
    <3>3. CASE m >= x
      BY <2>6, <3>1, <3>2, <3>3
    <3>4. CASE x > m
      BY <2>5, <2>6, <3>1, <3>2, <3>4
    <3>5. QED
      BY <2>6, <3>2, <3>3, <3>4
  <2>12. QED
    BY <2>9, <2>10, <2>11
<1>2. HasMax(S)
  BY <1>1 DEF FiniteSubsetsOf
<1>3. QED
  BY <1>2 DEF Max

LEMMA FiniteHasMin ==
  ASSUME NEW S \in SUBSET Int, IsFiniteSet(S), S # {}
  PROVE  Min(S) \in S /\ \A x \in S : Min(S) <= x
<1>. DEFINE opposite == [x \in S |-> -x]
            T == {-x : x \in S}
<1>1. opposite \in Surjection(S, T)
  BY DEF Surjection
<1>2. IsFiniteSet(T) /\ T \in SUBSET Int /\ T # {}
  BY <1>1, FS_Surjection
<1>3. Max(T) \in T /\ \A y \in T : Max(T) >= y
  <2>. HIDE DEF T
  <2>1. QED
    BY <1>2, FiniteHasMax
<1>4. PICK x \in S : Max(T) = -x
  BY <1>3
<1>5. \A y \in S : x <= y
  <2>. SUFFICES ASSUME NEW y \in S PROVE x <= y
    OBVIOUS
  <2>1. -y \in T /\ x \in Int /\ y \in Int
    OBVIOUS
  <2>2. -x >= -y
    BY <1>3, <1>4, <2>1
  <2>3. QED
    BY <2>1, <2>2
<1>6. QED
  BY <1>5 DEF Min
-----------------------------------------------------------------------------
(* The rules.                                                              *)

(* What is let through breaks none of them.                                *)
LEMMA ValidBreaksNone ==
  ASSUME NEW s, NEW question, NEW countries, Validate(s, question, countries) = "valid"
  PROVE  /\ NoComputedMoney(s) = "valid"
         /\ RankingIntent(s, question) = "valid"
         /\ Relations(s) \cap CountryScopedViews # {} => CountryScope(s, countries) = "valid"
<1>. DEFINE checks == Checks(s, question, countries)
            broken == {i \in 1..8 : checks[i] # "valid"}
<1>1. DOMAIN checks = 1..8
  BY DEF Checks
<1>2. broken = {}
  <2>. SUFFICES ASSUME broken # {} PROVE FALSE
    OBVIOUS
  <2>1. broken \in SUBSET Int /\ IsFiniteSet(broken)
    <3>. HIDE DEF checks
    <3>1. broken \in SUBSET Nat /\ \A i \in broken : i <= 8
      OBVIOUS
    <3>2. QED
      <4>. HIDE DEF broken
      <4>1. QED
        BY <3>1, FS_BoundedSetOfNaturals
  <2>2. Min(broken) \in broken
    <3>. HIDE DEF broken
    <3>1. QED
      BY <2>1, FiniteHasMin
  <2>3. Validate(s, question, countries) = checks[Min(broken)]
    BY <1>1 DEF Validate
  <2>4. QED
    BY <2>2, <2>3
<1>3. checks[4] = "valid" /\ checks[7] = "valid" /\ checks[8] = "valid"
  BY <1>2
<1>4. /\ checks[4] = NoComputedMoney(s)
      /\ checks[7] = RankingIntent(s, question)
      /\ checks[8] = IF Relations(s) \cap CountryScopedViews # {}
                     THEN CountryScope(s, countries) ELSE "valid"
  BY DEF Checks
<1>5. QED
  BY <1>3, <1>4

(* A winner is answered from the totals, each currency with its own.       *)
LEMMA ValidRanksFairly ==
  ASSUME NEW s, NEW question, RankingIntent(s, question) = "valid"
  PROVE  /\ question.supplierTotal => Totals(s)
         /\ Totals(s) =>
              \/ PerCurrency(s) /\ s.ordered /\ EffectiveLimit(s) >= Cardinality(Currency)
              \/ /\ SingleCurrency(s) /\ question.currencies # {}
                 /\ question.singleWinner => EffectiveLimit(s) = 1
<1>1. question.supplierTotal => Totals(s)
  BY DEF RankingIntent
<1>2. ASSUME Totals(s)
      PROVE  SupplierTotals(s, question) = "valid" /\ WinnerLimit(s, question) = "valid"
  BY <1>2 DEF RankingIntent
<1>3. ASSUME Totals(s), PerCurrency(s)
      PROVE  s.ordered /\ EffectiveLimit(s) >= Cardinality(Currency)
  <2>1. s.ordered
    BY <1>2, <1>3 DEF SupplierTotals
  <2>2. EffectiveLimit(s) = MaxRows
    BY <1>3 DEF EffectiveLimit
  <2>3. Cardinality(Currency) <= MaxRows
    BY ConversationAssumption
  <2>4. QED
    BY <2>1, <2>2, <2>3, ConversationAssumption
<1>4. ASSUME Totals(s), ~PerCurrency(s)
      PROVE  /\ SingleCurrency(s) /\ question.currencies # {}
             /\ question.singleWinner => EffectiveLimit(s) = 1
  <2>1. SingleCurrency(s) /\ question.currencies # {}
    BY <1>2, <1>4 DEF SupplierTotals
  <2>2. ASSUME question.singleWinner PROVE EffectiveLimit(s) = 1
    <3>1. s.limit = 1
      BY <1>2, <1>4, <2>2 DEF WinnerLimit
    <3>2. Min({1, MaxRows}) = 1
      BY ConversationAssumption DEF Min
    <3>3. 1 # NoLimit
      BY ConversationAssumption
    <3>4. QED
      BY <1>4, <3>1, <3>2, <3>3 DEF EffectiveLimit
  <2>3. QED
    BY <2>1, <2>2
<1>5. QED
  BY <1>1, <1>3, <1>4

(* An amount that keeps its name is shown as it is stored.                 *)
LEMMA ValidShowsStored ==
  ASSUME NEW s, NoComputedMoney(s) = "valid", MoneyKeepsItsName(s), OperatesAsNamed(s)
  PROVE  ShowsStoredMoney(s)
<1>1. \A q \in {s.inner, s.outer} : \A c \in q.shows :
        c.of \in Money => c.ops \subseteq Picking
  <2>. SUFFICES ASSUME NEW q \in Selects(s), NEW c \in q.shows, c.of \in Money
                PROVE  c.ops \subseteq Picking
    BY DEF Selects
  <2>1. c.ops \cap Computing = {}
    BY DEF NoComputedMoney
  <2>2. c.ops \subseteq Computing \cup Picking
    BY DEF OperatesAsNamed
  <2>3. QED
    BY <2>1, <2>2
<1>2. MoneyWithin(s) \subseteq Money
  BY <1>1 DEF MoneyWithin, MoneyKeepsItsName
<1>3. QED
  BY <1>1, <1>2 DEF ShowsStoredMoney

(* Conditions that stand alone keep the rows of other countries out.       *)
LEMMA ValidReadsTheAsked ==
  ASSUME NEW s, NEW countries, NEW view \in CountryScopedViews, NEW row,
         Relations(s) \cap CountryScopedViews # {} => CountryScope(s, countries) = "valid",
         CountriesStandAlone(s), ~HidesAView(s),
         Reads(s, view, row)
  PROVE  row.country \in countries
<1>1. view \in Relations(s)
  BY DEF Reads, Relations, Views, HidesAView
<1>2. CountryScope(s, countries) = "valid"
  BY <1>1
<1>3. \A a \in CountryAtoms(s) : a.values \subseteq countries
  BY <1>2 DEF CountryScope
<1>4. ASSUME NEW q, NEW from, Keeps(q, from, view, row),
             NEW a \in CountryAtoms(s), {a} \in q.where, Bears(a, from, view),
             a.form = "literals"
      PROVE  row.country \in countries
  <2>1. a.on = "country" /\ Holds(a, row)
    BY <1>4 DEF Keeps, CountryAtoms
  <2>2. row.country \in a.values
    BY <1>4, <2>1 DEF Holds
  <2>3. QED
    BY <1>3, <1>4, <2>2
<1>5. CASE view \in s.outer.views /\ Keeps(s.outer, "views", view, row)
  <2>1. \E a \in CountryAtoms(s) :
          {a} \in s.outer.where /\ Bears(a, "views", view) /\ a.form = "literals"
    BY <1>5 DEF CountriesStandAlone
  <2>2. QED
    BY <1>4, <1>5, <2>1
<1>6. CASE /\ view \in s.inner.views
           /\ Keeps(s.inner, "views", view, row) /\ Keeps(s.outer, "inner", view, row)
  <2>1. \/ \E a \in CountryAtoms(s) :
             {a} \in s.inner.where /\ Bears(a, "views", view) /\ a.form = "literals"
        \/ \E a \in CountryAtoms(s) :
             {a} \in s.outer.where /\ Bears(a, "inner", view) /\ a.form = "literals"
    BY <1>6 DEF CountriesStandAlone
  <2>2. QED
    BY <1>4, <1>6, <2>1
<1>7. QED
  BY <1>5, <1>6 DEF Reads
-----------------------------------------------------------------------------
(* Periods.                                                                *)
Froms == {"views", "inner"}

LEMMA PeriodsAreFew == \A s : IsFiniteSet(PeriodsOf(s))
<1>. SUFFICES ASSUME NEW s PROVE IsFiniteSet(PeriodsOf(s))
  OBVIOUS
<1>. DEFINE Of(q, column) == {PeriodOf(q, column, "views"), PeriodOf(q, column, "inner")}
            In(q) == Of(q, "award_date") \cup Of(q, "publication_date")
            All == In(s.inner) \cup In(s.outer)
<1>1. \A x, y : IsFiniteSet({x, y})
  <2>. TAKE x, y
  <2>1. IsFiniteSet({x}) /\ {x, y} = {x} \cup {y}
    BY FS_Singleton
  <2>2. QED
    BY <2>1, FS_AddElement
<1>2. \A q : IsFiniteSet(In(q))
  BY <1>1, FS_Union
<1>3. IsFiniteSet(All)
  <2>. HIDE DEF In
  <2>1. QED
    BY <1>2, FS_Union
<1>4. PeriodsOf(s) \in SUBSET All
  BY DEF PeriodsOf, Selects, DateColumn
<1>5. QED
  <2>. HIDE DEF All
  <2>1. QED
    BY <1>3, <1>4, FS_Subset

(* A period is read off the bounds of its column.                          *)
LEMMA PeriodSaysItsColumn ==
  ASSUME NEW q, NEW column, NEW from, PeriodOf(q, column, from) # NoPeriod
  PROVE  PeriodOf(q, column, from).column = column
BY DEF PeriodOf

LEMMA ExtractedIsTheOnlyOne ==
  ASSUME NEW s, ExtractPeriod(s) # NoPeriod
  PROVE  PeriodsOf(s) = {ExtractPeriod(s)} /\ ExtractPeriod(s).column \in DateColumn
<1>1. Cardinality(PeriodsOf(s)) = 1 /\ ExtractPeriod(s) = CHOOSE p \in PeriodsOf(s) : TRUE
  BY DEF ExtractPeriod
<1>2. PICK x : PeriodsOf(s) = {x}
  BY <1>1, PeriodsAreFew, FS_Singleton
<1>3. ExtractPeriod(s) = x
  BY <1>1, <1>2
<1>4. PICK q \in Selects(s), column \in DateColumn, from \in Froms :
        x = PeriodOf(q, column, from) /\ x # NoPeriod
  BY <1>2 DEF PeriodsOf, Froms
<1>5. QED
  BY <1>2, <1>3, <1>4, PeriodSaysItsColumn

LEMMA SqlPeriodHasAColumn ==
  ASSUME NEW p \in SqlPeriod, p # NoPeriod PROVE p.column \in DateColumn
BY ExtractedIsTheOnlyOne DEF SqlPeriod

(* A follow-up that keeps the period says no other.                        *)
LEMMA KeptIsExtracted ==
  ASSUME NEW s, NEW p \in SqlPeriod, p # NoPeriod, PreservesPeriod(s, p),
         ExtractPeriod(s) # NoPeriod
  PROVE  ExtractPeriod(s) = p
<1>1. p.column \in DateColumn
  BY SqlPeriodHasAColumn
<1>2. \E q \in Selects(s), from \in Froms : PeriodOf(q, p.column, from) = p
  BY DEF PreservesPeriod, Selects, Froms
<1>3. p \in PeriodsOf(s)
  BY <1>1, <1>2 DEF PeriodsOf, Froms
<1>4. QED
  BY <1>3, ExtractedIsTheOnlyOne

(* The rows a SELECT keeps are within the period it says.                  *)
LEMMA KeptRowsAreWithin ==
  ASSUME NEW s \in SqlWritten, NEW q \in Selects(s), NEW from, NEW p, p # NoPeriod,
         PeriodOf(q, p.column, from) = p,
         NEW view, NEW row, row.column = p.column, row.date \in Int, Keeps(q, from, view, row)
  PROVE  p.start <= row.date /\ row.date < p.end
<1>. DEFINE bounds == {a \in UNION {c \in q.where : Cardinality(c) = 1} :
                         a.on = "date" /\ a.column = p.column /\ a.from = from}
            lows == {a.lo : a \in bounds} \ {NoLimit}
            highs == {a.hi : a \in bounds} \ {NoLimit}
<1>1. lows # {} /\ highs # {} /\ p.start = Max(lows) /\ p.end = Min(highs)
  <2>1. PeriodOf(q, p.column, from) =
          IF lows # {} /\ highs # {} /\ Max(lows) < Min(highs)
          THEN [column |-> p.column, start |-> Max(lows), end |-> Min(highs)]
          ELSE NoPeriod
    BY DEF PeriodOf
  <2>. HIDE DEF lows, highs
  <2>2. QED
    BY <2>1
<1>2. \A c \in q.where : IsFiniteSet(c) /\ \A a \in c : a.on = "date" =>
        {a.lo, a.hi} \subseteq Int \cup {NoLimit}
  BY StatementAssumption
<1>3. IsFiniteSet(q.where)
  BY StatementAssumption
<1>4. IsFiniteSet(bounds)
  <2>. DEFINE singles == {c \in q.where : Cardinality(c) = 1}
  <2>1. IsFiniteSet(singles) /\ \A c \in singles : IsFiniteSet(c)
    BY <1>2, <1>3, FS_Subset
  <2>2. IsFiniteSet(UNION singles)
    <3>. HIDE DEF singles
    <3>1. QED
      BY <2>1, FS_UNION
  <2>3. bounds \in SUBSET UNION singles
    OBVIOUS
  <2>4. QED
    <3>. HIDE DEF bounds, singles
    <3>1. QED
      BY <2>2, <2>3, FS_Subset
<1>5. IsFiniteSet(lows) /\ lows \in SUBSET Int
  <2>. DEFINE low == [a \in bounds |-> a.lo]
              T == {a.lo : a \in bounds}
  <2>1. low \in Surjection(bounds, T)
    BY DEF Surjection
  <2>2. IsFiniteSet(T)
    <3>. HIDE DEF low, T, bounds
    <3>1. QED
      BY <1>4, <2>1, FS_Surjection
  <2>3. lows \in SUBSET T /\ lows \in SUBSET Int
    BY <1>2
  <2>4. QED
    <3>. HIDE DEF T, lows
    <3>1. QED
      BY <2>2, <2>3, FS_Subset
<1>6. IsFiniteSet(highs) /\ highs \in SUBSET Int
  <2>. DEFINE high == [a \in bounds |-> a.hi]
              T == {a.hi : a \in bounds}
  <2>1. high \in Surjection(bounds, T)
    BY DEF Surjection
  <2>2. IsFiniteSet(T)
    <3>. HIDE DEF high, T, bounds
    <3>1. QED
      BY <1>4, <2>1, FS_Surjection
  <2>3. highs \in SUBSET T /\ highs \in SUBSET Int
    BY <1>2
  <2>4. QED
    <3>. HIDE DEF T, highs
    <3>1. QED
      BY <2>2, <2>3, FS_Subset
<1>7. p.start \in lows /\ p.end \in highs
  <2>. HIDE DEF lows, highs
  <2>1. QED
    BY <1>1, <1>5, <1>6, FiniteHasMax, FiniteHasMin
<1>8. ASSUME NEW a \in bounds
      PROVE  /\ a.lo = NoLimit \/ row.date >= a.lo
             /\ a.hi = NoLimit \/ row.date < a.hi
  <2>1. PICK c \in q.where : a \in c /\ Cardinality(c) = 1
    OBVIOUS
  <2>2. c = {a}
    <3>1. IsFiniteSet(c)
      BY <1>2, <2>1
    <3>2. QED
      BY <2>1, <3>1, FS_Singleton
  <2>3. a.on = "date" /\ a.column = p.column /\ a.from = from
    OBVIOUS
  <2>4. Holds(a, row)
    BY <2>1, <2>2, <2>3 DEF Keeps, Bears
  <2>5. QED
    BY <2>3, <2>4 DEF Holds
<1>9. p.start \in Int /\ p.end \in Int
  BY <1>5, <1>6, <1>7
<1>10. QED
  BY <1>7, <1>8, <1>9, ConversationAssumption

(* A statement that keeps the period reads its dates within it.            *)
LEMMA KeepingReadsWithin ==
  ASSUME NEW s \in SqlWritten, NEW p, p # NoPeriod, PreservesPeriod(s, p),
         NEW view \in DateViews(p.column),
         NEW row, row.column = p.column, row.date \in Int, Reads(s, view, row)
  PROVE  p.start <= row.date /\ row.date < p.end
<1>1. s.inner \in Selects(s) /\ s.outer \in Selects(s)
  BY DEF Selects
<1>2. CASE view \in s.outer.views /\ Keeps(s.outer, "views", view, row)
  <2>1. PeriodOf(s.outer, p.column, "views") = p
    BY <1>2 DEF PreservesPeriod, ReadsDates
  <2>2. QED
    BY <1>1, <1>2, <2>1, KeptRowsAreWithin
<1>3. CASE /\ view \in s.inner.views
           /\ Keeps(s.inner, "views", view, row) /\ Keeps(s.outer, "inner", view, row)
  <2>1. \/ PeriodOf(s.inner, p.column, "views") = p
        \/ PeriodOf(s.outer, p.column, "inner") = p
    BY <1>3 DEF PreservesPeriod, ReadsDates
  <2>2. QED
    BY <1>1, <1>3, <2>1, KeptRowsAreWithin
<1>4. QED
  BY <1>2, <1>3 DEF Reads
-----------------------------------------------------------------------------
(* The call of generate_validated_sql.                                     *)
LEMMA IdleIsOK == Gen!Idle \in Call /\ CallOK(Gen!Idle)
<1>1. Gen!Idle \in Call
  BY DEF Gen!Idle, Call, SqlPeriod
<1>2. CallOK(Gen!Idle)
  BY SqlGenerationAssumption DEF CallOK, Gen!Idle, Gen!SqlGenerationParameters
<1>3. QED
  BY <1>1, <1>2

(* A step of the call: what it was asked with stays, and it ends with a    *)
(* result or does not.                                                     *)
CallMoves(result) ==
  /\ gen' \in [{Turn} -> Call] /\ CallOK(gen'[Turn])
  /\ gen'[Turn].inherited = gen[Turn].inherited
  /\ gen[Turn].exit = "none"
  /\ gen'[Turn].exit = "result" <=> result

LEMMA CallMoved ==
  ASSUME NEW g \in Call, NEW result \in BOOLEAN, gen \in [{Turn} -> Call],
         gen' = [gen EXCEPT ![Turn] = g], CallOK(g), gen[Turn].exit = "none",
         g.inherited = gen[Turn].inherited, (g.exit = "result") <=> result
  PROVE  CallMoves(result)
<1>1. gen' \in [{Turn} -> Call] /\ gen'[Turn] = g
  OBVIOUS
<1>2. QED
  BY <1>1 DEF CallMoves

(* One more attempt, of a call that goes on.                               *)
LEMMA CompletedAddsOne ==
  ASSUME gen \in [{Turn} -> Call], CallOK(gen[Turn]), Gen!Calling(Turn),
         NEW outcome \in Rejection \cup Gen!Sentinel \cup {Gen!Accepted}
  PROVE  LET g == Gen!Completed(Turn, outcome)
             n == Len(gen[Turn].attempts)
         IN  /\ g \in Call /\ g.status = "calling" /\ g.exit = "none"
             /\ g.inherited = gen[Turn].inherited
             /\ n \in Nat /\ Len(g.attempts) = n + 1 /\ n + 1 \in 1..MaxAttempts
             /\ g.attempts[n + 1].outcome = outcome
             /\ \A i \in 1..n : g.attempts[i].outcome \in Rejection
             /\ gen[Turn].exit = "none"
<1>. DEFINE s == gen[Turn].attempts
            a == Gen!AttemptOf(Turn, outcome)
            n == Len(s)
<1>1. gen[Turn] \in Call /\ s \in Seq(Attempt) /\ n \in Nat
  BY DEF Call
<1>2. a \in Attempt /\ a.outcome = outcome
  BY <1>1 DEF Gen!AttemptOf, Gen!AttemptNo, Attempt
<1>3. /\ Append(s, a) \in Seq(Attempt) /\ Len(Append(s, a)) = n + 1
      /\ Append(s, a)[n + 1] = a /\ \A i \in 1..n : Append(s, a)[i] = s[i]
  <2>. HIDE DEF a, s
  <2>1. QED
    BY <1>1, <1>2
<1>4. /\ n < MaxAttempts /\ gen[Turn].exit = "none" /\ gen[Turn].status = "calling"
      /\ \A i \in 1..n : s[i].outcome \in Rejection
  BY <1>1 DEF CallOK, Gen!Calling
<1>5. LET g == Gen!Completed(Turn, outcome)
      IN  /\ g \in Call /\ g.status = "calling" /\ g.exit = "none"
          /\ g.inherited = gen[Turn].inherited /\ g.attempts = Append(s, a)
  <2>. DEFINE c == gen[Turn]
              t == Append(s, a)
              m == c.usage + 1
              g == [[c EXCEPT !.usage = m] EXCEPT !.attempts = t]
  <2>1. c \in Call /\ m \in Nat /\ t \in Seq(Attempt) /\ c.status = "calling" /\ c.exit = "none"
    BY <1>1, <1>3, <1>4 DEF Call
  <2>2. Gen!Completed(Turn, outcome) = g
    BY DEF Gen!Completed
  <2>3. /\ g \in Call /\ g.attempts = t /\ g.status = "calling" /\ g.exit = "none"
        /\ g.inherited = c.inherited
    <3>. HIDE DEF c, t, m
    <3>1. QED
      BY <2>1 DEF Call
  <2>4. QED
    BY <2>2, <2>3
<1>6. n + 1 \in 1..MaxAttempts
  BY <1>1, <1>4, ConversationAssumption
<1>7. QED
  <2>. HIDE DEF s, a
  <2>1. QED
    BY <1>1, <1>2, <1>3, <1>4, <1>5, <1>6 DEF s

(* What a call returns with.                                               *)
LEMMA Returning ==
  ASSUME NEW g \in Call, NEW exit \in Gen!Exit,
         NEW o \in Rejection \cup Gen!Sentinel
                     \cup {"none", "FAILED_LLM_ERROR", "FAILED_INTERNAL_ERROR"}
  PROVE  LET r == Gen!Return(Turn, exit, o, g)
         IN  /\ r \in Call /\ r.status = "returned" /\ r.exit = exit /\ r.outcome = o
             /\ r.attempts = g.attempts /\ r.inherited = g.inherited
BY DEF Gen!Return, Call

LEMMA Declines ==
  ASSUME gen \in [{Turn} -> Call], CallOK(gen[Turn]),
         NEW s \in Gen!Sentinel, Gen!Decline(Turn, s)
  PROVE  CallMoves(FALSE)
<1>. DEFINE exit == IF s = "OUT_OF_SCOPE" THEN "out_of_scope" ELSE "clarification"
            g == Gen!Completed(Turn, s)
            r == Gen!Return(Turn, exit, s, g)
<1>1. Gen!Calling(Turn) /\ gen' = [gen EXCEPT ![Turn] = r]
  BY DEF Gen!Decline
<1>2. /\ g \in Call /\ g.inherited = gen[Turn].inherited /\ gen[Turn].exit = "none"
      /\ g.attempts[Len(g.attempts)].outcome = s
  BY <1>1, CompletedAddsOne
<1>3. exit \in Gen!Exit /\ exit \in {"clarification", "out_of_scope"}
  BY DEF Gen!Exit
<1>4. /\ r \in Call /\ r.status = "returned" /\ r.exit = exit /\ r.outcome = s
      /\ r.attempts = g.attempts /\ r.inherited = g.inherited
  <2>. HIDE DEF g, exit
  <2>1. QED
    BY <1>2, <1>3, Returning
<1>5. CallOK(r) /\ (r.exit = "result" <=> FALSE)
  <2>. HIDE DEF g, exit, r
  <2>1. QED
    BY <1>2, <1>3, <1>4 DEF CallOK, Told
<1>6. QED
  <2>. HIDE DEF r
  <2>1. r.inherited = gen[Turn].inherited
    BY <1>2, <1>4
  <2>2. QED
    BY <1>1, <1>2, <1>4, <1>5, <2>1, CallMoved

LEMMA Rejects ==
  ASSUME gen \in [{Turn} -> Call], CallOK(gen[Turn]),
         NEW j, Gen!Verdict(Turn, j) \in Rejection, Gen!Reject(Turn, j)
  PROVE  CallMoves(FALSE)
<1>. DEFINE v == Gen!Verdict(Turn, j)
            g == Gen!Completed(Turn, v)
            r == Gen!Return(Turn, "failed", v, g)
            n == Len(gen[Turn].attempts)
<1>1. Gen!Calling(Turn)
  BY DEF Gen!Reject
<1>2. /\ g \in Call /\ g.status = "calling" /\ g.exit = "none"
      /\ g.inherited = gen[Turn].inherited /\ gen[Turn].exit = "none"
      /\ n \in Nat /\ Len(g.attempts) = n + 1 /\ n + 1 \in 1..MaxAttempts
      /\ g.attempts[n + 1].outcome = v
      /\ \A i \in 1..n : g.attempts[i].outcome \in Rejection
  BY <1>1, CompletedAddsOne
<1>3. CASE n + 1 = MaxAttempts
  <2>1. gen' = [gen EXCEPT ![Turn] = r]
    BY <1>3 DEF Gen!Reject, Gen!AttemptNo
  <2>2. "failed" \in Gen!Exit
    BY DEF Gen!Exit
  <2>3. /\ r \in Call /\ r.status = "returned" /\ r.exit = "failed" /\ r.outcome = v
        /\ r.attempts = g.attempts /\ r.inherited = g.inherited
    <3>. HIDE DEF g, v
    <3>1. QED
      BY <1>2, <2>2, Returning DEF v
  <2>4. CallOK(r) /\ (r.exit = "result" <=> FALSE) /\ r.inherited = gen[Turn].inherited
    <3>. HIDE DEF g, v, r
    <3>1. QED
      BY <1>2, <1>3, <2>3 DEF CallOK, Told
  <2>5. QED
    <3>. HIDE DEF r
    <3>1. QED
      BY <1>2, <2>1, <2>3, <2>4, CallMoved
<1>4. CASE n + 1 # MaxAttempts
  <2>1. gen' = [gen EXCEPT ![Turn] = g]
    BY <1>4 DEF Gen!Reject, Gen!AttemptNo
  <2>2. n + 1 < MaxAttempts
    BY <1>2, <1>4, ConversationAssumption
  <2>3. \A i \in DOMAIN g.attempts : g.attempts[i].outcome \in Rejection
    <3>. HIDE DEF g, v
    <3>1. g.attempts \in Seq(Attempt)
      BY <1>2 DEF Call
    <3>2. \A i \in DOMAIN g.attempts : i \in 1..n \/ i = n + 1
      BY <1>2, <3>1
    <3>3. QED
      BY <1>2, <3>2 DEF v
  <2>4. CallOK(g) /\ (g.exit = "result" <=> FALSE)
    <3>. HIDE DEF g
    <3>1. QED
      BY <1>2, <2>2, <2>3 DEF CallOK
  <2>5. QED
    <3>. HIDE DEF g
    <3>1. QED
      BY <1>2, <2>1, <2>4, CallMoved
<1>5. QED
  BY <1>3, <1>4

LEMMA Accepts ==
  ASSUME gen \in [{Turn} -> Call], CallOK(gen[Turn]),
         NEW j, j.period \in SqlPeriod, Gen!Accept(Turn, j)
  PROVE  CallMoves(TRUE)
<1>. DEFINE g == Gen!Completed(Turn, Gen!Accepted)
            r == Gen!Return(Turn, "result", "none", g)
            p == [r EXCEPT !.period = j.period]
<1>1. Gen!Calling(Turn) /\ gen' = [gen EXCEPT ![Turn] = p]
  BY DEF Gen!Accept
<1>2. /\ g \in Call /\ g.inherited = gen[Turn].inherited /\ gen[Turn].exit = "none"
      /\ g.attempts[Len(g.attempts)].outcome = Gen!Accepted
  BY <1>1, CompletedAddsOne
<1>3. "result" \in Gen!Exit
  BY DEF Gen!Exit
<1>4. /\ r \in Call /\ r.status = "returned" /\ r.exit = "result"
      /\ r.attempts = g.attempts /\ r.inherited = g.inherited
  <2>. HIDE DEF g
  <2>1. QED
    BY <1>2, <1>3, Returning
<1>5. /\ p \in Call /\ p.status = "returned" /\ p.exit = "result"
      /\ p.attempts = g.attempts /\ p.inherited = g.inherited
  <2>. HIDE DEF r, g
  <2>1. QED
    BY <1>4 DEF Call
<1>6. CallOK(p) /\ (p.exit = "result" <=> TRUE) /\ p.inherited = gen[Turn].inherited
  <2>. HIDE DEF p, g
  <2>1. QED
    BY <1>2, <1>5 DEF CallOK, Told
<1>7. QED
  <2>. HIDE DEF p
  <2>1. QED
    BY <1>1, <1>2, <1>5, <1>6, CallMoved

LEMMA Fails ==
  ASSUME gen \in [{Turn} -> Call], CallOK(gen[Turn]),
         Gen!ModelFails(Turn) \/ Gen!ModelRefuses(Turn) \/ Gen!Crash(Turn)
  PROVE  CallMoves(FALSE)
<1>1. Gen!Calling(Turn) /\ gen[Turn] \in Call
  BY DEF Gen!ModelFails, Gen!ModelRefuses, Gen!Crash
<1>2. PICK exit \in {"model_failed", "crash"},
           o \in {"FAILED_LLM_ERROR", "FAILED_INTERNAL_ERROR"} :
             gen' = [gen EXCEPT ![Turn] = Gen!Return(Turn, exit, o, gen[Turn])]
  BY DEF Gen!ModelFails, Gen!ModelRefuses, Gen!Crash
<1>. DEFINE r == Gen!Return(Turn, exit, o, gen[Turn])
<1>3. exit \in Gen!Exit
  BY DEF Gen!Exit
<1>4. /\ r \in Call /\ r.status = "returned" /\ r.exit = exit
      /\ r.attempts = gen[Turn].attempts /\ r.inherited = gen[Turn].inherited
  BY <1>1, <1>3, Returning
<1>5. gen[Turn].exit = "none" /\ Len(gen[Turn].attempts) < MaxAttempts
      /\ \A i \in DOMAIN gen[Turn].attempts : gen[Turn].attempts[i].outcome \in Rejection
  BY <1>1 DEF CallOK, Gen!Calling
<1>6. CallOK(r) /\ (r.exit = "result" <=> FALSE)
  <2>. HIDE DEF r
  <2>1. QED
    BY <1>4, <1>5 DEF CallOK, Told
<1>7. QED
  <2>. HIDE DEF r
  <2>1. QED
    BY <1>2, <1>4, <1>5, <1>6, CallMoved DEF r

LEMMA Abandons ==
  ASSUME gen \in [{Turn} -> Call], CallOK(gen[Turn]), Gen!Abandon(Turn)
  PROVE  CallMoves(FALSE)
<1>. DEFINE g == [gen[Turn] EXCEPT !.status = "abandoned"]
<1>1. gen[Turn] \in Call /\ gen[Turn].exit = "none"
  BY DEF Gen!Abandon, Gen!Calling, CallOK
<1>2. /\ g \in Call /\ g.status = "abandoned" /\ g.exit = "none"
      /\ g.inherited = gen[Turn].inherited
  BY <1>1 DEF Call
<1>3. CallOK(g) /\ (g.exit = "result" <=> FALSE)
  <2>. HIDE DEF g
  <2>1. QED
    BY <1>2 DEF CallOK
<1>4. gen' = [gen EXCEPT ![Turn] = g]
  BY DEF Gen!Abandon
<1>5. QED
  <2>. HIDE DEF g
  <2>1. QED
    BY <1>1, <1>2, <1>3, <1>4, CallMoved

LEMMA Begins ==
  ASSUME gen \in [{Turn} -> Call], CallOK(gen[Turn]),
         NEW inherited \in SqlPeriod, Gen!Begin(Turn, inherited)
  PROVE  /\ gen' \in [{Turn} -> Call] /\ CallOK(gen'[Turn])
         /\ gen'[Turn].inherited = inherited
         /\ gen[Turn].exit = "none" /\ gen'[Turn].exit = "none"
<1>. DEFINE g == [gen[Turn] EXCEPT !.status = "calling", !.inherited = inherited]
<1>1. gen[Turn] \in Call /\ gen[Turn].status = "idle"
  BY DEF Gen!Begin
<1>2. /\ g \in Call /\ g.status = "calling" /\ g.exit = gen[Turn].exit
      /\ g.inherited = inherited /\ g.attempts = gen[Turn].attempts
  BY <1>1 DEF Call
<1>3. gen' = [gen EXCEPT ![Turn] = g]
  BY <1>1 DEF Gen!Begin, Call
<1>4. gen' \in [{Turn} -> Call] /\ gen'[Turn] = g
  <2>. HIDE DEF g
  <2>1. QED
    BY <1>2, <1>3
<1>5. CallOK(g) /\ gen[Turn].exit = "none"
  <2>. HIDE DEF g
  <2>1. QED
    BY <1>1, <1>2 DEF CallOK
<1>6. QED
  BY <1>2, <1>4, <1>5
-----------------------------------------------------------------------------
(* The turns.                                                              *)
(* A client that asks again from the turn before finds its countries.      *)
LEMMA AskedIsResolved ==
  ASSUME Typed, CountriesAreKnown, NEW question \in Question,
         NEW selection \in (SUBSET Country) \ {{}}
  PROVE  LET countries == ResolveCountryScope(question, selection, PreviousCountries)
             named == IF question.allCountries THEN {} ELSE question.named
         IN  /\ countries = CASE named # {} /\ named \subseteq selection -> named
                              [] question.named = {} /\ ~question.allCountries
                                   /\ about # {} /\ about \subseteq selection -> about
                              [] OTHER -> selection
             /\ countries \in SUBSET Country /\ countries # {}
             /\ ResolveCountryScope(Names(question), countries, {}) = countries
<1>1. PreviousCountries = about
  BY DEF CountriesAreKnown, PreviousCountries
<1>2. about \subseteq Country /\ question.named \subseteq Country
  BY ConversationAssumption DEF Typed, StoryTyped
<1>. DEFINE named == IF question.allCountries THEN {} ELSE question.named
            countries == ResolveCountryScope(question, selection, PreviousCountries)
<1>3. countries = CASE named # {} /\ named \subseteq selection -> named
                    [] question.named = {} /\ ~question.allCountries
                         /\ about # {} /\ about \subseteq selection -> about
                    [] OTHER -> selection
  BY <1>1 DEF ResolveCountryScope
<1>4. countries \in SUBSET Country /\ countries # {}
  <2>1. named \subseteq Country
    BY <1>2
  <2>2. selection \subseteq Country /\ selection # {}
    OBVIOUS
  <2>3. \/ countries = selection
        \/ countries = about /\ about # {}
        \/ countries = named /\ named # {}
    <3>1. CASE question.allCountries
      BY <3>1 DEF ResolveCountryScope
    <3>2. CASE ~question.allCountries
      BY <1>1, <3>2 DEF ResolveCountryScope
    <3>3. QED
      BY <3>1, <3>2
  <2>4. QED
    BY <1>2, <2>1, <2>2, <2>3
<1>5. ResolveCountryScope(Names(question), countries, {}) = countries
  BY <1>3, <1>4 DEF ResolveCountryScope, Names
<1>6. QED
  BY <1>3, <1>4, <1>5

(* The period found in the history is the one it tells of.                 *)
LEMMA InheritedIsHeld ==
  ASSUME Typed, PeriodIsKnown, NEW question
  PROVE  InheritedPeriod(question) = IF question.changesPeriod THEN NoPeriod ELSE held
<1>. DEFINE telling == {i \in DOMAIN history :
                          history[i].period # NoPeriod \/ history[i].changesPeriod}
<1>1. CASE question.changesPeriod
  BY <1>1 DEF InheritedPeriod
<1>2. CASE ~question.changesPeriod /\ telling = {}
  <2>1. InheritedPeriod(question) = NoPeriod
    BY <1>2 DEF InheritedPeriod
  <2>2. held = NoPeriod
    BY <1>2 DEF PeriodIsKnown, TellsOf, LastToTell, Tells
  <2>3. QED
    BY <1>2, <2>1, <2>2
<1>3. CASE ~question.changesPeriod /\ telling # {}
  <2>1. InheritedPeriod(question) = history[Max(telling)].period
    BY <1>3 DEF InheritedPeriod
  <2>2. PICK k \in telling : (\A i \in telling : i <= k) /\ history[k].period = held
    BY <1>3 DEF PeriodIsKnown, TellsOf, LastToTell, Tells
  <2>3. telling \in SUBSET Int
    BY DEF Typed, HistoryTyped
  <2>4. Max(telling) = k
    <3>. HIDE DEF telling
    <3>1. \A x \in telling : (\A y \in telling : x >= y) <=> x = k
      BY <2>2, <2>3
    <3>2. QED
      BY <2>2, <3>1 DEF Max
  <2>5. QED
    BY <1>3, <2>1, <2>2, <2>4
<1>4. QED
  BY <1>1, <1>2, <1>3

LEMMA AskIsOK ==
  ASSUME IInv, NEW question \in Question, NEW selection \in (SUBSET Country) \ {{}},
         Ask(question, selection)
  PROVE  IInv'
<1>. DEFINE countries == ResolveCountryScope(question, selection, PreviousCountries)
            r == [question |-> question, selection |-> selection, countries |-> countries]
            inherited == InheritedPeriod(question)
<1>1. /\ request = NoRequest /\ request' = r /\ Gen!Begin(Turn, inherited)
      /\ UNCHANGED <<history, latest, accepted, about, held, silent>>
  BY DEF Ask, storyVars
<1>2. inherited = IF question.changesPeriod THEN NoPeriod ELSE held
  BY InheritedIsHeld DEF IInv
<1>3. inherited \in SqlPeriod
  BY <1>2 DEF IInv, Typed, StoryTyped, SqlPeriod
<1>4. /\ gen' \in [{Turn} -> Call] /\ CallOK(gen'[Turn])
      /\ gen'[Turn].inherited = inherited
      /\ gen[Turn].exit = "none" /\ gen'[Turn].exit = "none"
  <2>. HIDE DEF inherited
  <2>1. QED
    BY <1>1, <1>3, Begins DEF IInv, Typed
<1>5. /\ countries = CASE (IF question.allCountries THEN {} ELSE question.named) # {}
                          /\ (IF question.allCountries THEN {} ELSE question.named)
                               \subseteq selection ->
                            (IF question.allCountries THEN {} ELSE question.named)
                       [] question.named = {} /\ ~question.allCountries
                            /\ about # {} /\ about \subseteq selection -> about
                       [] OTHER -> selection
      /\ countries \in SUBSET Country
  BY AskedIsResolved DEF IInv
<1>. HIDE DEF countries, inherited
<1>6. r \in Request
  BY <1>5 DEF Request
<1>7. Typed'
  BY <1>1, <1>4, <1>6 DEF IInv, Typed, HistoryTyped, StoryTyped
<1>8. request'.countries = Asked'
  BY <1>1, <1>5 DEF Asked
<1>9. CountriesAreKnown'
  BY <1>1, <1>8 DEF IInv, CountriesAreKnown
<1>10. PeriodIsKnown'
  BY <1>1, <1>2, <1>4 DEF IInv, PeriodIsKnown
<1>11. AnswerIsJudged'
  BY <1>1, <1>4 DEF IInv, AnswerIsJudged
<1>12. QED
  BY <1>4, <1>7, <1>9, <1>10, <1>11 DEF IInv

(* An answer that the model gives, let through or not.                     *)
LEMMA AnsweringIsOK ==
  ASSUME IInv, NEW result \in BOOLEAN, CallMoves(result), request # NoRequest,
         UNCHANGED <<history, latest, request, about, held, silent>>,
         result => /\ accepted' \in SqlWritten
                   /\ Validate(accepted', request.question, request.countries) = "valid"
                   /\ gen[Turn].inherited # NoPeriod =>
                        PreservesPeriod(accepted', gen[Turn].inherited),
         ~result => accepted' = accepted
  PROVE  IInv'
<1>1. Typed'
  BY DEF IInv, Typed, HistoryTyped, StoryTyped, CallMoves
<1>2. CountriesAreKnown'
  BY DEF IInv, CountriesAreKnown, Asked
<1>3. PeriodIsKnown'
  BY DEF IInv, PeriodIsKnown, CallMoves
<1>4. accepted = NoRequest
  BY DEF IInv, AnswerIsJudged, CallMoves
<1>5. AnswerIsJudged'
  <2>1. CASE result
    <3>1. accepted' # NoRequest
      BY <2>1, ConversationAssumption
    <3>2. QED
      BY <2>1, <3>1 DEF AnswerIsJudged, CallMoves
  <2>2. CASE ~result
    BY <1>4, <2>2 DEF AnswerIsJudged, CallMoves
  <2>3. QED
    BY <2>1, <2>2
<1>6. QED
  BY <1>1, <1>2, <1>3, <1>5 DEF IInv, CallMoves

Verdicts == Rejection \cup {"valid"}

LEMMA ValidateType ==
  ASSUME NEW s, NEW question, NEW countries PROVE Validate(s, question, countries) \in Verdicts
<1>. DEFINE checks == Checks(s, question, countries)
            broken == {i \in 1..8 : checks[i] # "valid"}
<1>1. DOMAIN checks = 1..8
  BY DEF Checks
<1>2. \A i \in 1..8 : checks[i] \in Verdicts
  BY DEF Checks, Verdicts, Rejection, Form, RelationsAllowed, ForbiddenFunctions,
         NoComputedMoney, ItemAwardFanout, IndexedProcessSearch, RankingIntent,
         SupplierTotals, WinnerLimit, CountryScope
<1>3. Validate(s, question, countries) =
        IF broken = {} THEN "valid" ELSE checks[Min(broken)]
  BY <1>1 DEF Validate
<1>4. broken # {} => Min(broken) \in 1..8
  <2>. HIDE DEF checks
  <2>1. broken \in SUBSET Nat /\ \A i \in broken : i <= 8
    OBVIOUS
  <2>2. IsFiniteSet(broken) /\ broken \in SUBSET Int /\ broken \subseteq 1..8
    <3>1. IsFiniteSet(broken)
      <4>. HIDE DEF broken
      <4>1. QED
        BY <2>1, FS_BoundedSetOfNaturals
    <3>2. QED
      BY <3>1
  <2>. HIDE DEF broken
  <2>3. QED
    BY <2>2, FiniteHasMin
<1>5. QED
  <2>. HIDE DEF checks, broken
  <2>1. QED
    BY <1>2, <1>3, <1>4 DEF Verdicts

LEMMA OfferIsOK ==
  ASSUME IInv, NEW s \in SqlWritten, Offer(s) PROVE IInv'
<1>. DEFINE j == Judged(s)
            inherited == gen[Turn].inherited
<1>1. /\ j.verdict = Validate(s, request.question, request.countries)
      /\ j.period = IF inherited # NoPeriod /\ PreservesPeriod(s, inherited)
                    THEN inherited ELSE NoPeriod
  BY DEF Judged
<1>2. gen \in [{Turn} -> Call] /\ CallOK(gen[Turn]) /\ inherited \in SqlPeriod
  BY DEF IInv, Typed, Call
<1>3. /\ request # NoRequest
      /\ UNCHANGED <<history, latest, request, about, held, silent>>
      /\ (Gen!Reject(Turn, j) /\ UNCHANGED accepted) \/ (Gen!Accept(Turn, j) /\ accepted' = s)
  BY DEF Offer, storyVars
<1>. HIDE DEF j
<1>4. CASE Gen!Reject(Turn, j) /\ UNCHANGED accepted
  <2>1. Gen!Verdict(Turn, j) # Gen!Valid
    BY <1>4 DEF Gen!Reject
  <2>2. Gen!Verdict(Turn, j) \in Rejection
    BY <1>1, <2>1, ValidateType DEF Gen!Verdict, Gen!Valid, Verdicts, Rejection
  <2>3. CallMoves(FALSE)
    BY <1>2, <1>4, <2>2, Rejects
  <2>4. QED
    BY <1>3, <1>4, <2>3, AnsweringIsOK
<1>5. CASE Gen!Accept(Turn, j) /\ accepted' = s
  <2>1. Gen!Verdict(Turn, j) = Gen!Valid
    BY <1>5 DEF Gen!Accept
  <2>2. j.verdict = "valid" /\ inherited \in {NoPeriod, j.period}
    BY <2>1 DEF Gen!Verdict, Gen!Valid
  <2>3. inherited # NoPeriod => PreservesPeriod(s, inherited)
    BY <1>1, <2>2
  <2>4. j.period \in SqlPeriod
    BY <1>1, <1>2 DEF SqlPeriod
  <2>5. CallMoves(TRUE)
    BY <1>2, <1>5, <2>4, Accepts
  <2>6. QED
    BY <1>1, <1>3, <1>5, <2>2, <2>3, <2>5, AnsweringIsOK
<1>6. QED
  BY <1>3, <1>4, <1>5

LEMMA NoStatementIsOK ==
  ASSUME IInv, NoStatement PROVE IInv'
<1>1. gen \in [{Turn} -> Call] /\ CallOK(gen[Turn])
  BY DEF IInv, Typed
<1>2. /\ request # NoRequest /\ accepted' = accepted
      /\ UNCHANGED <<history, latest, request, about, held, silent>>
  BY DEF NoStatement, storyVars
<1>3. CallMoves(FALSE)
  BY <1>1, Declines, Fails, Abandons DEF NoStatement
<1>4. QED
  BY <1>2, <1>3, AnsweringIsOK

(* The locals of a run end with it.                                        *)
LEMMA EndingIsClean ==
  ASSUME gen \in [{Turn} -> Call], EndOfTurn
  PROVE  /\ gen' \in [{Turn} -> Call] /\ CallOK(gen'[Turn]) /\ gen'[Turn].exit = "none"
         /\ request' = NoRequest /\ accepted' = NoRequest
<1>1. gen' = [q \in {Turn} |-> Gen!Idle] /\ request' = NoRequest /\ accepted' = NoRequest
  BY DEF EndOfTurn
<1>2. gen' \in [{Turn} -> Call] /\ CallOK(gen'[Turn])
  <2>1. Gen!Idle \in Call /\ CallOK(Gen!Idle)
    BY IdleIsOK
  <2>2. QED
    BY <1>1, <2>1
<1>3. gen'[Turn].exit = "none"
  BY <1>1 DEF Gen!Idle
<1>4. QED
  BY <1>1, <1>2, <1>3

LEMMA GiveUpIsOK ==
  ASSUME IInv, GiveUp PROVE IInv'
<1>1. EndOfTurn /\ UNCHANGED <<history, latest, about, held, silent>>
  BY DEF GiveUp, storyVars
<1>2. /\ gen' \in [{Turn} -> Call] /\ CallOK(gen'[Turn]) /\ gen'[Turn].exit = "none"
      /\ request' = NoRequest /\ accepted' = NoRequest
  BY <1>1, EndingIsClean DEF IInv, Typed
<1>3. Typed'
  BY <1>1, <1>2 DEF IInv, Typed, HistoryTyped, StoryTyped
<1>4. QED
  BY <1>1, <1>2, <1>3 DEF IInv, CountriesAreKnown, PeriodIsKnown, AnswerIsJudged

(* What falls out of the window.                                           *)
Dropped(turns) == IF Len(turns) > MaxHistory THEN 1 ELSE 0

LEMMA RecentTurns ==
  ASSUME NEW turns \in Seq(PastTurn), Len(turns) <= MaxHistory + 1
  PROVE  /\ Recent(turns) \in Seq(PastTurn)
         /\ Len(Recent(turns)) = Len(turns) - Dropped(turns)
         /\ Len(Recent(turns)) <= MaxHistory
         /\ \A i \in 1..Len(Recent(turns)) : Recent(turns)[i] = turns[i + Dropped(turns)]
<1>1. Len(turns) \in Nat /\ MaxHistory \in Nat \ {0}
  BY ConversationAssumption
<1>2. CASE Len(turns) <= MaxHistory
  <2>1. Recent(turns) = turns /\ Dropped(turns) = 0
    BY <1>1, <1>2 DEF Recent, Dropped
  <2>2. QED
    BY <1>1, <1>2, <2>1
<1>3. CASE Len(turns) = MaxHistory + 1
  <2>1. Dropped(turns) = 1 /\ Recent(turns) = SubSeq(turns, 2, Len(turns))
    BY <1>1, <1>3 DEF Recent, Dropped
  <2>2. /\ SubSeq(turns, 2, Len(turns)) \in Seq(PastTurn)
        /\ Len(SubSeq(turns, 2, Len(turns))) = MaxHistory
        /\ \A i \in 1..MaxHistory : SubSeq(turns, 2, Len(turns))[i] = turns[2 + i - 1]
    BY <1>1, <1>3, SubSeqProperties
  <2>3. \A i \in 1..MaxHistory : 2 + i - 1 = i + 1
    BY <1>1
  <2>4. QED
    BY <1>1, <1>3, <2>1, <2>2, <2>3
<1>4. QED
  BY <1>1, <1>2, <1>3

(* A turn is added at the end, and the oldest may fall out.                *)
LEMMA HistoryGrows ==
  ASSUME HistoryTyped, NEW e \in PastTurn
  PROVE  LET recent == Recent(Append(history, e))
             d == Dropped(Append(history, e))
             n == Len(history) + 1 - d
         IN  /\ d \in {0, 1} /\ n \in 1..MaxHistory
             /\ d = 1 <=> Len(history) = MaxHistory
             /\ recent \in Seq(PastTurn) /\ Len(recent) = n /\ DOMAIN recent = 1..n
             /\ \A i \in 1..n :
                  \/ i = n /\ recent[i] = e
                  \/ i < n /\ i + d \in DOMAIN history /\ recent[i] = history[i + d]
             /\ recent[n] = e
<1>. DEFINE turns == Append(history, e)
            h == Len(history)
            d == Dropped(turns)
            recent == Recent(turns)
            n == h + 1 - d
<1>1. /\ history \in Seq(PastTurn) /\ DOMAIN history = 1..h
      /\ h \in Nat /\ h <= MaxHistory /\ MaxHistory \in Nat \ {0}
  BY ConversationAssumption DEF HistoryTyped
<1>2. /\ turns \in Seq(PastTurn) /\ Len(turns) = h + 1
      /\ turns[h + 1] = e /\ \A i \in 1..h : turns[i] = history[i]
  BY <1>1
<1>. HIDE DEF h, turns
<1>3. d = IF h + 1 > MaxHistory THEN 1 ELSE 0
  BY <1>2 DEF Dropped
<1>4. /\ recent \in Seq(PastTurn) /\ Len(recent) = Len(turns) - d
      /\ \A i \in 1..Len(recent) : recent[i] = turns[i + d]
  <2>1. Len(turns) <= MaxHistory + 1
    BY <1>1, <1>2
  <2>2. QED
    BY <1>2, <2>1, RecentTurns
<1>. HIDE DEF d, recent
<1>5. d \in {0, 1} /\ (d = 1 <=> h = MaxHistory) /\ n \in 1..MaxHistory
  BY <1>1, <1>3
<1>6. Len(recent) = n /\ DOMAIN recent = 1..n
  BY <1>1, <1>2, <1>4, <1>5
<1>7. ASSUME NEW i \in 1..n
      PROVE  \/ i = n /\ recent[i] = e
             \/ i < n /\ i + d \in DOMAIN history /\ recent[i] = history[i + d]
  <2>1. recent[i] = turns[i + d]
    BY <1>4, <1>6, <1>7
  <2>2. CASE i = n
    <3>1. i + d = h + 1
      BY <1>1, <1>5, <2>2
    <3>2. QED
      BY <1>2, <2>1, <2>2, <3>1
  <2>3. CASE i # n
    <3>1. i < n /\ i + d \in 1..h
      BY <1>1, <1>5, <1>7, <2>3
    <3>2. QED
      BY <1>1, <1>2, <2>1, <3>1
  <2>4. QED
    BY <2>2, <2>3
<1>8. recent[n] = e
  <2>1. n \in 1..n /\ ~(n < n)
    BY <1>1, <1>5
  <2>2. QED
    BY <1>7, <2>1
<1>9. QED
  BY <1>4, <1>5, <1>6, <1>7, <1>8 DEF turns, d, recent, h

(* A silent turn leaves what the history tells of, until it falls out.     *)
LEMMA SilentTurn ==
  ASSUME HistoryTyped, NEW e \in PastTurn, ~Tells(e)
  PROVE  LET recent == Recent(Append(history, e))
             d == Dropped(Append(history, e))
         IN  /\ (\A i \in DOMAIN history : ~Tells(history[i])) =>
                  \A i \in DOMAIN recent : ~Tells(recent[i])
             /\ \A k \in DOMAIN history : LastToTell(history, k) =>
                  IF k > d
                  THEN LastToTell(recent, k - d) /\ recent[k - d] = history[k]
                  ELSE \A i \in DOMAIN recent : ~Tells(recent[i])
<1>. DEFINE d == Dropped(Append(history, e))
            recent == Recent(Append(history, e))
            n == Len(history) + 1 - d
<1>1. /\ d \in {0, 1} /\ DOMAIN recent = 1..n
      /\ \A i \in 1..n :
           \/ i = n /\ recent[i] = e
           \/ i < n /\ i + d \in DOMAIN history /\ recent[i] = history[i + d]
  BY HistoryGrows
<1>2. DOMAIN history = 1..Len(history) /\ Len(history) \in Nat
  BY DEF HistoryTyped
<1>. HIDE DEF d, recent
<1>3. (\A i \in DOMAIN history : ~Tells(history[i])) => \A i \in DOMAIN recent : ~Tells(recent[i])
  BY <1>1
<1>4. ASSUME NEW k \in DOMAIN history, LastToTell(history, k)
      PROVE  IF k > d
             THEN LastToTell(recent, k - d) /\ recent[k - d] = history[k]
             ELSE \A i \in DOMAIN recent : ~Tells(recent[i])
  <2>1. \A i \in DOMAIN recent : Tells(recent[i]) => i + d <= k
    BY <1>1, <1>4 DEF LastToTell
  <2>2. CASE k > d
    <3>1. k - d \in 1..n /\ k - d + d = k /\ k - d # n
      BY <1>1, <1>2, <1>4, <2>2
    <3>2. recent[k - d] = history[k]
      BY <1>1, <3>1
    <3>3. \A i \in DOMAIN recent : Tells(recent[i]) => i <= k - d
      BY <1>1, <1>2, <1>4, <2>1
    <3>4. QED
      BY <1>1, <1>4, <2>2, <3>1, <3>2, <3>3 DEF LastToTell
  <2>3. CASE ~(k > d)
    <3>1. \A i \in DOMAIN recent : ~(i + d <= k)
      BY <1>1, <1>2, <1>4, <2>3
    <3>2. QED
      BY <2>1, <2>3, <3>1
  <2>4. QED
    BY <2>2, <2>3
<1>5. QED
  BY <1>3, <1>4 DEF d, recent

(* What was answered keeps the period that the conversation is about.      *)
LEMMA AnswerKeepsThePeriod ==
  ASSUME IInv, gen[Turn].exit = "result"
  PROVE  /\ accepted \in SqlWritten /\ request \in Request /\ request # NoRequest
         /\ ExtractPeriod(accepted) \in SqlPeriod
         /\ ~request.question.changesPeriod /\ held # NoPeriod =>
              ExtractPeriod(accepted) \in {NoPeriod, held}
<1>1. /\ accepted \in SqlWritten /\ request \in Request /\ request # NoRequest
      /\ gen[Turn].inherited # NoPeriod => PreservesPeriod(accepted, gen[Turn].inherited)
  BY DEF IInv, AnswerIsJudged, Typed
<1>2. ExtractPeriod(accepted) \in SqlPeriod
  BY <1>1 DEF SqlPeriod
<1>3. held \in SqlPeriod
  BY DEF IInv, Typed, StoryTyped
<1>4. ASSUME ~request.question.changesPeriod, held # NoPeriod
      PROVE  ExtractPeriod(accepted) \in {NoPeriod, held}
  <2>1. gen[Turn].inherited = held
    BY <1>1, <1>4 DEF IInv, PeriodIsKnown
  <2>2. PreservesPeriod(accepted, held)
    BY <1>1, <1>4, <2>1
  <2>3. QED
    BY <1>3, <1>4, <2>2, KeptIsExtracted
<1>5. QED
  BY <1>1, <1>2, <1>4

LEMMA AnsweredTellsOf ==
  ASSUME IInv, Answered
  PROVE  HistoryTyped' /\ held' \in SqlPeriod /\ silent' \in 0..MaxHistory
         /\ TellsOf(history', held', silent')
<1>. DEFINE rq == request.question
            p == ExtractPeriod(accepted)
            e == [changesPeriod |-> rq.changesPeriod, period |-> p]
            h == Len(history)
            d == Dropped(Append(history, e))
            n == h + 1 - d
<1>1. /\ gen[Turn].exit = "result"
      /\ history' = Recent(Append(history, e))
      /\ \/ /\ rq.changesPeriod \/ held \in {NoPeriod, p}
            /\ held' = p /\ silent' = 0
         \/ /\ ~rq.changesPeriod /\ held \notin {NoPeriod, p}
            /\ silent' = IF silent + 1 = MaxHistory THEN 0 ELSE silent + 1
            /\ held' = IF silent' = 0 THEN NoPeriod ELSE held
  BY DEF Answered
<1>2. /\ request \in Request /\ p \in SqlPeriod
      /\ ~rq.changesPeriod /\ held # NoPeriod => p \in {NoPeriod, held}
  BY <1>1, AnswerKeepsThePeriod
<1>3. e \in PastTurn
  BY <1>2 DEF PastTurn, Request
<1>4. /\ HistoryTyped /\ TellsOf(history, held, silent)
      /\ held \in SqlPeriod /\ silent \in 0..MaxHistory
  BY DEF IInv, Typed, StoryTyped, PeriodIsKnown
<1>5. /\ d \in {0, 1} /\ n \in 1..MaxHistory /\ (d = 1 <=> h = MaxHistory)
      /\ history' \in Seq(PastTurn) /\ Len(history') = n /\ DOMAIN history' = 1..n
      /\ \A i \in 1..n :
           \/ i = n /\ history'[i] = e
           \/ i < n /\ i + d \in DOMAIN history /\ history'[i] = history[i + d]
      /\ history'[n] = e
  <2>. HIDE DEF e
  <2>1. QED
    BY <1>1, <1>3, <1>4, HistoryGrows
<1>6. /\ MaxHistory \in Nat \ {0} /\ h \in Nat /\ h <= MaxHistory /\ DOMAIN history = 1..h
  BY <1>4, ConversationAssumption DEF HistoryTyped
<1>7. e.period = p /\ e.changesPeriod = rq.changesPeriod
  OBVIOUS
<1>8. Tells(e) <=> (p # NoPeriod \/ rq.changesPeriod)
  BY <1>7 DEF Tells
<1>9. NoPeriod \in SqlPeriod
  BY DEF SqlPeriod
<1>. HIDE DEF e, d, p, rq, h
<1>10. HistoryTyped'
  <2>1. n <= MaxHistory
    BY <1>5, <1>6
  <2>2. QED
    BY <1>5, <2>1 DEF HistoryTyped
<1>11. CASE Tells(e)
  <2>1. held' = p /\ silent' = 0
    BY <1>1, <1>2, <1>8, <1>11
  <2>2. LastToTell(history', n)
    <3>1. \A i \in 1..n : i <= n
      BY <1>5, <1>6
    <3>2. n \in 1..n
      BY <1>5, <1>6
    <3>3. QED
      BY <1>5, <1>11, <3>1, <3>2 DEF LastToTell
  <2>3. n = Len(history') - 0
    BY <1>5, <1>6
  <2>4. TellsOf(history', held', silent')
    BY <1>5, <1>7, <2>1, <2>2, <2>3 DEF TellsOf, LastToTell
  <2>5. silent' \in 0..MaxHistory
    BY <1>6, <2>1
  <2>6. QED
    BY <1>2, <1>10, <2>1, <2>4, <2>5
<1>12. CASE ~Tells(e)
  <2>1. p = NoPeriod /\ ~rq.changesPeriod
    BY <1>8, <1>12
  <2>2. /\ (\A i \in DOMAIN history : ~Tells(history[i])) =>
             \A i \in DOMAIN history' : ~Tells(history'[i])
        /\ \A k \in DOMAIN history : LastToTell(history, k) =>
             IF k > d
             THEN LastToTell(history', k - d) /\ history'[k - d] = history[k]
             ELSE \A i \in DOMAIN history' : ~Tells(history'[i])
    BY <1>1, <1>3, <1>4, <1>12, SilentTurn DEF d
  <2>3. CASE held = NoPeriod
    <3>1. held' = NoPeriod /\ silent' = 0
      BY <1>1, <2>1, <2>3
    <3>2. TellsOf(history', NoPeriod, 0)
      <4>1. CASE \A i \in DOMAIN history : ~Tells(history[i])
        BY <2>2, <4>1 DEF TellsOf
      <4>2. CASE \E k \in DOMAIN history : LastToTell(history, k) /\ history[k].period = held
        <5>1. PICK k \in DOMAIN history : LastToTell(history, k) /\ history[k].period = held
          BY <4>2
        <5>2. CASE k > d
          <6>1. LastToTell(history', k - d) /\ history'[k - d].period = NoPeriod
            BY <2>2, <2>3, <5>1, <5>2
          <6>2. QED
            BY <6>1 DEF TellsOf, LastToTell
        <5>3. CASE ~(k > d)
          BY <2>2, <5>1, <5>3 DEF TellsOf
        <5>4. QED
          BY <5>2, <5>3
      <4>3. QED
        BY <1>4, <4>1, <4>2 DEF TellsOf
    <3>3. QED
      BY <1>6, <1>10, <1>9, <3>1, <3>2
  <2>4. CASE held # NoPeriod
    <3>1. /\ silent' = IF silent + 1 = MaxHistory THEN 0 ELSE silent + 1
          /\ held' = IF silent' = 0 THEN NoPeriod ELSE held
      BY <1>1, <2>1, <2>4
    <3>2. PICK k \in DOMAIN history :
            LastToTell(history, k) /\ history[k].period = held /\ k = h - silent
      BY <1>4, <2>4 DEF TellsOf, h
    <3>3. k \in 1..h /\ silent \in Nat
      BY <1>4, <1>6, <3>2
    <3>4. CASE k > d
      <4>1. silent + 1 # MaxHistory
        BY <1>5, <1>6, <3>2, <3>3, <3>4
      <4>2. silent' = silent + 1 /\ held' = held
        BY <1>6, <3>1, <3>3, <4>1
      <4>3. k - d = n - (silent + 1)
        BY <1>5, <1>6, <3>2, <3>3
      <4>4. LastToTell(history', k - d) /\ history'[k - d].period = held
        BY <2>2, <3>2, <3>4
      <4>5. TellsOf(history', held', silent')
        BY <1>5, <4>2, <4>3, <4>4 DEF TellsOf, LastToTell
      <4>6. silent' \in 0..MaxHistory
        BY <1>4, <1>6, <3>2, <3>3, <4>2
      <4>7. QED
        BY <1>4, <1>10, <4>2, <4>5, <4>6
    <3>5. CASE ~(k > d)
      <4>1. silent + 1 = MaxHistory
        BY <1>5, <1>6, <3>2, <3>3, <3>5
      <4>2. silent' = 0 /\ held' = NoPeriod
        BY <3>1, <4>1
      <4>3. TellsOf(history', held', silent')
        BY <2>2, <3>2, <3>5, <4>2 DEF TellsOf
      <4>4. QED
        BY <1>6, <1>10, <1>9, <4>2, <4>3
    <3>6. QED
      BY <3>4, <3>5
  <2>5. QED
    BY <2>3, <2>4
<1>13. QED
  BY <1>11, <1>12

LEMMA AnsweredIsOK ==
  ASSUME IInv, Answered PROVE IInv'
<1>1. /\ gen[Turn].exit = "result" /\ EndOfTurn /\ about' = Asked
      /\ latest' = [question |-> Names(request.question), countries |-> request.countries]
  BY DEF Answered
<1>2. /\ HistoryTyped' /\ held' \in SqlPeriod /\ silent' \in 0..MaxHistory
      /\ TellsOf(history', held', silent')
  BY AnsweredTellsOf
<1>3. /\ gen' \in [{Turn} -> Call] /\ CallOK(gen'[Turn]) /\ gen'[Turn].exit = "none"
      /\ request' = NoRequest /\ accepted' = NoRequest
  BY <1>1, EndingIsClean DEF IInv, Typed
<1>4. request \in Request /\ request # NoRequest
  BY <1>1, AnswerKeepsThePeriod
<1>5. request.countries = Asked
  BY <1>4 DEF IInv, CountriesAreKnown
<1>6. request.question \in Question /\ request.selection \in (SUBSET Country) \ {{}}
  BY <1>4 DEF Request
<1>7. /\ Asked \in SUBSET Country /\ Asked # {}
      /\ ResolveCountryScope(Names(request.question), Asked, {}) = Asked
  <2>. DEFINE question == request.question
              selection == request.selection
              countries == ResolveCountryScope(question, selection, PreviousCountries)
  <2>1. /\ countries = CASE (IF question.allCountries THEN {} ELSE question.named) # {}
                            /\ (IF question.allCountries THEN {} ELSE question.named)
                                 \subseteq selection ->
                              (IF question.allCountries THEN {} ELSE question.named)
                         [] question.named = {} /\ ~question.allCountries
                              /\ about # {} /\ about \subseteq selection -> about
                         [] OTHER -> selection
        /\ countries \in SUBSET Country /\ countries # {}
        /\ ResolveCountryScope(Names(question), countries, {}) = countries
    BY <1>6, AskedIsResolved DEF IInv
  <2>. HIDE DEF countries
  <2>2. Asked = countries
    BY <2>1 DEF Asked
  <2>3. QED
    BY <2>1, <2>2
<1>8. latest' \in Latest /\ latest' # NoRequest
  BY <1>1, <1>5, <1>6, <1>7, ConversationAssumption DEF Latest
<1>9. Typed'
  BY <1>1, <1>2, <1>3, <1>7, <1>8 DEF Typed, StoryTyped
<1>10. CountriesAreKnown'
  BY <1>1, <1>3, <1>5, <1>7, <1>8 DEF CountriesAreKnown
<1>11. PeriodIsKnown'
  BY <1>2, <1>3 DEF PeriodIsKnown
<1>12. AnswerIsJudged'
  BY <1>3 DEF AnswerIsJudged
<1>13. QED
  BY <1>3, <1>9, <1>10, <1>11, <1>12 DEF IInv
-----------------------------------------------------------------------------
LEMMA InitIsOK == Init => IInv
<1>. SUFFICES ASSUME Init PROVE IInv
  OBVIOUS
<1>1. gen = [q \in {Turn} |-> Gen!Idle] /\ gen[Turn] = Gen!Idle
  BY DEF Init, Gen!Init
<1>2. gen \in [{Turn} -> Call] /\ CallOK(gen[Turn]) /\ gen[Turn].exit = "none"
  BY <1>1, IdleIsOK DEF Gen!Idle
<1>3. Typed
  BY <1>2, ConversationAssumption
  DEF Init, Typed, HistoryTyped, StoryTyped, SqlPeriod
<1>4. QED
  BY <1>2, <1>3
  DEF Init, IInv, CountriesAreKnown, PeriodIsKnown, TellsOf, AnswerIsJudged

(* The inductive invariant.                                                *)
THEOREM Inductive == Spec => []IInv
<1>1. Init => IInv
  BY InitIsOK
<1>2. IInv /\ [Next]_vars => IInv'
  <2>. SUFFICES ASSUME IInv, [Next]_vars PROVE IInv'
    OBVIOUS
  <2>1. ASSUME NEW question \in Question, NEW selection \in (SUBSET Country) \ {{}},
               Ask(question, selection)
        PROVE  IInv'
    BY <2>1, AskIsOK
  <2>2. ASSUME NEW s \in SqlWritten, Offer(s) PROVE IInv'
    BY <2>2, OfferIsOK
  <2>3. CASE NoStatement
    BY <2>3, NoStatementIsOK
  <2>4. CASE GiveUp
    BY <2>4, GiveUpIsOK
  <2>5. CASE Answered
    BY <2>5, AnsweredIsOK
  <2>6. CASE UNCHANGED vars
    <3>1. UNCHANGED <<history, latest, request, accepted, gen, about, held, silent>>
      BY <2>6 DEF vars, genVars, storyVars
    <3>2. Typed'
      BY <3>1 DEF IInv, Typed, HistoryTyped, StoryTyped
    <3>3. CountriesAreKnown'
      BY <3>1 DEF IInv, CountriesAreKnown, Asked
    <3>4. QED
      BY <3>1, <3>2, <3>3 DEF IInv, PeriodIsKnown, AnswerIsJudged
  <2>7. QED
    BY <2>1, <2>2, <2>3, <2>4, <2>5, <2>6 DEF Next
<1>3. QED
  BY <1>1, <1>2, PTL DEF Spec

(* How a turn ends agrees with its attempts, for any number of attempts:   *)
(* the exception that run_query catches and the attempts that it audits    *)
(* tell the same story.                                                    *)
THEOREM TurnsEndAsTheyWent == Spec => []ExitTellsTheAttempts
<1>1. IInv => ExitTellsTheAttempts
  BY DEF IInv, CallOK, Told, ExitTellsTheAttempts, Gen!ExitTellsTheAttempts, Gen!Outcomes
<1>2. QED
  BY <1>1, Inductive, PTL

(* Whatever the model writes and whatever is asked, a statement about the  *)
(* total of a supplier that is let through, with no OFFSET and no CTE      *)
(* named like the totals, ranks each currency by itself, with no LIMIT     *)
(* that hides one, or one currency when the question names some.           *)
THEOREM CurrenciesAreNotMixed == Spec => []OneWinnerPerCurrency
<1>1. IInv => OneWinnerPerCurrency
  <2>. SUFFICES ASSUME IInv, accepted # NoRequest, ~HidesAView(accepted)
                PROVE  LET readsTotals == "v_supplier_award_totals" \in Views(accepted) IN
                       /\ request.question.supplierTotal => readsTotals
                       /\ readsTotals =>
                            \/ /\ PerCurrency(accepted) /\ accepted.ordered
                               /\ EffectiveLimit(accepted) >= Cardinality(Currency)
                            \/ /\ SingleCurrency(accepted) /\ request.question.currencies # {}
                               /\ request.question.singleWinner => EffectiveLimit(accepted) = 1
    BY DEF OneWinnerPerCurrency, Answering
  <2>1. Validate(accepted, request.question, request.countries) = "valid"
    BY DEF IInv, AnswerIsJudged
  <2>2. RankingIntent(accepted, request.question) = "valid"
    BY <2>1, ValidBreaksNone
  <2>3. Totals(accepted) <=> "v_supplier_award_totals" \in Views(accepted)
    BY DEF Totals, Relations, HidesAView
  <2>4. QED
    BY <2>2, <2>3, ValidRanksFairly
<1>2. QED
  BY <1>1, Inductive, PTL

(* A follow-up that does not change the period is answered within the one  *)
(* the conversation is about, as long as a turn of the window says it, and *)
(* a period that was left behind never comes back.                         *)
THEOREM FollowUpsKeepThePeriod == Spec => []ConversationKeepsItsPeriod
<1>1. IInv => ConversationKeepsItsPeriod
  <2>. SUFFICES ASSUME IInv, request # NoRequest, ~request.question.changesPeriod
                PROVE  /\ gen[Turn].inherited = held
                       /\ Answering /\ held # NoPeriod =>
                            \A view \in DateViews(held.column), country \in Country, day \in Date :
                              Reads(accepted, view,
                                    [country |-> country, column |-> held.column, date |-> day])
                                => held.start <= day /\ day < held.end
    BY DEF ConversationKeepsItsPeriod
  <2>1. gen[Turn].inherited = held
    BY DEF IInv, PeriodIsKnown
  <2>2. ASSUME Answering, held # NoPeriod, NEW view \in DateViews(held.column),
               NEW country \in Country, NEW day \in Date,
               Reads(accepted, view,
                     [country |-> country, column |-> held.column, date |-> day])
        PROVE  held.start <= day /\ day < held.end
    <3>. DEFINE row == [country |-> country, column |-> held.column, date |-> day]
    <3>1. accepted \in SqlWritten /\ PreservesPeriod(accepted, held)
      BY <2>1, <2>2 DEF Answering, IInv, Typed, AnswerIsJudged
    <3>2. row.column = held.column /\ row.date = day /\ day \in Int
      BY ConversationAssumption
    <3>3. QED
      BY <2>2, <3>1, <3>2, KeepingReadsWithin
  <2>3. QED
    BY <2>1, <2>2
<1>2. QED
  BY <1>1, Inductive, PTL

(* If no inner SELECT gives an amount another name, no statement that is   *)
(* let through shows an amount that is in no row because of an operation   *)
(* that the rules name: they look for the names of the columns alone.      *)
THEOREM StoredMoneyIsShown ==
  ASSUME \A s \in SqlWritten : MoneyKeepsItsName(s)
  PROVE  Spec => []AmountsAreStored
<1>1. IInv => AmountsAreStored
  <2>. SUFFICES ASSUME IInv, accepted # NoRequest, OperatesAsNamed(accepted)
                PROVE  ShowsStoredMoney(accepted)
    BY DEF AmountsAreStored, Answering
  <2>1. /\ accepted \in SqlWritten
        /\ Validate(accepted, request.question, request.countries) = "valid"
    BY DEF IInv, Typed, AnswerIsJudged
  <2>2. NoComputedMoney(accepted) = "valid"
    BY <2>1, ValidBreaksNone
  <2>3. QED
    BY <2>1, <2>2, ValidShowsStored
<1>2. QED
  BY <1>1, Inductive, PTL

(* The model is told of the countries the question is about, over any      *)
(* number of turns; and a statement that is let through reads no row of    *)
(* another one, if it compares the country of each view that has one with  *)
(* literals and hides none of its views behind a CTE.                      *)
THEOREM OnlyTheAskedIsRead == Spec => []AnswersOnlyTheAsked
<1>1. IInv => AnswersOnlyTheAsked
  <2>. SUFFICES ASSUME IInv PROVE AnswersOnlyTheAsked
    OBVIOUS
  <2>1. request # NoRequest => request.countries = Asked
    BY DEF IInv, CountriesAreKnown
  <2>2. ASSUME Answering, CountriesStandAlone(accepted), ~HidesAView(accepted),
               NEW view \in CountryScopedViews, NEW country \in Country \ Asked,
               NEW column \in DateColumn, NEW day \in Date,
               Reads(accepted, view, [country |-> country, column |-> column, date |-> day])
        PROVE  FALSE
    <3>1. /\ accepted \in SqlWritten /\ request # NoRequest
          /\ Validate(accepted, request.question, request.countries) = "valid"
      BY <2>2 DEF Answering, IInv, Typed, AnswerIsJudged
    <3>2. Relations(accepted) \cap CountryScopedViews # {} =>
            CountryScope(accepted, request.countries) = "valid"
      BY <3>1, ValidBreaksNone
    <3>3. [country |-> country, column |-> column, date |-> day].country \in request.countries
      BY <2>2, <3>2, ValidReadsTheAsked
    <3>4. QED
      BY <2>1, <2>2, <3>1, <3>3
  <2>3. QED
    BY <2>1, <2>2 DEF AnswersOnlyTheAsked
<1>2. QED
  BY <1>1, Inductive, PTL
=============================================================================
