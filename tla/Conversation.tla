---------------------------- MODULE Conversation ----------------------------
(***************************************************************************)
(* A conversation: questions asked one after the other, each with the      *)
(* turns before it.  nlq/pipeline.py:run_query finds the countries the     *)
(* question is about, nlq/sql_generation.py the period it inherits, and    *)
(* the SQL of the model goes through the rules (ValidatorRules) within the *)
(* attempts of SqlGeneration.                                              *)
(*                                                                         *)
(* The service keeps nothing between two turns: the client sends the       *)
(* history.  A client (no code of src/) is taken to add the turns that     *)
(* were answered, with the countries_filter of the answer.  Of a turn are  *)
(* kept the period in its SQL and whether it changed the period, of the    *)
(* latest also its countries; the rest only goes to the prompt.            *)
(***************************************************************************)
EXTENDS ValidatorRules

CONSTANTS
  Question,        \* what may be asked
  SqlWritten,      \* what the model may answer
  Date,            \* days
  Currency,
  MaxHistory,      \* turns in a request
  MaxAttempts,
  NoRequest

Names(question) == [named |-> question.named, allCountries |-> question.allCountries]

Latest == [question : {Names(question) : question \in Question}, countries : SUBSET Country]

ASSUME ConversationAssumption ==
  /\ MaxHistory \in Nat \ {0} /\ MaxAttempts \in Nat \ {0}
  /\ MaxRows \in Nat \ {0} /\ Cardinality(Currency) <= MaxRows
  /\ Date \subseteq Int /\ IsFiniteSet(Date)
  /\ \A question \in Question : question.named \subseteq Country
  /\ NoLimit \notin Int /\ NoRequest \notin SqlWritten \cup Latest

(* SQL is finite, and a bound on a date is a day or missing.               *)
ASSUME StatementAssumption ==
  \A s \in SqlWritten : \A q \in Selects(s) :
    /\ IsFiniteSet(q.where)
    /\ \A c \in q.where :
         /\ IsFiniteSet(c)
         /\ \A a \in c : a.on = "date" => {a.lo, a.hi} \subseteq Int \cup {NoLimit}

(* A date is of one view: no SELECT reads two that have the same dates.    *)
ASSUME DatesAssumption ==
  \A s \in SqlWritten : \A q \in Selects(s) : \A column \in DateColumn :
    Cardinality(q.views \cap DateViews(column)) <= 1

VARIABLES
  history,     \* the turns the client has, oldest first
  latest,      \* what the last of them asked for
  request,     \* the question being answered
  accepted,    \* the SQL it is answered with
  gen, billed, \* SqlGeneration
  about,       \* history: the countries the conversation is about
  held,        \* history: the period the conversation is about
  silent       \* history: turns since one whose SQL had that period alone

genVars == <<gen, billed>>
storyVars == <<about, held, silent>>
vars == <<history, latest, request, accepted, genVars, storyVars>>

Turn == "turn"

Day == Date \cup {Max(Date) + 1}

Period ==
  {p \in [column : DateColumn, start : Day, end : Day] : p.start < p.end}

Rejection ==
  {"REJECTED_SQL_PARSE", "REJECTED_SQL_NOT_SELECT", "REJECTED_SQL_RELATION",
   "REJECTED_SQL_FUNCTION", "REJECTED_SQL_COST", "REJECTED_SQL_COUNTRY_SCOPE"}

Gen == INSTANCE SqlGeneration WITH Query <- {Turn}

ASSUME SqlGenerationAssumption == Gen!SqlGenerationParameters

(* The countries of the turn before, found again from what it was asked.   *)
PreviousCountries ==
  IF latest = NoRequest THEN {}
  ELSE ResolveCountryScope(latest.question, latest.countries, {})

(* A slip: a turn that left the period behind does not stop the search.    *)
InheritedPeriodAnywhere(question) ==
  LET dated == {i \in DOMAIN history : history[i].period # NoPeriod}
  IN  IF question.changesPeriod \/ dated = {} THEN NoPeriod ELSE history[Max(dated)].period

(* _inherited_period: the latest period in the history, unless a turn      *)
(* after it, or the question, changed it.                                  *)
InheritedPeriod(question) ==
  LET telling == {i \in DOMAIN history :
                    history[i].period # NoPeriod \/ history[i].changesPeriod}
  IN  IF question.changesPeriod \/ telling = {} THEN NoPeriod
      ELSE history[Max(telling)].period

(* What a person who has followed the conversation takes a question to be  *)
(* about: what it names, or what the conversation is about already.        *)
Asked ==
  LET question == request.question
      selection == request.selection
      named == IF question.allCountries THEN {} ELSE question.named
  IN  CASE named # {} /\ named \subseteq selection -> named
        [] question.named = {} /\ ~question.allCountries
             /\ about # {} /\ about \subseteq selection -> about
        [] OTHER -> selection

Init ==
  /\ history = <<>> /\ latest = NoRequest
  /\ request = NoRequest
  /\ accepted = NoRequest
  /\ Gen!Init
  /\ about = {} /\ held = NoPeriod /\ silent = 0

(* Countries and period are found before the model is called.              *)
Ask(question, selection) ==
  /\ request = NoRequest
  /\ request' = [question |-> question, selection |-> selection,
                 countries |-> ResolveCountryScope(question, selection, PreviousCountries)]
  /\ Gen!Begin(Turn, InheritedPeriod(question))
  /\ UNCHANGED <<history, latest, accepted, storyVars>>

(* What generate_validated_sql makes of a statement.                       *)
Judged(s) ==
  LET inherited == gen[Turn].inherited
  IN  [verdict |-> Validate(s, request.question, request.countries),
       period |-> IF inherited # NoPeriod /\ PreservesPeriod(s, inherited)
                  THEN inherited ELSE NoPeriod]

Offer(s) ==
  /\ request # NoRequest
  /\ \/ Gen!Reject(Turn, Judged(s)) /\ UNCHANGED accepted
     \/ Gen!Accept(Turn, Judged(s)) /\ accepted' = s
  /\ UNCHANGED <<history, latest, request, storyVars>>

NoStatement ==
  /\ request # NoRequest
  /\ \/ \E sentinel \in Gen!Sentinel : Gen!Decline(Turn, sentinel)
     \/ Gen!ModelFails(Turn) \/ Gen!ModelRefuses(Turn) \/ Gen!Crash(Turn)
     \/ Gen!Abandon(Turn)
  /\ UNCHANGED <<history, latest, request, accepted, storyVars>>

(* The locals of a run end with it.                                        *)
EndOfTurn ==
  /\ request' = NoRequest
  /\ accepted' = NoRequest
  /\ gen' = [gen EXCEPT ![Turn] = Gen!Idle]
  /\ billed' = [billed EXCEPT ![Turn] = 0]

GiveUp ==
  /\ gen[Turn].status = "abandoned" \/ gen[Turn].exit \notin {"none", "result"}
  /\ EndOfTurn
  /\ UNCHANGED <<history, latest, storyVars>>

Recent(turns) ==
  IF Len(turns) > MaxHistory THEN SubSeq(turns, Len(turns) - MaxHistory + 1, Len(turns)) ELSE turns

(* The client shows the answer and adds it to the conversation.            *)
Answered ==
  /\ gen[Turn].exit = "result"
  /\ LET period == ExtractPeriod(accepted)
     IN  /\ history' = Recent(Append(history,
                [changesPeriod |-> request.question.changesPeriod, period |-> period]))
         /\ \/ /\ request.question.changesPeriod \/ held \in {NoPeriod, period}
               /\ held' = period /\ silent' = 0
            \/ /\ ~request.question.changesPeriod /\ held \notin {NoPeriod, period}
               /\ silent' = IF silent + 1 = MaxHistory THEN 0 ELSE silent + 1
               /\ held' = IF silent' = 0 THEN NoPeriod ELSE held
  /\ latest' = [question |-> Names(request.question), countries |-> request.countries]
  /\ about' = Asked
  /\ EndOfTurn

Next ==
  \/ \E question \in Question, selection \in (SUBSET Country) \ {{}} : Ask(question, selection)
  \/ \E s \in SqlWritten : Offer(s)
  \/ NoStatement \/ GiveUp \/ Answered

Spec == Init /\ [][Next]_vars
-----------------------------------------------------------------------------
Answering == accepted # NoRequest

(* What the rules do not see.  A view with the name of the CTE is none to  *)
(* them; _check_country_scope asks for a condition on the country of some  *)
(* view, whatever the others are restricted to.                            *)
HidesAView(s) == s.cte \in Views(s)

CountriesStandAlone(s) ==
  LET Alone(q, from, view) ==
        \E a \in CountryAtoms(s) :
          {a} \in q.where /\ Bears(a, from, view) /\ a.form = "literals"
  IN  /\ \A view \in s.outer.views \cap CountryScopedViews : Alone(s.outer, "views", view)
      /\ \A view \in s.inner.views \cap CountryScopedViews :
           Alone(s.inner, "views", view) \/ Alone(s.outer, "inner", view)

(* "el modelo nunca decide por su cuenta que paises son validos": over any *)
(* number of turns, the model is told of the countries the question is     *)
(* about; and a statement that is let through, if it compares the country  *)
(* of each view that has one with literals and hides none of its views,    *)
(* reads no row of a country the question is not about.                    *)
AnswersOnlyTheAsked ==
  /\ request # NoRequest => request.countries = Asked
  /\ Answering /\ CountriesStandAlone(accepted) /\ ~HidesAView(accepted) =>
       \A view \in CountryScopedViews, country \in Country \ Asked, column \in DateColumn :
         \A day \in Date :
           ~Reads(accepted, view, [country |-> country, column |-> column, date |-> day])

(* "Keep a conversation's date filter when a follow-up does not change     *)
(* it": as long as a turn of the history says the period, the next one     *)
(* inherits it, and its statement reads dated rows within it alone; and a  *)
(* period that was left behind does not come back.                         *)
ConversationKeepsItsPeriod ==
  request # NoRequest /\ ~request.question.changesPeriod =>
    /\ gen[Turn].inherited = held
    /\ Answering /\ held # NoPeriod =>
         \A view \in DateViews(held.column), country \in Country, day \in Date :
           Reads(accepted, view, [country |-> country, column |-> held.column, date |-> day])
             => held.start <= day /\ day < held.end

(* The rules know what these operations do to an amount; they let any     *)
(* other (round, stddev, %, a minus sign) pass.                            *)
OperatesAsNamed(s) ==
  \A q \in Selects(s) : \A c \in q.shows : c.ops \subseteq Computing \cup Picking

(* "los montos se muestran tal cual estan guardados ... sin sumar, restar, *)
(* multiplicar ni dividir": no statement that is let through shows an      *)
(* amount that is in no row because of an operation that the rules name,   *)
(* in whichever SELECT it is and whatever else stands around the amount.   *)
AmountsAreStored == Answering /\ OperatesAsNamed(accepted) => ShowsStoredMoney(accepted)

(* What that rests on, since the rules go by the names of columns: an      *)
(* amount that the inner SELECT shows as it is keeps a name of an amount.  *)
MoneyKeepsItsName(s) ==
  \A c \in s.inner.shows : c.ops \subseteq Picking /\ c.of \in Money => c.as \in Money

(* "No compares acumulados de monedas distintas": the total of a supplier  *)
(* is answered from the totals, with the winner of each currency, none of  *)
(* which a LIMIT may hide, or in one currency if the question names some   *)
(* currency (the rules do not compare the two), with one row for one       *)
(* winner.  An OFFSET, which no rule looks at, may still skip a winner,    *)
(* and a CTE hide the totals.                                              *)
OneWinnerPerCurrency ==
  Answering /\ ~HidesAView(accepted) /\ accepted.offset = 0 =>
    LET s == accepted
        question == request.question
        readsTotals == "v_supplier_award_totals" \in Views(s)
    IN  /\ question.supplierTotal => readsTotals
        /\ readsTotals =>
             \/ PerCurrency(s) /\ s.ordered /\ EffectiveLimit(s) >= Cardinality(Currency)
             \/ /\ SingleCurrency(s) /\ question.currencies # {}
                /\ question.singleWinner => EffectiveLimit(s) = 1

(* How a turn of the conversation ends agrees with its attempts.           *)
ExitTellsTheAttempts == Gen!ExitTellsTheAttempts
=============================================================================
