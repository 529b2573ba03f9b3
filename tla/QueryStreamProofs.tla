------------------------- MODULE QueryStreamProofs -------------------------
(***************************************************************************)
(* What a stream of run_query says, records and pays, for any number of    *)
(* requests and of attempts, any budget and any calendar.                  *)
(*                                                                         *)
(* None of it is inductive by itself: that done comes after the audit says *)
(* nothing of where the rows were said, and that an answer is paid nothing *)
(* of what had been paid when it was decided.  The invariant follows a run *)
(* from place to place (RunOK): at each await it knows the calls made, the *)
(* amounts paid, the words said and the outcome it is heading for, and     *)
(* once the run is with the audit it ties the record to them.              *)
(***************************************************************************)
EXTENDS QueryStream, SequenceTheorems, TLAPS

Ending == Gen!Sentinel \cup Rejection \cup {Gen!Accepted}

Attempt == [no : Nat, outcome : Ending]

Said ==
  [event : {"sql", "row_count", "rows", "warnings", "narrative", "error", "done"},
   outcome : Outcome \cup {"none"}]

Call ==
  [status : {"idle", "calling", "returned", "abandoned"},
   inherited : Period \cup {NoPeriod}, attempts : Seq(Attempt), usage : Nat,
   exit : Gen!Exit \cup {"none"}, outcome : Outcome \cup {"none"},
   period : Period \cup {NoPeriod}]

Shape == {"none", "zero", "zeroAggregate", "some"}

GenTyped == gen \in [Query -> Call] /\ billed \in [Query -> Nat]

PlaceTyped ==
  /\ pc \in [Query -> Place]
  /\ outcome \in [Query -> Outcome \cup {"none"}]
  /\ shape \in [Query -> Shape]
  /\ events \in [Query -> Seq(Said)]

Typed == Acct!TypeOK /\ GenTyped /\ Nar!TypeOK /\ Log!TypeOK /\ PlaceTyped

-----------------------------------------------------------------------------
(* How a call ended agrees with its attempts.                              *)
ExitTold(attempts, exit, o) ==
  LET n == Len(attempts)
  IN  /\ exit \in {"clarification", "out_of_scope", "failed"} => attempts[n].outcome = o
      /\ exit = "failed" => n = SqlMaxAttempts
      /\ exit \in {"model_failed", "crash"} =>
           n < SqlMaxAttempts /\ \A i \in 1..n : attempts[i].outcome \in Rejection

(* A call that goes on has been rejected each time; a result was accepted, *)
(* and any other exit is no answer.                                        *)
CallOK(g) ==
  LET n == Len(g.attempts)
  IN  /\ g.usage = n /\ n <= SqlMaxAttempts
      /\ \A i \in 1..n : g.attempts[i].no = i
      /\ \A i \in 1..n : i < n => g.attempts[i].outcome \in Rejection
      /\ g.status \in {"idle", "calling"} =>
           /\ n < SqlMaxAttempts /\ g.exit = "none"
           /\ \A i \in 1..n : g.attempts[i].outcome \in Rejection
      /\ g.status = "idle" => n = 0
      /\ g.status = "returned" => g.exit # "none" /\ ExitTold(g.attempts, g.exit, g.outcome)
      /\ g.exit = "result" => n > 0 /\ g.attempts[n].outcome = Gen!Accepted
      /\ g.exit \notin {"none", "result"} =>
           g.outcome \notin Answered \cup {"none", "THROTTLED_BUDGET"}

NarrationOK(n) ==
  /\ n.status = "idle" => n.usage = 0
  /\ n.status \in {"idle", "writing"} => n.usage <= n.attempt - 1

Early == {"new", "budget", "generating", "accounting", "executing"}

Decorated == {"diagnosing", "narrating", "accounting_narrative"}

(* Which of its calls a run has made, by where it is.                      *)
CallsMade(q) ==
  /\ pc[q] \in {"new", "budget"} => gen[q].status = "idle" /\ billed[q] = 0
  /\ pc[q] = "generating" => gen[q].status = "calling"
  /\ pc[q] = "accounting" => gen[q].status = "returned" /\ gen[q].exit # "crash"
  /\ pc[q] \in Decorated \cup {"executing"} =>
       gen[q].status = "returned" /\ gen[q].exit = "result"
  /\ pc[q] \in Early \cup {"diagnosing"} => nar[q].status = "idle"
  /\ pc[q] = "narrating" => nar[q].status = "writing"
  /\ pc[q] = "accounting_narrative" => nar[q].status = "returned"

Paid(q, day, month) == paid[q]["DAY"] = day /\ paid[q]["MONTH"] = month

(* What it has paid for them.                                              *)
MoneyPaid(q) ==
  LET u == gen[q].usage
      v == nar[q].usage
  IN  /\ pc[q] = "new" => step[q] = "idle"
      /\ pc[q] = "budget" <=> step[q] \in {"readDay", "readMonth"}
      /\ pc[q] \in {"new", "budget", "generating"} => Paid(q, 0, 0)
      /\ pc[q] \in {"generating", "executing", "diagnosing", "narrating"} => step[q] = "admitted"
      /\ pc[q] = "accounting" =>
           \/ step[q] = "admitted" /\ Paid(q, 0, 0)
           \/ step[q] = "payMonth" /\ owed[q] = u /\ Paid(q, u, 0)
      /\ pc[q] \in {"executing", "diagnosing", "narrating"} => Paid(q, u, u)
      /\ pc[q] = "accounting_narrative" =>
           \/ step[q] = "admitted" /\ Paid(q, u, u)
           \/ step[q] = "payMonth" /\ owed[q] = v /\ Paid(q, u + v, u)
      /\ (pc[q] \in {"auditing", "returned"} /\ outcome[q] \in Answered) =>
           Paid(q, u + v, u + v)

(* A run that was refused has done nothing else.                           *)
BlockedIsIdle(q) ==
  step[q] = "blocked" =>
    /\ pc[q] \in {"auditing", "returned", "cancelled"}
    /\ gen[q].status = "idle" /\ billed[q] = 0
    /\ "sql" \notin Names(q)
    /\ outcome[q] = "THROTTLED_BUDGET"

Heading(q) ==
  /\ pc[q] \in Early => outcome[q] = "none" /\ shape[q] = "none"
  /\ pc[q] \in Decorated =>
       /\ shape[q] # "none"
       /\ outcome[q] = IF shape[q] = "zero" THEN "OK_ZERO_ROWS" ELSE "OK"
  /\ pc[q] \in {"auditing", "returned"} => outcome[q] # "none"
  /\ shape[q] # "none" => outcome[q] # "none"

(* What the record tells was attempted is paid, unless a charge failed.    *)
PaidUp(q) ==
  IF step[q] = "failed" THEN outcome[q] \in DatabaseFailure
  ELSE /\ paid[q]["DAY"] >= Len(entry[q].attempts)
       /\ paid[q]["MONTH"] >= Len(entry[q].attempts)

(* The record, once there is one, is that of this run.                     *)
RecordOK(q) ==
  /\ pc[q] \in Early \cup Decorated => reply[q] = "idle"
  /\ pc[q] = "auditing" => reply[q] = "pending"
  /\ pc[q] = "returned" => reply[q] \in {"written", "failed"}
  /\ reply[q] = "idle" => log[q] = Null
  /\ log[q] \in {Null, entry[q]}
  /\ reply[q] = "written" => log[q] # Null
  /\ reply[q] # "idle" =>
       /\ entry[q].outcome = outcome[q]
       /\ PaidUp(q)
       /\ gen[q].exit # "crash" => entry[q].attempts = AuditAttempts(q)
       /\ gen[q].status \in {"idle", "returned"}
       /\ outcome[q] \in Answered =>
            /\ gen[q].status = "returned" /\ gen[q].exit = "result"
            /\ entry[q].rows = shape[q]
            /\ outcome[q] = "OK_ZERO_ROWS" <=> shape[q] = "zero"
       /\ outcome[q] \notin Answered => entry[q].rows = Null

(* What may have been said before the last words.                          *)
SaidSql == <<Event("sql")>>
SaidRows == SaidSql \o RowEvents
SaidWarned == SaidRows \o <<Event("warnings")>>
Narrated == {SaidRows \o <<Event("narrative")>>, SaidWarned \o <<Event("narrative")>>}
Told == {<<>>, SaidSql, SaidRows, SaidWarned} \cup Narrated

WordsSaid(q) ==
  /\ pc[q] \in Early \ {"executing"} => events[q] = <<>>
  /\ pc[q] = "executing" => events[q] = SaidSql
  /\ pc[q] = "diagnosing" => events[q] = SaidRows
  /\ pc[q] \in {"narrating", "accounting_narrative"} => events[q] \in {SaidRows, SaidWarned}
  /\ pc[q] \in {"auditing", "cancelled"} => events[q] \in Told
  /\ pc[q] = "returned" => \E t \in Told : events[q] = t \o LastWords(outcome[q])
  /\ "narrative" \in Names(q) => (outcome[q] = "OK" => nar[q].verified)

RunOK(q) ==
  /\ CallOK(gen[q]) /\ NarrationOK(nar[q])
  /\ CallsMade(q) /\ MoneyPaid(q) /\ BlockedIsIdle(q)
  /\ Heading(q) /\ RecordOK(q) /\ WordsSaid(q)

(* The reader is never ahead of the run, and only a client that left has   *)
(* its run cancelled.                                                      *)
ReaderOK(q) ==
  /\ taken[q] \in 0..Len(events[q])
  /\ reader[q] = "closed" => pc[q] = "returned" /\ taken[q] = Len(events[q])
  /\ pc[q] = "cancelled" => reader[q] = "gone"

ReaderTyped ==
  /\ taken \in [Query -> Nat]
  /\ reader \in [Query -> {"get", "send", "closed", "cancelling", "gone", "dropped"}]

RunInv == Typed /\ \A q \in Query : RunOK(q)

IInv == RunInv /\ ReaderTyped /\ \A q \in Query : ReaderOK(q)
-----------------------------------------------------------------------------
(* The words of a run.                                                     *)
NamesOf(es) == {es[i].event : i \in DOMAIN es}

InOrder(es) == \A i, j \in DOMAIN es : i < j => Rank(es[i].event) < Rank(es[j].event)

RowsAreWhole(es) ==
  /\ "rows" \in NamesOf(es) <=> {"sql", "row_count"} \subseteq NamesOf(es)
  /\ {"warnings", "narrative"} \cap NamesOf(es) # {} => "rows" \in NamesOf(es)

Closing(o) == IF o \in Answered THEN {"done"} ELSE {"error", "done"}

LEMMA Ranks ==
  /\ Rank("sql") = 1 /\ Rank("row_count") = 2 /\ Rank("rows") = 3 /\ Rank("warnings") = 4
  /\ Rank("narrative") = 5 /\ Rank("error") = 6 /\ Rank("done") = 7
BY DEF Rank, Order

(* What each telling names, with and without the last words.               *)
LEMMA NamesTold ==
  /\ NamesOf(<<>>) = {}
  /\ NamesOf(SaidSql) = {"sql"}
  /\ NamesOf(SaidRows) = {"sql", "row_count", "rows"}
  /\ NamesOf(SaidWarned) = {"sql", "row_count", "rows", "warnings"}
  /\ NamesOf(SaidRows \o <<Event("narrative")>>) = {"sql", "row_count", "rows", "narrative"}
  /\ NamesOf(SaidWarned \o <<Event("narrative")>>) =
       {"sql", "row_count", "rows", "warnings", "narrative"}
<1>1. NamesOf(<<>>) = {}
  BY DEF NamesOf
<1>2. NamesOf(SaidSql) = {"sql"}
  BY DEF NamesOf, SaidSql, Event
<1>3. NamesOf(SaidRows) = {"sql", "row_count", "rows"}
  BY DEF NamesOf, SaidRows, SaidSql, RowEvents, Event
<1>4. NamesOf(SaidWarned) = {"sql", "row_count", "rows", "warnings"}
  BY DEF NamesOf, SaidWarned, SaidRows, SaidSql, RowEvents, Event
<1>5. NamesOf(SaidRows \o <<Event("narrative")>>) = {"sql", "row_count", "rows", "narrative"}
  BY DEF NamesOf, SaidRows, SaidSql, RowEvents, Event
<1>6. NamesOf(SaidWarned \o <<Event("narrative")>>) =
        {"sql", "row_count", "rows", "warnings", "narrative"}
  BY DEF NamesOf, SaidWarned, SaidRows, SaidSql, RowEvents, Event
<1>7. QED
  BY <1>1, <1>2, <1>3, <1>4, <1>5, <1>6

LEMMA NamesOfRows ==
  /\ NamesOf(SaidRows) = {"sql", "row_count", "rows"}
  /\ NamesOf(SaidWarned) = {"sql", "row_count", "rows", "warnings"}
BY NamesTold

LEMMA TellingsAreOrdered == \A t \in Told : InOrder(t)
<1>1. InOrder(<<>>) /\ InOrder(SaidSql)
  BY Ranks DEF InOrder, SaidSql, Event
<1>2. InOrder(SaidRows)
  BY Ranks DEF InOrder, SaidRows, SaidSql, RowEvents, Event
<1>3. InOrder(SaidWarned)
  BY Ranks DEF InOrder, SaidWarned, SaidRows, SaidSql, RowEvents, Event
<1>4. InOrder(SaidRows \o <<Event("narrative")>>)
  BY Ranks DEF InOrder, SaidRows, SaidSql, RowEvents, Event
<1>5. InOrder(SaidWarned \o <<Event("narrative")>>)
  BY Ranks DEF InOrder, SaidWarned, SaidRows, SaidSql, RowEvents, Event
<1>6. QED
  BY <1>1, <1>2, <1>3, <1>4, <1>5 DEF Told, Narrated

LEMMA EndedTellingsAreOrdered ==
  ASSUME NEW o PROVE \A t \in Told : InOrder(t \o LastWords(o))
<1>1. InOrder(<<>> \o LastWords(o))
  BY Ranks DEF InOrder, LastWords, Event
<1>2. InOrder(SaidSql \o LastWords(o))
  BY Ranks DEF InOrder, SaidSql, LastWords, Event
<1>3. InOrder(SaidRows \o LastWords(o))
  BY Ranks DEF InOrder, SaidRows, SaidSql, RowEvents, LastWords, Event
<1>4. InOrder(SaidWarned \o LastWords(o))
  BY Ranks DEF InOrder, SaidWarned, SaidRows, SaidSql, RowEvents, LastWords, Event
<1>5. InOrder((SaidRows \o <<Event("narrative")>>) \o LastWords(o))
  BY Ranks DEF InOrder, SaidRows, SaidSql, RowEvents, LastWords, Event
<1>6. InOrder((SaidWarned \o <<Event("narrative")>>) \o LastWords(o))
  BY Ranks DEF InOrder, SaidWarned, SaidRows, SaidSql, RowEvents, LastWords, Event
<1>7. QED
  BY <1>1, <1>2, <1>3, <1>4, <1>5, <1>6 DEF Told, Narrated

LEMMA EventIsSaid ==
  ASSUME NEW name \in {"sql", "row_count", "rows", "warnings", "narrative"}
  PROVE  Event(name) \in Said
BY DEF Event, Said

LEMMA ToldIsSaid == \A t \in Told : t \in Seq(Said)
<1>1. SaidSql \in Seq(Said) /\ RowEvents \in Seq(Said)
      /\ <<Event("warnings")>> \in Seq(Said) /\ <<Event("narrative")>> \in Seq(Said)
  BY EventIsSaid DEF SaidSql, RowEvents
<1>2. SaidRows \in Seq(Said)
  BY <1>1 DEF SaidRows
<1>3. SaidWarned \in Seq(Said)
  BY <1>1, <1>2 DEF SaidWarned
<1>4. SaidRows \o <<Event("narrative")>> \in Seq(Said)
      /\ SaidWarned \o <<Event("narrative")>> \in Seq(Said)
  BY <1>1, <1>2, <1>3
<1>5. QED
  <2>1. <<>> \in Seq(Said)
    OBVIOUS
  <2>2. QED
    BY <1>1, <1>2, <1>3, <1>4, <2>1, Zenon DEF Told, Narrated

LEMMA LastWordsSaid ==
  ASSUME NEW o \in Outcome
  PROVE  /\ LastWords(o) \in Seq(Said)
         /\ LastWords(o) # <<>>
         /\ LastWords(o)[Len(LastWords(o))] = [event |-> "done", outcome |-> o]
         /\ NamesOf(LastWords(o)) = Closing(o)
<1>1. CASE o \in Answered
  <2>1. LastWords(o) = <<[event |-> "done", outcome |-> o]>>
    BY <1>1 DEF LastWords
  <2>2. QED
    BY <1>1, <2>1 DEF Said, NamesOf, Closing
<1>2. CASE o \notin Answered
  <2>1. LastWords(o) = <<[event |-> "error", outcome |-> o]>> \o <<[event |-> "done", outcome |-> o]>>
    BY <1>2 DEF LastWords
  <2>2. QED
    BY <1>2, <2>1 DEF Said, NamesOf, Closing
<1>3. QED
  BY <1>1, <1>2

(* Words added are words named.                                            *)
LEMMA NamesAdd ==
  ASSUME NEW s \in Seq(Said), NEW t \in Seq(Said)
  PROVE  /\ NamesOf(s \o t) = NamesOf(s) \cup NamesOf(t)
         /\ t # <<>> => (s \o t)[Len(s \o t)] = t[Len(t)]
<1>1. /\ s \o t \in Seq(Said) /\ Len(s \o t) = Len(s) + Len(t)
      /\ \A i \in 1..Len(s) : (s \o t)[i] = s[i]
      /\ \A i \in 1..Len(t) : (s \o t)[Len(s) + i] = t[i]
  OBVIOUS
<1>2. ASSUME NEW i \in DOMAIN (s \o t)
      PROVE  (s \o t)[i].event \in NamesOf(s) \cup NamesOf(t)
  <2>1. CASE i <= Len(s)
    BY <1>1, <1>2, <2>1 DEF NamesOf
  <2>2. CASE i > Len(s)
    <3>1. i - Len(s) \in 1..Len(t) /\ Len(s) + (i - Len(s)) = i
      BY <1>1, <1>2, <2>2
    <3>2. (s \o t)[i] = t[i - Len(s)]
      BY <1>1, <3>1
    <3>3. QED
      BY <3>1, <3>2 DEF NamesOf
  <2>3. QED
    BY <1>1, <1>2, <2>1, <2>2
<1>3. ASSUME NEW i \in DOMAIN s PROVE s[i].event \in NamesOf(s \o t)
  <2>1. i \in DOMAIN (s \o t) /\ (s \o t)[i] = s[i]
    BY <1>1, <1>3
  <2>2. QED
    BY <2>1 DEF NamesOf
<1>4. ASSUME NEW i \in DOMAIN t PROVE t[i].event \in NamesOf(s \o t)
  <2>1. Len(s) + i \in DOMAIN (s \o t) /\ (s \o t)[Len(s) + i] = t[i]
    BY <1>1, <1>4
  <2>2. QED
    BY <2>1 DEF NamesOf
<1>5. NamesOf(s \o t) = NamesOf(s) \cup NamesOf(t)
  BY <1>2, <1>3, <1>4 DEF NamesOf
<1>6. t # <<>> => (s \o t)[Len(s \o t)] = t[Len(t)]
  BY <1>1
<1>7. QED
  BY <1>5, <1>6

(* What a run has said when it has said its last words.                    *)
LEMMA Ended ==
  ASSUME NEW t \in Told, NEW o \in Outcome
  PROVE  /\ t \o LastWords(o) \in Seq(Said)
         /\ InOrder(t \o LastWords(o))
         /\ NamesOf(t \o LastWords(o)) = NamesOf(t) \cup Closing(o)
         /\ (t \o LastWords(o))[Len(t \o LastWords(o))] = [event |-> "done", outcome |-> o]
<1>1. t \in Seq(Said) /\ LastWords(o) \in Seq(Said) /\ LastWords(o) # <<>>
  BY ToldIsSaid, LastWordsSaid
<1>2. InOrder(t \o LastWords(o))
  BY EndedTellingsAreOrdered
<1>3. QED
  BY <1>1, <1>2, NamesAdd, LastWordsSaid

LEMMA WholeRowsTold ==
  ASSUME NEW t \in Told
  PROVE  RowsAreWhole(t) /\ {"error", "done"} \cap NamesOf(t) = {}
BY NamesTold DEF Told, Narrated, RowsAreWhole

(* The steps from one telling to the next.                                 *)
LEMMA Tellings ==
  /\ <<>> \o <<Event("sql")>> = SaidSql
  /\ SaidSql \o RowEvents = SaidRows
  /\ SaidSql \o (RowEvents \o <<>>) = SaidRows
  /\ SaidSql \o (RowEvents \o <<Event("warnings")>>) = SaidWarned
  /\ SaidRows \o (<<>> \o <<>>) = SaidRows
  /\ SaidRows \o (<<>> \o <<Event("warnings")>>) = SaidWarned
<1>1. <<>> \o <<Event("sql")>> = SaidSql
  BY DEF SaidSql
<1>2. SaidSql \o (RowEvents \o <<>>) = SaidRows
  BY DEF SaidRows, SaidSql, RowEvents
<1>3. SaidSql \o (RowEvents \o <<Event("warnings")>>) = SaidWarned
  <2>. DEFINE w == <<Event("warnings")>>
  <2>1. SaidSql \in Seq(Said) /\ RowEvents \in Seq(Said) /\ w \in Seq(Said)
    BY EventIsSaid DEF SaidSql, RowEvents
  <2>. HIDE DEF w
  <2>2. (SaidSql \o RowEvents) \o w = SaidSql \o (RowEvents \o w)
    BY <2>1, ConcatAssociative
  <2>3. QED
    BY <2>2 DEF SaidWarned, SaidRows, w
<1>4. SaidRows \o (<<>> \o <<>>) = SaidRows
  BY DEF SaidRows, SaidSql, RowEvents
<1>5. SaidRows \o (<<>> \o <<Event("warnings")>>) = SaidWarned
  BY DEF SaidWarned, SaidRows, SaidSql, RowEvents
<1>6. QED
  BY <1>1, <1>2, <1>3, <1>4, <1>5 DEF SaidRows
-----------------------------------------------------------------------------
(* Each component moves one request at a time and leaves the others alone. *)
GenMoves(q) ==
  /\ GenTyped'
  /\ \A p \in Query \ {q} : gen'[p] = gen[p] /\ billed'[p] = billed[p]

AcctMoves(q) ==
  /\ Acct!TypeOK'
  /\ \A p \in Query \ {q} : step'[p] = step[p] /\ owed'[p] = owed[p] /\ paid'[p] = paid[p]

NarMoves(q) ==
  /\ Nar!TypeOK'
  /\ \A p \in Query \ {q} : nar'[p] = nar[p]

LogMoves(q) ==
  /\ Log!TypeOK'
  /\ \A p \in Query \ {q} : entry'[p] = entry[p] /\ log'[p] = log[p] /\ reply'[p] = reply[p]

RunMoves(q) ==
  /\ PlaceTyped'
  /\ \A p \in Query \ {q} :
       pc'[p] = pc[p] /\ outcome'[p] = outcome[p] /\ shape'[p] = shape[p] /\ events'[p] = events[p]
  /\ Len(events[q]) <= Len(events'[q])

Untouched(p) ==
  /\ gen'[p] = gen[p] /\ billed'[p] = billed[p] /\ nar'[p] = nar[p]
  /\ step'[p] = step[p] /\ owed'[p] = owed[p] /\ paid'[p] = paid[p]
  /\ entry'[p] = entry[p] /\ log'[p] = log[p] /\ reply'[p] = reply[p]
  /\ pc'[p] = pc[p] /\ outcome'[p] = outcome[p] /\ shape'[p] = shape[p]
  /\ events'[p] = events[p]

LEMMA UntouchedIsOK ==
  ASSUME NEW p \in Query, RunOK(p), Untouched(p) PROVE RunOK(p)'
<1>1. CallOK(gen[p])' /\ NarrationOK(nar[p])'
  BY DEF RunOK, Untouched, CallOK, NarrationOK
<1>2. CallsMade(p)'
  BY DEF RunOK, Untouched, CallsMade, Early, Decorated
<1>3. MoneyPaid(p)'
  BY DEF RunOK, Untouched, MoneyPaid, Paid
<1>4. BlockedIsIdle(p)'
  BY DEF RunOK, Untouched, BlockedIsIdle, Names
<1>5. Heading(p)'
  BY DEF RunOK, Untouched, Heading, Early, Decorated
<1>6. RecordOK(p)'
  BY DEF RunOK, Untouched, RecordOK, PaidUp, Early, Decorated, AuditAttempts
<1>7. WordsSaid(p)'
  BY DEF RunOK, Untouched, WordsSaid, Names, Early
<1>8. QED
  BY <1>1, <1>2, <1>3, <1>4, <1>5, <1>6, <1>7 DEF RunOK

LEMMA UnmovedGen ==
  ASSUME Typed, NEW q \in Query, UNCHANGED genVars
  PROVE  GenMoves(q) /\ gen'[q] = gen[q] /\ billed'[q] = billed[q]
BY DEF Typed, GenTyped, GenMoves, genVars

LEMMA UnmovedAcct ==
  ASSUME Typed, NEW q \in Query, UNCHANGED acctVars
  PROVE  AcctMoves(q) /\ step'[q] = step[q] /\ owed'[q] = owed[q] /\ paid'[q] = paid[q]
BY DEF Typed, Acct!TypeOK, AcctMoves, acctVars, Acct!CounterKey

LEMMA UnmovedNar ==
  ASSUME Typed, NEW q \in Query, UNCHANGED narVars
  PROVE  NarMoves(q) /\ nar'[q] = nar[q]
BY DEF Typed, Nar!TypeOK, NarMoves, narVars

LEMMA UnmovedLog ==
  ASSUME Typed, NEW q \in Query, UNCHANGED logVars
  PROVE  LogMoves(q) /\ entry'[q] = entry[q] /\ log'[q] = log[q] /\ reply'[q] = reply[q]
BY DEF Typed, Log!TypeOK, LogMoves, logVars

(* A step of a run to a new place, with what it has said by then.          *)
LEMMA Moved ==
  ASSUME Typed, NEW q \in Query, NEW place \in Place, NEW o \in Outcome \cup {"none"},
         NEW s \in Shape, NEW said \in Seq(Said), Len(events[q]) <= Len(said),
         pc' = [pc EXCEPT ![q] = place], outcome' = [outcome EXCEPT ![q] = o],
         shape' = [shape EXCEPT ![q] = s], events' = [events EXCEPT ![q] = said]
  PROVE  /\ RunMoves(q)
         /\ pc'[q] = place /\ outcome'[q] = o /\ shape'[q] = s /\ events'[q] = said
BY DEF Typed, PlaceTyped, RunMoves

(* Words are only added.                                                   *)
LEMMA Adding ==
  ASSUME Typed, NEW q \in Query, NEW es \in Seq(Said)
  PROVE  events[q] \o es \in Seq(Said) /\ Len(events[q]) <= Len(events[q] \o es)
<1>1. events[q] \in Seq(Said) /\ Len(events[q]) \in Nat /\ Len(es) \in Nat
  BY DEF Typed, PlaceTyped
<1>2. Len(events[q] \o es) = Len(events[q]) + Len(es)
  BY <1>1
<1>3. QED
  BY <1>1, <1>2

(* One that says nothing.                                                  *)
LEMMA MovedSilently ==
  ASSUME Typed, NEW q \in Query, NEW place \in Place, NEW o \in Outcome \cup {"none"},
         NEW s \in Shape,
         pc' = [pc EXCEPT ![q] = place], outcome' = [outcome EXCEPT ![q] = o],
         shape' = [shape EXCEPT ![q] = s], UNCHANGED events
  PROVE  /\ RunMoves(q)
         /\ pc'[q] = place /\ outcome'[q] = o /\ shape'[q] = s /\ events'[q] = events[q]
<1>1. events[q] \in Seq(Said) /\ Len(events[q]) <= Len(events[q])
  BY DEF Typed, PlaceTyped
<1>2. events' = [events EXCEPT ![q] = events[q]]
  BY DEF Typed, PlaceTyped
<1>3. QED
  BY <1>1, <1>2, Moved

LEMMA UnmovedRun ==
  ASSUME Typed, NEW q \in Query, UNCHANGED runVars
  PROVE  /\ RunMoves(q)
         /\ pc'[q] = pc[q] /\ outcome'[q] = outcome[q] /\ shape'[q] = shape[q]
         /\ events'[q] = events[q]
<1>1. Len(events[q]) \in Nat
  BY DEF Typed, PlaceTyped
<1>2. QED
  BY <1>1 DEF Typed, PlaceTyped, RunMoves, runVars

LEMMA Assembled ==
  ASSUME RunInv, NEW q \in Query,
         GenMoves(q), AcctMoves(q), NarMoves(q), LogMoves(q), RunMoves(q), RunOK(q)'
  PROVE  RunInv'
<1>1. Typed'
  BY DEF GenMoves, AcctMoves, NarMoves, LogMoves, RunMoves, Typed
<1>2. ASSUME NEW p \in Query \ {q} PROVE RunOK(p)'
  <2>1. Untouched(p)
    BY DEF GenMoves, AcctMoves, NarMoves, LogMoves, RunMoves, Untouched
  <2>2. QED
    BY <2>1, UntouchedIsOK DEF RunInv
<1>3. QED
  BY <1>1, <1>2 DEF RunInv
-----------------------------------------------------------------------------
(* The steps of the budget.                                                *)
LEMMA Amounts ==
  /\ DaysPerMonth \in Nat /\ DaysPerMonth >= 1 /\ LastDay \in Nat
  /\ SqlMaxAttempts \in Nat /\ SqlMaxAttempts >= 1
  /\ NarrativeMaxAttempts \in Nat /\ NarrativeMaxAttempts >= 1
BY RunQueryAssumption
DEF Acct!BudgetParameters, Gen!SqlGenerationParameters, Nar!NarrativeParameters

(* The date of a statement is one of the calendar.                         *)
LEMMA DatesHavePeriods ==
  ASSUME Typed, NEW q \in Query, NEW day \in since[q]..today, NEW type \in Acct!PeriodType
  PROVE  Acct!PeriodOf(type, day) \in Acct!CounterKey
<1>1. day \in 0..LastDay
  BY Amounts DEF Typed, Acct!TypeOK
<1>2. day \div DaysPerMonth \in 0..day
  BY <1>1, Amounts
<1>3. Acct!PeriodKey(type, day) \in 0..LastDay
  BY <1>1, <1>2, Amounts DEF Acct!PeriodKey
<1>4. QED
  BY <1>3 DEF Acct!PeriodOf, Acct!CounterKey

(* A statement brings the date of its request up to today.                 *)
LEMMA DateMovesUp ==
  ASSUME Typed, NEW q \in Query, Acct!Now(q), UNCHANGED today
  PROVE  since' \in [Query -> 0..today']
BY Amounts DEF Typed, Acct!TypeOK, Acct!Now

LEMMA AcctArrives ==
  ASSUME Typed, NEW q \in Query, Acct!Arrive(q)
  PROVE  AcctMoves(q) /\ step'[q] = "readDay" /\ Paid(q, 0, 0)'
<1>1. since' \in [Query -> 0..today']
  BY DateMovesUp DEF Acct!Arrive
<1>2. /\ step' = [step EXCEPT ![q] = "readDay"] /\ basis' = [basis EXCEPT ![q] = {}]
      /\ charges' = [charges EXCEPT ![q] = 0]
      /\ paid' = [paid EXCEPT ![q] = [type \in Acct!PeriodType |-> 0]]
      /\ UNCHANGED <<today, counter, owed, began, ledger>>
  BY DEF Acct!Arrive, Acct!MoveTo
<1>3. exhausted' \in [Query -> SUBSET Acct!CounterKey]
  BY DEF Typed, Acct!TypeOK, Acct!Arrive
<1>4. /\ paid' \in [Query -> [Acct!PeriodType -> Nat]] /\ Paid(q, 0, 0)'
      /\ \A p \in Query \ {q} : paid'[p] = paid[p]
  BY <1>2 DEF Typed, Acct!TypeOK, Paid, Acct!PeriodType
<1>5. charges' \in [Query -> 0..2]
  BY <1>2 DEF Typed, Acct!TypeOK
<1>6. /\ step' \in [Query -> {"idle", "readDay", "readMonth", "admitted", "blocked",
                              "payMonth", "failed"}]
      /\ step'[q] = "readDay" /\ \A p \in Query \ {q} : step'[p] = step[p]
      /\ basis' \in [Query -> SUBSET Acct!CounterKey]
      /\ \A p \in Query : step'[p] # "payMonth" => owed[p] = 0
  <2>1. /\ step \in [Query -> {"idle", "readDay", "readMonth", "admitted", "blocked",
                               "payMonth", "failed"}]
        /\ basis \in [Query -> SUBSET Acct!CounterKey]
        /\ \A p \in Query : step[p] # "payMonth" => owed[p] = 0
        /\ step[q] = "idle"
    BY DEF Typed, Acct!TypeOK, Acct!Arrive
  <2>2. QED
    BY <1>2, <2>1
<1>7. QED
  BY <1>1, <1>2, <1>3, <1>4, <1>5, <1>6 DEF Typed, Acct!TypeOK, AcctMoves

LEMMA AcctReads ==
  ASSUME Typed, NEW q \in Query, Acct!CheckDaily(q) \/ Acct!CheckMonthly(q)
  PROVE  /\ AcctMoves(q)
         /\ step'[q] \in {"readMonth", "admitted", "blocked"}
         /\ owed'[q] = owed[q] /\ paid'[q] = paid[q]
<1>1. PICK period \in Acct!CounterKey, next \in {"readMonth", "admitted"} :
        Acct!ReadCounter(q, period, next)
  BY DatesHavePeriods DEF Acct!CheckDaily, Acct!CheckMonthly, Acct!PeriodType
<1>2. since' \in [Query -> 0..today']
  BY <1>1, DateMovesUp DEF Acct!ReadCounter
<1>3. step[q] # "payMonth"
  BY DEF Acct!CheckDaily, Acct!CheckMonthly
<1>4. PICK s \in {"readMonth", "admitted", "blocked"} : step' = [step EXCEPT ![q] = s]
  BY <1>1 DEF Acct!ReadCounter, Acct!MoveTo
<1>5. /\ basis' \in [Query -> SUBSET Acct!CounterKey]
      /\ UNCHANGED <<today, counter, owed, charges, exhausted, paid, began, ledger>>
  BY <1>1 DEF Acct!ReadCounter, Typed, Acct!TypeOK
<1>6. QED
  BY <1>2, <1>3, <1>4, <1>5 DEF Typed, Acct!TypeOK, AcctMoves, Acct!CounterKey

LEMMA AcctReadFails ==
  ASSUME Typed, NEW q \in Query, Acct!ReadFails(q)
  PROVE  AcctMoves(q) /\ step'[q] = "failed"
BY DEF Typed, Acct!TypeOK, Acct!ReadFails, Acct!MoveTo, AcctMoves, Acct!CounterKey

LEMMA UpsertAdds ==
  ASSUME Typed, NEW q \in Query, NEW type \in {"DAY", "MONTH"}, NEW amount \in Nat,
         NEW day \in since[q]..today, Acct!Upsert(q, type, day, amount)
  PROVE  /\ counter' \in [Acct!CounterKey -> Nat]
         /\ ledger' \in [Query -> [Acct!CounterKey -> Nat]]
         /\ paid' \in [Query -> [Acct!PeriodType -> Nat]]
         /\ paid'[q][type] = paid[q][type] + amount
         /\ \A other \in {"DAY", "MONTH"} \ {type} : paid'[q][other] = paid[q][other]
         /\ \A p \in Query \ {q} : paid'[p] = paid[p]
<1>1. Acct!PeriodOf(type, day) \in Acct!CounterKey /\ type \in Acct!PeriodType
  BY DatesHavePeriods DEF Acct!PeriodType
<1>2. /\ ledger \in [Query -> [Acct!CounterKey -> Nat]]
      /\ counter \in [Acct!CounterKey -> Nat]
      /\ paid \in [Query -> [Acct!PeriodType -> Nat]]
  BY DEF Typed, Acct!TypeOK
<1>3. counter' \in [Acct!CounterKey -> Nat]
  BY <1>1, <1>2 DEF Acct!Upsert
<1>4. /\ paid' = [paid EXCEPT ![q][type] = @ + amount]
      /\ ledger' = [ledger EXCEPT ![q][Acct!PeriodOf(type, day)] = @ + amount]
  BY DEF Acct!Upsert, Acct!Pays
<1>5. ledger' \in [Query -> [Acct!CounterKey -> Nat]]
  BY <1>1, <1>2, <1>4
<1>6. QED
  BY <1>1, <1>2, <1>3, <1>4, <1>5 DEF Acct!PeriodType

LEMMA AcctPaysDaily ==
  ASSUME Typed, NEW q \in Query, NEW amount \in Nat, Acct!PayDaily(q, amount)
  PROVE  /\ AcctMoves(q)
         /\ step[q] = "admitted" /\ step'[q] = "payMonth" /\ owed'[q] = amount
         /\ paid'[q]["DAY"] = paid[q]["DAY"] + amount
         /\ paid'[q]["MONTH"] = paid[q]["MONTH"]
<1>1. PICK day \in since[q]..today : Acct!Upsert(q, "DAY", day, amount)
  BY DEF Acct!PayDaily
<1>2. charges'[q] \in 0..2 /\ charges' \in [Query -> 0..2]
  BY DEF Acct!PayDaily, Typed, Acct!TypeOK
<1>3. since' \in [Query -> 0..today']
  BY DateMovesUp DEF Acct!PayDaily
<1>4. QED
  BY <1>1, <1>2, <1>3, UpsertAdds
  DEF Acct!PayDaily, Acct!MoveTo, Typed, Acct!TypeOK, AcctMoves, Acct!CounterKey

LEMMA AcctPaysMonthly ==
  ASSUME Typed, NEW q \in Query, Acct!PayMonthly(q)
  PROVE  /\ AcctMoves(q)
         /\ step[q] = "payMonth" /\ step'[q] = "admitted" /\ owed'[q] = 0
         /\ paid'[q]["DAY"] = paid[q]["DAY"]
         /\ paid'[q]["MONTH"] = paid[q]["MONTH"] + owed[q]
<1>1. owed[q] \in Nat
  BY DEF Typed, Acct!TypeOK
<1>2. PICK day \in since[q]..today : Acct!Upsert(q, "MONTH", day, owed[q])
  BY DEF Acct!PayMonthly
<1>3. since' \in [Query -> 0..today']
  BY DateMovesUp DEF Acct!PayMonthly
<1>4. QED
  BY <1>1, <1>2, <1>3, UpsertAdds
  DEF Acct!PayMonthly, Acct!MoveTo, Typed, Acct!TypeOK, AcctMoves, Acct!CounterKey

LEMMA AcctBreaks ==
  ASSUME Typed, NEW q \in Query, ChargeBreaks(q), gen[q].usage \in Nat
  PROVE  AcctMoves(q) /\ step[q] \in {"admitted", "payMonth"} /\ step'[q] = "failed"
<1>1. nar[q].usage \in Nat /\ owed[q] \in Nat
  BY Amounts DEF Typed, Nar!TypeOK, Acct!TypeOK
<1>2. ASSUME NEW amount \in Nat, Acct!PayDailyFails(q, amount)
      PROVE  AcctMoves(q) /\ step[q] = "admitted" /\ step'[q] = "failed"
  <2>1. charges' \in [Query -> 0..2]
    <3>1. charges[q] < 2 /\ charges' = [charges EXCEPT ![q] = charges[q] + 1]
      BY <1>2 DEF Acct!PayDailyFails
    <3>2. charges \in [Query -> 0..2]
      BY DEF Typed, Acct!TypeOK
    <3>3. QED
      BY <3>1, <3>2
  <2>2. /\ counter' \in [Acct!CounterKey -> Nat]
        /\ ledger' \in [Query -> [Acct!CounterKey -> Nat]]
        /\ paid' \in [Query -> [Acct!PeriodType -> Nat]]
        /\ \A p \in Query \ {q} : paid'[p] = paid[p]
    BY <1>2, UpsertAdds DEF Acct!PayDailyFails, Typed, Acct!TypeOK
  <2>3. since' \in [Query -> 0..today'] /\ UNCHANGED <<today, owed, basis, exhausted, began>>
    BY <1>2 DEF Acct!PayDailyFails, Typed, Acct!TypeOK
  <2>4. QED
    BY <1>2, <2>1, <2>2, <2>3
    DEF Acct!PayDailyFails, Acct!MoveTo, Typed, Acct!TypeOK, AcctMoves, Acct!CounterKey
<1>3. ASSUME Acct!PayMonthlyFails(q)
      PROVE  AcctMoves(q) /\ step[q] = "payMonth" /\ step'[q] = "failed"
  <2>1. /\ counter' \in [Acct!CounterKey -> Nat]
        /\ ledger' \in [Query -> [Acct!CounterKey -> Nat]]
        /\ paid' \in [Query -> [Acct!PeriodType -> Nat]]
        /\ \A p \in Query \ {q} : paid'[p] = paid[p]
    BY <1>1, <1>3, UpsertAdds DEF Acct!PayMonthlyFails, Typed, Acct!TypeOK
  <2>2. since' \in [Query -> 0..today'] /\ UNCHANGED <<today, charges, basis, exhausted, began>>
    BY <1>3 DEF Acct!PayMonthlyFails, Typed, Acct!TypeOK
  <2>3. QED
    BY <1>3, <2>1, <2>2
    DEF Acct!PayMonthlyFails, Acct!MoveTo, Typed, Acct!TypeOK, AcctMoves, Acct!CounterKey
<1>4. QED
  BY <1>1, <1>2, <1>3 DEF ChargeBreaks
-----------------------------------------------------------------------------
(* The steps of SQL generation.                                            *)
LEMMA OneCall ==
  ASSUME Typed, NEW q \in Query, NEW g \in Call, gen' = [gen EXCEPT ![q] = g],
         billed' = billed \/ Gen!Bill(q)
  PROVE  GenMoves(q) /\ gen'[q] = g
BY DEF Typed, GenTyped, GenMoves, Gen!Bill

LEMMA GenBegins ==
  ASSUME Typed, NEW q \in Query, CallOK(gen[q]),
         NEW inherited \in Period \cup {NoPeriod}, Gen!Begin(q, inherited)
  PROVE  GenMoves(q) /\ CallOK(gen'[q]) /\ gen'[q].status = "calling"
<1>. DEFINE g == [gen[q] EXCEPT !.status = "calling", !.inherited = inherited]
<1>1. gen[q] \in Call /\ gen[q].status = "idle"
  BY DEF Gen!Begin, Typed, GenTyped
<1>2. /\ g \in Call /\ g.status = "calling" /\ g.attempts = gen[q].attempts
      /\ g.usage = gen[q].usage /\ g.exit = gen[q].exit /\ g.outcome = gen[q].outcome
  BY <1>1 DEF Call
<1>3. gen' = [gen EXCEPT ![q] = g] /\ billed' = billed
  BY <1>1 DEF Gen!Begin, Typed, GenTyped, Call
<1>4. GenMoves(q) /\ gen'[q] = g
  <2>. HIDE DEF g
  <2>1. QED
    BY <1>2, <1>3, OneCall
<1>5. CallOK(g)
  BY <1>1, <1>2 DEF CallOK
<1>6. QED
  BY <1>2, <1>4, <1>5

(* One more attempt, of a call that goes on.                               *)
LEMMA CompletedAddsOne ==
  ASSUME Typed, NEW q \in Query, CallOK(gen[q]), Gen!Calling(q), NEW ending \in Ending
  PROVE  LET g == Gen!Completed(q, ending)
             n == Len(gen[q].attempts)
         IN  /\ g \in Call
             /\ g.status = "calling" /\ g.exit = "none"
             /\ n \in Nat /\ Len(g.attempts) = n + 1 /\ n + 1 <= SqlMaxAttempts /\ g.usage = n + 1
             /\ \A i \in 1..(n + 1) : g.attempts[i].no = i
             /\ g.attempts[n + 1].outcome = ending
             /\ \A i \in 1..n : g.attempts[i].outcome \in Rejection
<1>. DEFINE s == gen[q].attempts
            a == Gen!AttemptOf(q, ending)
            n == Len(s)
<1>1. gen[q] \in Call /\ s \in Seq(Attempt) /\ n \in Nat
  BY DEF Typed, GenTyped, Call
<1>2. a \in Attempt /\ a.no = n + 1 /\ a.outcome = ending
  BY <1>1 DEF Gen!AttemptOf, Gen!AttemptNo, Attempt
<1>3. Append(s, a) \in Seq(Attempt) /\ Len(Append(s, a)) = n + 1
      /\ Append(s, a)[n + 1] = a /\ \A i \in 1..n : Append(s, a)[i] = s[i]
  <2>. HIDE DEF a, s
  <2>1. QED
    BY <1>1, <1>2
<1>4. /\ n < SqlMaxAttempts /\ gen[q].usage = n /\ gen[q].exit = "none"
      /\ \A i \in 1..n : s[i].no = i /\ s[i].outcome \in Rejection
  BY <1>1 DEF CallOK, Gen!Calling
<1>5. LET g == Gen!Completed(q, ending)
      IN  /\ g \in Call /\ g.status = "calling" /\ g.exit = "none" /\ g.usage = n + 1
          /\ g.attempts = Append(s, a)
  <2>. DEFINE c == gen[q]
              t == Append(s, a)
              m == c.usage + 1
              g == [[c EXCEPT !.usage = m] EXCEPT !.attempts = t]
  <2>1. c \in Call /\ m \in Nat /\ t \in Seq(Attempt) /\ c.status = "calling" /\ c.exit = "none"
        /\ m = n + 1
    BY <1>1, <1>3, <1>4 DEF Call, Gen!Calling
  <2>2. Gen!Completed(q, ending) = g
    BY DEF Gen!Completed
  <2>3. g \in Call /\ g.attempts = t /\ g.status = "calling" /\ g.exit = "none" /\ g.usage = m
    <3>. HIDE DEF c, t, m
    <3>1. QED
      BY <2>1 DEF Call
  <2>4. QED
    BY <2>1, <2>2, <2>3
<1>6. n + 1 <= SqlMaxAttempts
  BY <1>1, <1>4, Amounts
<1>7. \A i \in 1..(n + 1) : Append(s, a)[i].no = i
  <2>1. \A i \in 1..(n + 1) : i \in 1..n \/ i = n + 1
    BY <1>1
  <2>. HIDE DEF s, a, n
  <2>2. QED
    BY <1>2, <1>3, <1>4, <2>1
<1>8. QED
  <2>. HIDE DEF s, a
  <2>1. QED
    BY <1>1, <1>2, <1>3, <1>4, <1>5, <1>6, <1>7 DEF s

LEMMA VerdictIsRejection ==
  ASSUME NEW q, NEW sql \in Gen!Sql, Gen!Verdict(q, sql) # Gen!Valid
  PROVE  Gen!Verdict(q, sql) \in Rejection
BY DEF Gen!Verdict, Gen!Sql, Rejection

(* What a call returns with is what came of its attempts.                  *)
Returns(q) ==
  /\ GenMoves(q) /\ CallOK(gen'[q])
  /\ gen'[q].status = "returned"

LEMMA Returning ==
  ASSUME Typed, NEW q \in Query, NEW g \in Call, NEW exit \in Gen!Exit,
         NEW o \in Outcome \cup {"none"},
         gen' = [gen EXCEPT ![q] = Gen!Return(q, exit, o, g)],
         billed' = billed \/ Gen!Bill(q),
         LET n == Len(g.attempts)
         IN  /\ g.usage = n /\ n <= SqlMaxAttempts
             /\ \A i \in 1..n : g.attempts[i].no = i
             /\ \A i \in 1..n : i < n => g.attempts[i].outcome \in Rejection
             /\ exit = "result" => n > 0 /\ g.attempts[n].outcome = Gen!Accepted
             /\ exit # "result" => o \notin Answered \cup {"none", "THROTTLED_BUDGET"},
         ExitTold(g.attempts, exit, o)
  PROVE  Returns(q) /\ gen'[q].exit = exit /\ gen'[q].outcome = o
<1>. DEFINE r == Gen!Return(q, exit, o, g)
<1>1. /\ r \in Call /\ r.status = "returned" /\ r.exit = exit /\ r.outcome = o
      /\ r.attempts = g.attempts /\ r.usage = g.usage
  BY DEF Gen!Return, Call
<1>2. exit # "none"
  BY DEF Gen!Exit
<1>3. GenMoves(q) /\ gen'[q] = r
  <2>. HIDE DEF r
  <2>1. QED
    BY <1>1, OneCall DEF r
<1>. HIDE DEF r
<1>4. CallOK(r)
  BY <1>1, <1>2 DEF CallOK
<1>5. QED
  BY <1>1, <1>3, <1>4 DEF Returns

LEMMA GenReplies ==
  ASSUME Typed, NEW q \in Query, CallOK(gen[q]), Gen!Reply(q)
  PROVE  /\ GenMoves(q) /\ CallOK(gen'[q])
         /\ gen'[q].status \in {"calling", "returned"}
<1>0. Gen!Calling(q) /\ gen[q] \in Call
  BY DEF Gen!Reply, Gen!Decline, Gen!Reject, Gen!Accept, Gen!ModelFails, Gen!ModelRefuses,
         Gen!Crash, Typed, GenTyped
<1>1. ASSUME NEW s \in Gen!Sentinel, Gen!Decline(q, s) PROVE Returns(q)
  <2>. DEFINE exit == IF s = "OUT_OF_SCOPE" THEN "out_of_scope" ELSE "clarification"
              g == Gen!Completed(q, s)
              n == Len(gen[q].attempts)
  <2>1. gen' = [gen EXCEPT ![q] = Gen!Return(q, exit, s, g)] /\ Gen!Bill(q)
    BY <1>1 DEF Gen!Decline
  <2>2. s \in Ending
    BY DEF Ending
  <2>3. /\ g \in Call /\ n \in Nat /\ Len(g.attempts) = n + 1 /\ n + 1 <= SqlMaxAttempts
        /\ g.usage = n + 1
        /\ \A i \in 1..(n + 1) : g.attempts[i].no = i
        /\ \A i \in 1..n : g.attempts[i].outcome \in Rejection
        /\ g.attempts[n + 1].outcome = s
    BY <1>0, <2>2, CompletedAddsOne
  <2>4. exit \in Gen!Exit /\ exit # "result" /\ s \in Outcome
        /\ s \notin Answered \cup {"none", "THROTTLED_BUDGET"}
        /\ exit \in {"clarification", "out_of_scope"}
    BY DEF Gen!Exit, Gen!Sentinel, Outcome, Answered
  <2>. HIDE DEF g, exit
  <2>5. \A i \in 1..(n + 1) : i < n + 1 => i \in 1..n
    BY <2>3
  <2>6. ExitTold(g.attempts, exit, s)
    BY <2>3, <2>4 DEF ExitTold
  <2>7. /\ g.usage = Len(g.attempts) /\ Len(g.attempts) <= SqlMaxAttempts
        /\ \A i \in 1..Len(g.attempts) : g.attempts[i].no = i
        /\ \A i \in 1..Len(g.attempts) :
             i < Len(g.attempts) => g.attempts[i].outcome \in Rejection
    BY <2>3, <2>5
  <2>8. billed' = billed \/ Gen!Bill(q)
    BY <2>1
  <2>9. QED
    BY <2>1, <2>3, <2>4, <2>6, <2>7, <2>8, Returning
<1>2. ASSUME NEW sql \in Gen!Sql, Gen!Reject(q, sql)
      PROVE  /\ GenMoves(q) /\ CallOK(gen'[q]) /\ gen'[q].status \in {"calling", "returned"}
  <2>. DEFINE v == Gen!Verdict(q, sql)
              g == Gen!Completed(q, v)
              n == Len(gen[q].attempts)
  <2>1. v \in Rejection /\ v \in Ending /\ Gen!Bill(q)
    BY <1>2, VerdictIsRejection DEF Gen!Reject, Ending
  <2>2. /\ g \in Call /\ g.status = "calling" /\ g.exit = "none"
        /\ n \in Nat /\ Len(g.attempts) = n + 1 /\ n + 1 <= SqlMaxAttempts
        /\ g.usage = n + 1
        /\ \A i \in 1..(n + 1) : g.attempts[i].no = i
        /\ g.attempts[n + 1].outcome = v
        /\ \A i \in 1..n : g.attempts[i].outcome \in Rejection
    BY <1>0, <2>1, CompletedAddsOne
  <2>3. \A i \in 1..(n + 1) : i < n + 1 => i \in 1..n
    BY <2>2
  <2>4. CASE n + 1 = SqlMaxAttempts
    <3>1. gen' = [gen EXCEPT ![q] = Gen!Return(q, "failed", v, g)]
      BY <1>2, <2>4 DEF Gen!Reject, Gen!AttemptNo
    <3>2. "failed" \in Gen!Exit /\ v \in Outcome
          /\ v \notin Answered \cup {"none", "THROTTLED_BUDGET"}
      BY <2>1 DEF Gen!Exit, Outcome, Rejection, Answered
    <3>. HIDE DEF g, v
    <3>3. ExitTold(g.attempts, "failed", v)
      BY <2>2, <2>4 DEF ExitTold
    <3>4. Returns(q)
      BY <2>1, <2>2, <2>3, <3>1, <3>2, <3>3, Returning
    <3>5. QED
      BY <3>4 DEF Returns
  <2>5. CASE n + 1 # SqlMaxAttempts
    <3>1. gen' = [gen EXCEPT ![q] = g]
      BY <1>2, <2>5 DEF Gen!Reject, Gen!AttemptNo
    <3>2. n + 1 < SqlMaxAttempts
      BY <2>2, <2>5, Amounts
    <3>3. \A i \in 1..(n + 1) : g.attempts[i].outcome \in Rejection
      <4>. HIDE DEF g, v
      <4>1. \A i \in 1..(n + 1) : i \in 1..n \/ i = n + 1
        BY <2>2
      <4>2. QED
        BY <2>1, <2>2, <4>1
    <3>. HIDE DEF g
    <3>4. CallOK(g)
      BY <2>2, <3>2, <3>3 DEF CallOK
    <3>5. GenMoves(q) /\ gen'[q] = g
      BY <2>1, <2>2, <3>1, OneCall
    <3>6. QED
      BY <2>2, <3>4, <3>5
  <2>6. QED
    BY <2>4, <2>5
<1>3. ASSUME NEW sql \in Gen!Sql, Gen!Accept(q, sql) PROVE Returns(q)
  <2>. DEFINE g == Gen!Completed(q, Gen!Accepted)
              h == [g EXCEPT !.period = sql.period]
              n == Len(gen[q].attempts)
  <2>1. Gen!Accepted \in Ending
    BY DEF Ending
  <2>2. /\ g \in Call /\ n \in Nat /\ Len(g.attempts) = n + 1 /\ n + 1 <= SqlMaxAttempts
        /\ g.usage = n + 1
        /\ \A i \in 1..(n + 1) : g.attempts[i].no = i
        /\ g.attempts[n + 1].outcome = Gen!Accepted
        /\ \A i \in 1..n : g.attempts[i].outcome \in Rejection
    BY <1>0, <2>1, CompletedAddsOne
  <2>3. sql.period \in Period \cup {NoPeriod}
    BY DEF Gen!Sql
  <2>4. h \in Call /\ h.attempts = g.attempts /\ h.usage = g.usage
    <3>. HIDE DEF g
    <3>1. QED
      BY <2>2, <2>3 DEF Call
  <2>5. gen' = [gen EXCEPT ![q] = Gen!Return(q, "result", "none", h)] /\ Gen!Bill(q)
    <3>1. [Gen!Return(q, "result", "none", g) EXCEPT !.period = sql.period]
            = Gen!Return(q, "result", "none", h)
      <4>. HIDE DEF g
      <4>1. QED
        BY <2>2 DEF Gen!Return, Call
    <3>2. QED
      BY <1>3, <3>1 DEF Gen!Accept
  <2>6. "result" \in Gen!Exit /\ \A i \in 1..(n + 1) : i < n + 1 => i \in 1..n
    BY <2>2 DEF Gen!Exit
  <2>. HIDE DEF g, h
  <2>7. /\ h.usage = Len(h.attempts) /\ Len(h.attempts) = n + 1 /\ Len(h.attempts) > 0
        /\ \A i \in 1..Len(h.attempts) :
             i < Len(h.attempts) => h.attempts[i].outcome \in Rejection
        /\ \A i \in 1..Len(h.attempts) : h.attempts[i].no = i
        /\ h.attempts[Len(h.attempts)].outcome = Gen!Accepted
        /\ Len(h.attempts) <= SqlMaxAttempts
    BY <2>2, <2>4, <2>6
  <2>8. "none" \in Outcome \cup {"none"} /\ "result" \in Gen!Exit
        /\ (billed' = billed \/ Gen!Bill(q))
        /\ ExitTold(h.attempts, "result", "none")
    BY <2>5, <2>6 DEF ExitTold
  <2>9. QED
    BY <2>4, <2>5, <2>7, <2>8, Returning
<1>4. ASSUME Gen!ModelFails(q) \/ Gen!ModelRefuses(q) \/ Gen!Crash(q) PROVE Returns(q)
  <2>1. PICK exit \in {"model_failed", "crash"},
             o \in {"FAILED_LLM_ERROR", "FAILED_INTERNAL_ERROR"} :
               gen' = [gen EXCEPT ![q] = Gen!Return(q, exit, o, gen[q])]
    BY <1>4 DEF Gen!ModelFails, Gen!ModelRefuses, Gen!Crash
  <2>2. billed' = billed \/ Gen!Bill(q)
    BY <1>4 DEF Gen!ModelFails, Gen!ModelRefuses, Gen!Crash
  <2>3. exit \in Gen!Exit /\ exit # "result" /\ o \in Outcome
        /\ o \notin Answered \cup {"none", "THROTTLED_BUDGET"}
    BY DEF Gen!Exit, Outcome, Answered
  <2>4. ExitTold(gen[q].attempts, exit, o)
    BY <1>0 DEF ExitTold, CallOK, Gen!Calling
  <2>5. QED
    BY <1>0, <2>1, <2>2, <2>3, <2>4, Returning DEF CallOK
<1>5. QED
  BY <1>1, <1>2, <1>3, <1>4 DEF Gen!Reply, Returns

LEMMA GenAbandons ==
  ASSUME Typed, NEW q \in Query, CallOK(gen[q]), Gen!Abandon(q)
  PROVE  GenMoves(q) /\ CallOK(gen'[q]) /\ gen'[q].status = "abandoned"
<1>. DEFINE g == [gen[q] EXCEPT !.status = "abandoned"]
<1>1. gen[q] \in Call /\ gen[q].status = "calling"
  BY DEF Gen!Abandon, Gen!Calling, Typed, GenTyped
<1>2. /\ g \in Call /\ g.status = "abandoned" /\ g.attempts = gen[q].attempts
      /\ g.usage = gen[q].usage /\ g.exit = gen[q].exit /\ g.outcome = gen[q].outcome
  BY <1>1 DEF Call
<1>3. gen' = [gen EXCEPT ![q] = g] /\ (billed' = billed \/ Gen!Bill(q))
  BY DEF Gen!Abandon
<1>4. GenMoves(q) /\ gen'[q] = g
  <2>. HIDE DEF g
  <2>1. QED
    BY <1>2, <1>3, OneCall
<1>5. CallOK(g)
  BY <1>1, <1>2 DEF CallOK
<1>6. QED
  BY <1>2, <1>4, <1>5
-----------------------------------------------------------------------------
(* The steps of the narrative.                                             *)
Narration ==
  [status : {"idle", "writing", "returned", "crashed", "abandoned"},
   attempt : 1..NarrativeMaxAttempts, usage : 0..NarrativeMaxAttempts, text : Nar!Text,
   verified : BOOLEAN, unverified : SUBSET Nar!Figure]

LEMMA OneNarration ==
  ASSUME Typed, NEW q \in Query, NEW n \in Narration, nar' = [nar EXCEPT ![q] = n]
  PROVE  NarMoves(q) /\ nar'[q] = n
BY DEF Typed, Nar!TypeOK, NarMoves, Narration

LEMMA NarReturning ==
  ASSUME Typed, NEW q \in Query, nar[q].status \in {"idle", "writing"}, NarrationOK(nar[q]),
         NEW text \in Nar!Text, NEW verified \in BOOLEAN,
         NEW unverified \in SUBSET Nar!Figure, NEW completions \in 0..1,
         Nar!Return(q, text, verified, unverified, completions)
  PROVE  NarMoves(q) /\ NarrationOK(nar'[q]) /\ nar'[q].status = "returned"
<1>. DEFINE n == [nar[q] EXCEPT !.status = "returned", !.text = text,
                                !.verified = verified, !.unverified = unverified,
                                !.usage = @ + completions]
<1>1. nar[q] \in Narration /\ nar[q].usage <= nar[q].attempt - 1
  BY DEF Typed, Nar!TypeOK, Narration, NarrationOK
<1>2. nar' = [nar EXCEPT ![q] = n]
  BY DEF Nar!Return, Typed, Nar!TypeOK
<1>3. nar[q].usage + completions \in 0..NarrativeMaxAttempts
  BY <1>1, Amounts DEF Narration
<1>4. n \in Narration /\ n.status = "returned"
  BY <1>1, <1>3 DEF Narration
<1>. HIDE DEF n
<1>5. NarrationOK(n)
  BY <1>4 DEF NarrationOK
<1>6. QED
  BY <1>2, <1>4, <1>5, OneNarration

LEMMA FixedText ==
  ASSUME NEW from \in {"template", "reason", "leaders"}
  PROVE  [from |-> from, numbers |-> {}] \in Nar!Text
BY DEF Nar!Text

LEMMA NarBegins ==
  ASSUME Typed, NEW q \in Query, NarrationOK(nar[q]), NEW f \in Nar!Facts, Nar!Begin(q, f)
  PROVE  /\ NarMoves(q) /\ NarrationOK(nar'[q])
         /\ nar'[q].status \in {"writing", "returned"}
<1>0. /\ 0 \in 0..1 /\ {} \in SUBSET Nar!Figure /\ {TRUE, FALSE} \subseteq BOOLEAN
  OBVIOUS
<1>s. nar[q].status = "idle"
  BY DEF Nar!Begin, Nar!BeginExplained, Nar!BeginLeaders, Nar!BeginWriting
<1>1. CASE Nar!BeginWriting(q, f)
  <2>. DEFINE n == [nar[q] EXCEPT !.status = "writing"]
  <2>1. nar' = [nar EXCEPT ![q] = n] /\ nar[q] \in Narration
    BY <1>1 DEF Nar!BeginWriting, Typed, Nar!TypeOK, Narration
  <2>2. n \in Narration /\ n.status = "writing" /\ n.usage = nar[q].usage
        /\ n.attempt = nar[q].attempt
    BY <2>1 DEF Narration
  <2>3. NarrationOK(n)
    BY <1>s, <2>2 DEF NarrationOK
  <2>. HIDE DEF n
  <2>4. QED
    BY <2>1, <2>2, <2>3, OneNarration
<1>2. CASE Nar!BeginExplained(q, f) \/ Nar!BeginLeaders(q, f)
  <2>1. PICK from \in {"template", "reason", "leaders"} :
          Nar!Return(q, [from |-> from, numbers |-> {}], TRUE, {}, 0)
    BY <1>2 DEF Nar!BeginExplained, Nar!BeginLeaders, Nar!Template
  <2>. DEFINE text == [from |-> from, numbers |-> {}]
  <2>2. text \in Nar!Text
    BY FixedText
  <2>3. nar[q].status \in {"idle", "writing"}
    BY <1>s
  <2>. HIDE DEF text
  <2>4. NarMoves(q) /\ NarrationOK(nar'[q]) /\ nar'[q].status = "returned"
    BY <1>0, <2>1, <2>2, <2>3, NarReturning, Zenon DEF text
  <2>5. QED
    BY <2>4
<1>3. QED
  BY <1>1, <1>2 DEF Nar!Begin

LEMMA NarReplies ==
  ASSUME Typed, NEW q \in Query, NarrationOK(nar[q]), Nar!Reply(q)
  PROVE  /\ NarMoves(q) /\ NarrationOK(nar'[q])
         /\ nar'[q].status \in {"writing", "returned", "crashed"}
<1>. DEFINE Good ==
       /\ NarMoves(q) /\ NarrationOK(nar'[q])
       /\ nar'[q].status \in {"writing", "returned", "crashed"}
<1>0. 0 \in 0..1 /\ 1 \in 0..1 /\ {} \in SUBSET Nar!Figure /\ {TRUE, FALSE} \subseteq BOOLEAN
  OBVIOUS
<1>s. nar[q].status = "writing" /\ nar[q].status \in {"idle", "writing"}
  BY DEF Nar!Reply, Nar!TextEmpty, Nar!ModelFails, Nar!Crash, Nar!Writing
<1>t. nar[q] \in Narration
  BY DEF Typed, Nar!TypeOK, Narration
<1>1. ASSUME NEW numbers \in SUBSET Number, Nar!TextPasses(q, numbers) PROVE Good
  <2>. DEFINE text == [from |-> "model", numbers |-> numbers]
  <2>1. text \in Nar!Text
    BY DEF Nar!Text, Nar!Figure
  <2>2. Nar!Return(q, text, TRUE, {}, 1)
    BY <1>1 DEF Nar!TextPasses
  <2>. HIDE DEF text
  <2>3. QED
    BY <1>0, <1>s, <1>t, <2>1, <2>2, NarReturning, Zenon
<1>2. ASSUME NEW numbers \in SUBSET Number, Nar!TextFails(q, numbers) PROVE Good
  <2>. DEFINE objections == Nar!FindUnverified(q, numbers)
  <2>1. objections \in SUBSET Nar!Figure
    BY DEF Nar!FindUnverified, Nar!Figure
  <2>2. CASE nar[q].attempt = NarrativeMaxAttempts
    <3>1. Nar!Return(q, Nar!Template, FALSE, objections, 1)
      BY <1>2, <2>2 DEF Nar!TextFails
    <3>2. Nar!Template \in Nar!Text
      BY FixedText DEF Nar!Template
    <3>. HIDE DEF objections
    <3>3. QED
      BY <1>0, <1>s, <1>t, <2>1, <3>1, <3>2, NarReturning, Zenon
  <2>3. CASE nar[q].attempt # NarrativeMaxAttempts
    <3>. DEFINE a == nar[q].attempt + 1
                u == nar[q].usage + 1
                n == [[nar[q] EXCEPT !.attempt = a] EXCEPT !.usage = u]
    <3>1. nar' = [nar EXCEPT ![q] = n]
      BY <1>2, <2>3 DEF Nar!TextFails, Typed, Nar!TypeOK
    <3>2. a \in 1..NarrativeMaxAttempts /\ u \in 0..NarrativeMaxAttempts /\ u <= a - 1
      BY <1>0, <1>s, <1>t, <2>3, Amounts DEF Narration, NarrationOK
    <3>3. n \in Narration /\ n.status = "writing" /\ n.usage <= n.attempt - 1
      <4>. HIDE DEF a, u
      <4>1. QED
        BY <1>s, <1>t, <3>2 DEF Narration
    <3>. HIDE DEF n
    <3>4. NarrationOK(n)
      BY <3>3 DEF NarrationOK
    <3>5. QED
      BY <3>1, <3>3, <3>4, OneNarration
  <2>4. QED
    BY <2>2, <2>3
<1>3. ASSUME Nar!TextEmpty(q) \/ Nar!ModelFails(q) PROVE Good
  <2>1. PICK cost \in 0..1 : Nar!Return(q, Nar!Template, FALSE, {}, cost)
    BY <1>0, <1>s, <1>t, <1>3, Zenon DEF Nar!TextEmpty, Nar!ModelFails
  <2>2. Nar!Template \in Nar!Text
    BY FixedText DEF Nar!Template
  <2>3. QED
    BY <1>0, <1>s, <1>t, <2>1, <2>2, NarReturning, Zenon
<1>4. ASSUME Nar!Crash(q) PROVE Good
  <2>. DEFINE n == [nar[q] EXCEPT !.status = "crashed"]
  <2>1. nar' = [nar EXCEPT ![q] = n] /\ n \in Narration /\ n.status = "crashed"
    BY <1>0, <1>s, <1>t, <1>4 DEF Nar!Crash, Narration
  <2>. HIDE DEF n
  <2>2. NarrationOK(n)
    BY <2>1 DEF NarrationOK
  <2>3. QED
    BY <2>1, <2>2, OneNarration
<1>5. QED
  BY <1>1, <1>2, <1>3, <1>4 DEF Nar!Reply

LEMMA NarAbandons ==
  ASSUME Typed, NEW q \in Query, NarrationOK(nar[q]), Nar!Abandon(q)
  PROVE  NarMoves(q) /\ NarrationOK(nar'[q]) /\ nar'[q].status = "abandoned"
<1>. DEFINE n == [nar[q] EXCEPT !.status = "abandoned"]
<1>1. nar' = [nar EXCEPT ![q] = n] /\ n \in Narration /\ n.status = "abandoned"
  BY DEF Nar!Abandon, Narration, Typed, Nar!TypeOK
<1>. HIDE DEF n
<1>2. NarrationOK(n)
  BY <1>1 DEF NarrationOK
<1>3. QED
  BY <1>1, <1>2, OneNarration
-----------------------------------------------------------------------------
(* The steps of the audit.                                                 *)
LEMMA AttemptsKept ==
  ASSUME Typed, NEW q \in Query, CallOK(gen[q])
  PROVE  /\ AuditAttempts(q) \in UNION {[1..n -> Ending] : n \in 0..SqlMaxAttempts}
         /\ gen[q].status # "returned" => Len(AuditAttempts(q)) = 0
         /\ gen[q].status = "returned" =>
              /\ Len(AuditAttempts(q)) = gen[q].usage
              /\ \A i \in 1..gen[q].usage : AuditAttempts(q)[i] = gen[q].attempts[i].outcome
<1>. DEFINE s == gen[q].attempts
<1>1. s \in Seq(Attempt) /\ Len(s) \in 0..SqlMaxAttempts /\ gen[q].usage = Len(s)
  BY Amounts DEF Typed, GenTyped, Call, CallOK
<1>2. CASE gen[q].status = "returned"
  <2>. DEFINE a == [i \in 1..Len(s) |-> s[i].outcome]
  <2>1. AuditAttempts(q) = a
    BY <1>1, <1>2 DEF AuditAttempts
  <2>2. a \in [1..Len(s) -> Ending]
    <3>1. \A i \in 1..Len(s) : s[i] \in Attempt
      BY <1>1
    <3>2. \A i \in 1..Len(s) : s[i].outcome \in Ending
      BY <3>1 DEF Attempt
    <3>3. QED
      BY <3>2
  <2>3. Len(a) = Len(s)
    BY <1>1, <2>2
  <2>4. \A i \in 1..Len(s) : a[i] = s[i].outcome
    OBVIOUS
  <2>. HIDE DEF a, s
  <2>5. a \in UNION {[1..n -> Ending] : n \in 0..SqlMaxAttempts}
    BY <1>1, <2>2
  <2>6. s = gen[q].attempts
    BY DEF s
  <2>7. QED
    BY <1>1, <1>2, <2>1, <2>3, <2>4, <2>5, <2>6
<1>3. CASE gen[q].status # "returned"
  <2>1. AuditAttempts(q) = <<>> /\ <<>> \in [1..0 -> Ending] /\ 0 \in 0..SqlMaxAttempts
    BY <1>3, Amounts DEF AuditAttempts
  <2>2. QED
    BY <1>3, <2>1
<1>4. QED
  BY <1>2, <1>3

LEMMA LogSubmits ==
  ASSUME Typed, NEW q \in Query, NEW e \in Entry, Log!Submit(q, e)
  PROVE  /\ LogMoves(q)
         /\ reply[q] = "idle" /\ reply'[q] = "pending" /\ entry'[q] = e /\ log'[q] = log[q]
BY DEF Typed, Log!TypeOK, Log!Submit, LogMoves

LEMMA LogRecords ==
  ASSUME Typed, NEW q \in Query, Log!Record(q)
  PROVE  /\ LogMoves(q)
         /\ reply[q] # "idle" /\ reply'[q] = reply[q]
         /\ entry'[q] = entry[q] /\ log[q] = Null /\ log'[q] = entry[q]
BY DEF Typed, Log!TypeOK, Log!Record, LogMoves

LEMMA LogAnswers ==
  ASSUME Typed, NEW q \in Query, Log!Acknowledge(q) \/ Log!GiveUp(q)
  PROVE  /\ LogMoves(q)
         /\ reply[q] = "pending" /\ reply'[q] \in {"written", "failed"}
         /\ reply'[q] = "written" => log[q] # Null
         /\ entry'[q] = entry[q] /\ log'[q] = log[q]
BY DEF Typed, Log!TypeOK, Log!Acknowledge, Log!GiveUp, Log!Answer, LogMoves
-----------------------------------------------------------------------------
(* What a run has paid when it goes to its audit: the calls of generation, *)
(* if it returned, or else it broke on a charge or a read of the budget.   *)
Settles(q, o) ==
  /\ step'[q] = "failed" => o \in DatabaseFailure
  /\ (step'[q] # "failed" /\ gen[q].status = "returned") =>
       paid'[q]["DAY"] >= gen[q].usage /\ paid'[q]["MONTH"] >= gen[q].usage

(* A run that goes to its audit takes with it what it did.                 *)
LEMMA AuditIsOK ==
  ASSUME Typed, NEW q \in Query, RunOK(q),
         pc[q] \in (Early \cup Decorated) \ {"new"},
         NEW o \in Outcome, NEW rows \in {"zero", "zeroAggregate", "some", Null},
         Audit(q, o, rows), RunMoves(q), events'[q] \in Told, AcctMoves(q), Settles(q, o),
         CallOK(gen'[q]), NarrationOK(nar'[q]),
         gen'[q].exit # "crash" => gen'[q] = gen[q],
         gen'[q].status \in {"idle", "returned"},
         o \in Answered =>
           /\ gen'[q].status = "returned" /\ gen'[q].exit = "result"
           /\ rows = shape'[q]
           /\ o = "OK_ZERO_ROWS" <=> shape'[q] = "zero"
           /\ Paid(q, gen[q].usage + nar[q].usage, gen[q].usage + nar[q].usage)'
           /\ "narrative" \in Names(q)' => (o = "OK" => nar'[q].verified),
         o \notin Answered => rows = Null,
         step'[q] \notin {"readDay", "readMonth"},
         step'[q] = "blocked" =>
           /\ gen'[q].status = "idle" /\ billed'[q] = 0
           /\ "sql" \notin Names(q)'
           /\ o = "THROTTLED_BUDGET"
  PROVE  RunOK(q)' /\ LogMoves(q)
<1>. DEFINE e == [outcome |-> o, attempts |-> AuditAttempts(q), rows |-> rows]
<1>1. e \in Entry
  <2>1. AuditAttempts(q) \in UNION {[1..n -> Ending] : n \in 0..SqlMaxAttempts}
    BY AttemptsKept DEF RunOK
  <2>2. QED
    BY <2>1 DEF Entry, Ending
<1>2. Log!Submit(q, e) /\ pc' = [pc EXCEPT ![q] = "auditing"]
      /\ outcome' = [outcome EXCEPT ![q] = o]
  BY DEF Audit, Goto
<1>3. pc'[q] = "auditing" /\ outcome'[q] = o /\ o # "none"
  BY <1>2 DEF Typed, PlaceTyped, Outcome, Answered, DatabaseFailure, Gen!Sentinel, Rejection
<1>4. /\ LogMoves(q) /\ reply'[q] = "pending" /\ log'[q] = log[q]
      /\ entry'[q].outcome = o /\ entry'[q].attempts = AuditAttempts(q) /\ entry'[q].rows = rows
  <2>1. LogMoves(q) /\ reply'[q] = "pending" /\ log'[q] = log[q] /\ entry'[q] = e
    <3>. HIDE DEF e
    <3>1. QED
      BY <1>1, <1>2, LogSubmits
  <2>2. QED
    BY <2>1
<1>5. log'[q] = Null
  BY <1>4 DEF RunOK, RecordOK
<1>6. gen'[q].exit # "crash" => AuditAttempts(q)' = AuditAttempts(q)
  BY DEF AuditAttempts
<1>p. PaidUp(q)'
  <2>1. paid'[q]["DAY"] \in Nat /\ paid'[q]["MONTH"] \in Nat
    BY DEF AcctMoves, Acct!TypeOK, Acct!PeriodType
  <2>2. CASE gen[q].status = "returned"
    <3>1. Len(entry'[q].attempts) = gen[q].usage
      BY <1>4, <2>2, AttemptsKept DEF RunOK
    <3>2. QED
      BY <1>3, <2>2, <3>1 DEF Settles, PaidUp
  <2>3. CASE gen[q].status # "returned"
    <3>1. Len(entry'[q].attempts) = 0
      BY <1>4, <2>3, AttemptsKept DEF RunOK
    <3>2. QED
      BY <1>3, <2>1, <3>1 DEF Settles, PaidUp
  <2>4. QED
    BY <2>2, <2>3
<1>7. RecordOK(q)'
  BY <1>3, <1>4, <1>5, <1>6, <1>p DEF RecordOK, Early, Decorated
<1>8. CallsMade(q)'
  BY <1>3 DEF CallsMade, Early, Decorated
<1>9. MoneyPaid(q)'
  BY <1>3 DEF MoneyPaid, Paid
<1>10. BlockedIsIdle(q)'
  BY <1>3 DEF BlockedIsIdle
<1>11. Heading(q)'
  BY <1>3 DEF Heading, Early, Decorated
<1>12. WordsSaid(q)'
  BY <1>3 DEF WordsSaid, Early, Answered
<1>13. QED
  BY <1>4, <1>7, <1>8, <1>9, <1>10, <1>11, <1>12 DEF RunOK

LEMMA SaidSoFar ==
  ASSUME NEW q \in Query, RunOK(q), pc[q] \in Early \cup Decorated
  PROVE  events[q] \in Told /\ "narrative" \notin Names(q)
<1>1. events[q] \in {<<>>, SaidSql, SaidRows, SaidWarned}
  BY DEF RunOK, WordsSaid, Early, Decorated
<1>2. NamesOf(events[q]) = Names(q)
  BY DEF NamesOf, Names
<1>3. QED
  BY <1>1, <1>2, NamesTold DEF Told

(* One that fails has said what it had said.                               *)
LEMMA FailureIsOK ==
  ASSUME Typed, NEW q \in Query, RunOK(q),
         pc[q] \in (Early \cup Decorated) \ {"new"},
         NEW o \in Outcome \ Answered,
         Audit(q, o, Null), UNCHANGED <<shape, events>>, AcctMoves(q), Settles(q, o),
         CallOK(gen'[q]), NarrationOK(nar'[q]),
         gen'[q].exit # "crash" => gen'[q] = gen[q],
         gen'[q].status \in {"idle", "returned"},
         step'[q] \notin {"readDay", "readMonth"},
         step'[q] = "blocked" =>
           /\ gen'[q].status = "idle" /\ billed'[q] = 0
           /\ "sql" \notin Names(q)
           /\ o = "THROTTLED_BUDGET"
  PROVE  RunOK(q)' /\ LogMoves(q) /\ RunMoves(q)
<1>1. RunMoves(q) /\ events'[q] = events[q]
  <2>1. pc' = [pc EXCEPT ![q] = "auditing"] /\ outcome' = [outcome EXCEPT ![q] = o]
        /\ shape' = [shape EXCEPT ![q] = shape[q]] /\ shape[q] \in Shape
        /\ "auditing" \in Place /\ o \in Outcome \cup {"none"}
    BY DEF Audit, Goto, Typed, PlaceTyped, Place
  <2>2. QED
    BY <2>1, MovedSilently
<1>2. Names(q)' = Names(q) /\ events'[q] \in Told
  BY <1>1, SaidSoFar DEF Names
<1>3. Null \in {"zero", "zeroAggregate", "some", Null}
  OBVIOUS
<1>4. RunOK(q)' /\ LogMoves(q)
  BY <1>1, <1>2, <1>3, AuditIsOK
<1>5. QED
  BY <1>1, <1>4
-----------------------------------------------------------------------------
(* The steps of a run, one lemma each.                                     *)
StepOK(q) ==
  /\ GenMoves(q) /\ AcctMoves(q) /\ NarMoves(q) /\ LogMoves(q) /\ RunMoves(q)
  /\ RunOK(q)'

LEMMA StartIsOK ==
  ASSUME Typed, NEW q \in Query, RunOK(q), Start(q) PROVE StepOK(q)
<1>1. UNCHANGED genVars /\ UNCHANGED narVars /\ UNCHANGED logVars
  BY DEF Start
<1>2. /\ GenMoves(q) /\ gen'[q] = gen[q] /\ billed'[q] = billed[q]
      /\ NarMoves(q) /\ nar'[q] = nar[q]
      /\ LogMoves(q) /\ entry'[q] = entry[q] /\ log'[q] = log[q] /\ reply'[q] = reply[q]
  BY <1>1, UnmovedGen, UnmovedNar, UnmovedLog
<1>3. AcctMoves(q) /\ step'[q] = "readDay" /\ Paid(q, 0, 0)'
  BY AcctArrives DEF Start
<1>4. /\ RunMoves(q) /\ pc'[q] = "budget" /\ outcome'[q] = outcome[q] /\ shape'[q] = shape[q]
      /\ events'[q] = events[q]
  <2>1. pc' = [pc EXCEPT ![q] = "budget"] /\ outcome' = [outcome EXCEPT ![q] = outcome[q]]
        /\ shape' = [shape EXCEPT ![q] = shape[q]] /\ shape[q] \in Shape
        /\ outcome[q] \in Outcome \cup {"none"} /\ "budget" \in Place /\ UNCHANGED events
    BY DEF Start, Goto, Typed, PlaceTyped, Place
  <2>2. QED
    BY <2>1, MovedSilently
<1>5. pc[q] = "new"
  BY DEF Start
<1>6. CallOK(gen[q])' /\ NarrationOK(nar[q])'
  BY <1>2 DEF RunOK
<1>7. CallsMade(q)'
  BY <1>2, <1>4, <1>5 DEF RunOK, CallsMade, Early, Decorated
<1>8. MoneyPaid(q)'
  BY <1>3, <1>4 DEF MoneyPaid, Paid
<1>9. BlockedIsIdle(q)'
  BY <1>3 DEF BlockedIsIdle
<1>10. Heading(q)'
  BY <1>4, <1>5 DEF RunOK, Heading, Early, Decorated
<1>11. RecordOK(q)'
  BY <1>2, <1>4, <1>5 DEF RunOK, RecordOK, Early, Decorated
<1>12. WordsSaid(q)'
  BY <1>2, <1>4, <1>5 DEF RunOK, WordsSaid, Early, Names
<1>13. QED
  BY <1>2, <1>3, <1>4, <1>6, <1>7, <1>8, <1>9, <1>10, <1>11, <1>12 DEF StepOK, RunOK

LEMMA ReadBudgetIsOK ==
  ASSUME Typed, NEW q \in Query, RunOK(q), ReadBudget(q) PROVE StepOK(q)
<1>1. pc[q] = "budget" /\ UNCHANGED narVars /\ UNCHANGED <<shape, events>>
  BY DEF ReadBudget
<1>2. /\ gen[q].status = "idle" /\ billed[q] = 0 /\ Paid(q, 0, 0) /\ events[q] = <<>>
      /\ CallOK(gen[q]) /\ NarrationOK(nar[q]) /\ nar[q].status = "idle"
  BY <1>1 DEF RunOK, CallsMade, MoneyPaid, WordsSaid, Early
<1>3. /\ AcctMoves(q) /\ step'[q] \in {"readMonth", "admitted", "blocked"}
      /\ owed'[q] = owed[q] /\ paid'[q] = paid[q]
  BY AcctReads DEF ReadBudget
<1>4. NarMoves(q) /\ nar'[q] = nar[q]
  BY <1>1, UnmovedNar
<1>5. CASE step'[q] = "readMonth"
  <2>1. UNCHANGED genVars /\ UNCHANGED logVars /\ UNCHANGED runVars
    BY <1>1, <1>5 DEF ReadBudget, runVars
  <2>2. /\ GenMoves(q) /\ gen'[q] = gen[q] /\ billed'[q] = billed[q]
        /\ LogMoves(q) /\ entry'[q] = entry[q] /\ log'[q] = log[q] /\ reply'[q] = reply[q]
        /\ RunMoves(q) /\ pc'[q] = pc[q] /\ outcome'[q] = outcome[q] /\ shape'[q] = shape[q]
        /\ events'[q] = events[q]
    BY <2>1, UnmovedGen, UnmovedLog, UnmovedRun
  <2>3. CallOK(gen[q])' /\ NarrationOK(nar[q])' /\ CallsMade(q)'
    BY <1>1, <1>2, <1>4, <2>2 DEF CallsMade, Early, Decorated
  <2>4. MoneyPaid(q)' /\ BlockedIsIdle(q)'
    BY <1>1, <1>2, <1>3, <1>5, <2>2 DEF MoneyPaid, Paid, BlockedIsIdle
  <2>5. Heading(q)' /\ RecordOK(q)'
    BY <1>1, <2>2 DEF RunOK, Heading, RecordOK, Early, Decorated
  <2>6. WordsSaid(q)'
    BY <1>1, <1>2, <2>2 DEF WordsSaid, Names, Early
  <2>7. QED
    BY <1>3, <1>4, <2>2, <2>3, <2>4, <2>5, <2>6 DEF StepOK, RunOK
<1>6. CASE step'[q] = "blocked"
  <2>1. UNCHANGED genVars /\ Audit(q, "THROTTLED_BUDGET", Null)
    BY <1>6 DEF ReadBudget
  <2>2. GenMoves(q) /\ gen'[q] = gen[q] /\ billed'[q] = billed[q]
    BY <2>1, UnmovedGen
  <2>3. "THROTTLED_BUDGET" \in Outcome \ Answered /\ pc[q] \in (Early \cup Decorated) \ {"new"}
    BY <1>1 DEF Outcome, Answered, Early
  <2>4. "sql" \notin Names(q)
    BY <1>2 DEF Names
  <2>5. RunOK(q)' /\ LogMoves(q) /\ RunMoves(q)
    <3>1. Settles(q, "THROTTLED_BUDGET")
      BY <1>2, <1>6 DEF Settles
    <3>2. QED
      BY <1>1, <1>2, <1>3, <1>4, <1>6, <2>1, <2>2, <2>3, <2>4, <3>1, FailureIsOK
  <2>6. QED
    BY <1>3, <1>4, <2>2, <2>5 DEF StepOK
<1>7. CASE step'[q] = "admitted"
  <2>1. PICK inherited \in Period \cup {NoPeriod} : Gen!Begin(q, inherited)
    BY <1>7 DEF ReadBudget
  <2>2. pc' = [pc EXCEPT ![q] = "generating"] /\ UNCHANGED logVars /\ UNCHANGED outcome
    BY <1>7 DEF ReadBudget, Goto
  <2>3. GenMoves(q) /\ CallOK(gen'[q]) /\ gen'[q].status = "calling"
    BY <1>2, <2>1, GenBegins
  <2>4. LogMoves(q) /\ entry'[q] = entry[q] /\ log'[q] = log[q] /\ reply'[q] = reply[q]
    BY <2>2, UnmovedLog
  <2>5. /\ RunMoves(q) /\ pc'[q] = "generating" /\ outcome'[q] = outcome[q]
        /\ shape'[q] = shape[q] /\ events'[q] = events[q]
    <3>1. /\ outcome' = [outcome EXCEPT ![q] = outcome[q]]
          /\ shape' = [shape EXCEPT ![q] = shape[q]] /\ shape[q] \in Shape
          /\ outcome[q] \in Outcome \cup {"none"} /\ "generating" \in Place /\ UNCHANGED events
      BY <1>1, <2>2 DEF Typed, PlaceTyped, Place
    <3>2. QED
      BY <2>2, <3>1, MovedSilently
  <2>6. CallOK(gen[q])' /\ NarrationOK(nar[q])' /\ CallsMade(q)'
    BY <1>2, <1>4, <2>3, <2>5 DEF CallsMade, Early, Decorated
  <2>7. MoneyPaid(q)' /\ BlockedIsIdle(q)'
    BY <1>2, <1>3, <1>7, <2>5 DEF MoneyPaid, Paid, BlockedIsIdle
  <2>8. Heading(q)' /\ RecordOK(q)'
    BY <1>1, <2>4, <2>5 DEF RunOK, Heading, RecordOK, Early, Decorated
  <2>9. WordsSaid(q)'
    BY <1>2, <2>5 DEF WordsSaid, Names, Early
  <2>10. QED
    BY <1>3, <1>4, <2>3, <2>4, <2>5, <2>6, <2>7, <2>8, <2>9 DEF StepOK, RunOK
<1>8. QED
  BY <1>3, <1>5, <1>6, <1>7

LEMMA ReadBudgetFailsIsOK ==
  ASSUME Typed, NEW q \in Query, RunOK(q), ReadBudgetFails(q) PROVE StepOK(q)
<1>1. PICK o \in DatabaseFailure : Fail(q, o)
  BY DEF ReadBudgetFails
<1>2. /\ pc[q] = "budget" /\ UNCHANGED genVars /\ UNCHANGED narVars
      /\ Audit(q, o, Null) /\ UNCHANGED <<shape, events>>
  BY <1>1 DEF ReadBudgetFails, Fail
<1>3. AcctMoves(q) /\ step'[q] = "failed"
  BY AcctReadFails DEF ReadBudgetFails
<1>4. GenMoves(q) /\ gen'[q] = gen[q] /\ NarMoves(q) /\ nar'[q] = nar[q]
  BY <1>2, UnmovedGen, UnmovedNar
<1>5. CallOK(gen[q]) /\ NarrationOK(nar[q]) /\ gen[q].status = "idle"
  BY <1>2 DEF RunOK, CallsMade
<1>6. o \in Outcome \ Answered /\ pc[q] \in (Early \cup Decorated) \ {"new"}
  BY <1>2 DEF Outcome, Answered, Early, DatabaseFailure
<1>7. RunOK(q)' /\ LogMoves(q) /\ RunMoves(q)
  <2>1. Settles(q, o)
    BY <1>3 DEF Settles
  <2>2. QED
    BY <1>2, <1>3, <1>4, <1>5, <1>6, <2>1, FailureIsOK
<1>8. QED
  BY <1>3, <1>4, <1>7 DEF StepOK

LEMMA GenerateIsOK ==
  ASSUME Typed, NEW q \in Query, RunOK(q), Generate(q) PROVE StepOK(q)
<1>1. pc[q] = "generating" /\ Gen!Reply(q) /\ UNCHANGED acctVars /\ UNCHANGED narVars
  BY DEF Generate
<1>2. /\ CallOK(gen[q]) /\ NarrationOK(nar[q]) /\ nar[q].status = "idle"
      /\ step[q] = "admitted" /\ Paid(q, 0, 0) /\ events[q] = <<>> /\ reply[q] = "idle"
  BY <1>1 DEF RunOK, CallsMade, MoneyPaid, WordsSaid, RecordOK, Early
<1>3. /\ GenMoves(q) /\ CallOK(gen'[q]) /\ gen'[q].status \in {"calling", "returned"}
  BY <1>1, <1>2, GenReplies
<1>4. /\ AcctMoves(q) /\ step'[q] = step[q] /\ owed'[q] = owed[q] /\ paid'[q] = paid[q]
      /\ NarMoves(q) /\ nar'[q] = nar[q]
  BY <1>1, UnmovedAcct, UnmovedNar
<1>5. CASE gen'[q].status = "calling"
  <2>1. gen'[q].exit = "none"
    BY <1>3, <1>5 DEF CallOK
  <2>2. UNCHANGED logVars /\ UNCHANGED runVars
    BY <1>5, <2>1 DEF Generate
  <2>3. /\ LogMoves(q) /\ entry'[q] = entry[q] /\ log'[q] = log[q] /\ reply'[q] = reply[q]
        /\ RunMoves(q) /\ pc'[q] = pc[q] /\ outcome'[q] = outcome[q] /\ shape'[q] = shape[q]
        /\ events'[q] = events[q]
    BY <2>2, UnmovedLog, UnmovedRun
  <2>4. CallsMade(q)'
    BY <1>1, <1>2, <1>4, <1>5, <2>3 DEF CallsMade, Early, Decorated
  <2>5. MoneyPaid(q)' /\ BlockedIsIdle(q)'
    BY <1>1, <1>2, <1>4, <2>3 DEF MoneyPaid, Paid, BlockedIsIdle
  <2>6. Heading(q)' /\ RecordOK(q)'
    BY <1>1, <1>2, <2>3 DEF RunOK, Heading, RecordOK, Early, Decorated
  <2>7. WordsSaid(q)'
    BY <1>1, <1>2, <2>3 DEF WordsSaid, Names, Early
  <2>8. QED
    BY <1>2, <1>3, <1>4, <2>3, <2>4, <2>5, <2>6, <2>7 DEF StepOK, RunOK
<1>6. CASE gen'[q].status = "returned" /\ gen'[q].exit # "crash"
  <2>1. pc' = [pc EXCEPT ![q] = "accounting"] /\ UNCHANGED logVars
        /\ UNCHANGED <<outcome, shape, events>>
    BY <1>6 DEF Generate, Goto
  <2>2. LogMoves(q) /\ entry'[q] = entry[q] /\ log'[q] = log[q] /\ reply'[q] = reply[q]
    BY <2>1, UnmovedLog
  <2>3. /\ RunMoves(q) /\ pc'[q] = "accounting" /\ outcome'[q] = outcome[q]
        /\ shape'[q] = shape[q] /\ events'[q] = events[q]
    <3>1. /\ outcome' = [outcome EXCEPT ![q] = outcome[q]]
          /\ shape' = [shape EXCEPT ![q] = shape[q]] /\ shape[q] \in Shape
          /\ outcome[q] \in Outcome \cup {"none"} /\ "accounting" \in Place /\ UNCHANGED events
      BY <2>1 DEF Typed, PlaceTyped, Place
    <3>2. QED
      BY <2>1, <3>1, MovedSilently
  <2>4. CallsMade(q)'
    BY <1>2, <1>4, <1>6, <2>3 DEF CallsMade, Early, Decorated
  <2>5. MoneyPaid(q)' /\ BlockedIsIdle(q)'
    BY <1>2, <1>4, <2>3 DEF MoneyPaid, Paid, BlockedIsIdle
  <2>6. Heading(q)' /\ RecordOK(q)'
    BY <1>1, <1>2, <2>2, <2>3 DEF RunOK, Heading, RecordOK, Early, Decorated
  <2>7. WordsSaid(q)'
    BY <1>2, <2>3 DEF WordsSaid, Names, Early
  <2>8. QED
    BY <1>2, <1>3, <1>4, <2>2, <2>3, <2>4, <2>5, <2>6, <2>7 DEF StepOK, RunOK
<1>7. CASE gen'[q].status = "returned" /\ gen'[q].exit = "crash"
  <2>1. Audit(q, gen'[q].outcome, Null) /\ UNCHANGED <<shape, events>>
    BY <1>7 DEF Generate, Fail
  <2>2. gen'[q].outcome \in Outcome \ Answered /\ gen'[q].outcome # "THROTTLED_BUDGET"
    <3>1. gen'[q] \in Call
      BY <1>3 DEF GenMoves, GenTyped
    <3>2. QED
      BY <1>3, <1>7, <3>1 DEF CallOK, Call
  <2>3. pc[q] \in (Early \cup Decorated) \ {"new"}
    BY <1>1 DEF Early
  <2>4. RunOK(q)' /\ LogMoves(q) /\ RunMoves(q)
    <3>1. gen[q].status = "calling"
      BY <1>1 DEF RunOK, CallsMade
    <3>2. Settles(q, gen'[q].outcome)
      BY <1>2, <1>4, <3>1 DEF Settles
    <3>3. PICK o \in Outcome \ Answered : o = gen'[q].outcome
      BY <2>2
    <3>4. Audit(q, o, Null) /\ Settles(q, o) /\ o # "THROTTLED_BUDGET"
      BY <2>1, <2>2, <3>2, <3>3
    <3>5. QED
      BY <1>2, <1>3, <1>4, <1>7, <2>1, <2>3, <3>4, FailureIsOK
  <2>5. QED
    BY <1>3, <1>4, <2>4 DEF StepOK
<1>8. QED
  BY <1>3, <1>5, <1>6, <1>7

LEMMA ChargeDailyIsOK ==
  ASSUME Typed, NEW q \in Query, RunOK(q), ChargeDaily(q) PROVE StepOK(q)
<1>1. UNCHANGED genVars /\ UNCHANGED narVars /\ UNCHANGED logVars /\ UNCHANGED runVars
  BY DEF ChargeDaily
<1>2. /\ GenMoves(q) /\ gen'[q] = gen[q] /\ billed'[q] = billed[q]
      /\ NarMoves(q) /\ nar'[q] = nar[q]
      /\ LogMoves(q) /\ entry'[q] = entry[q] /\ log'[q] = log[q] /\ reply'[q] = reply[q]
      /\ RunMoves(q) /\ pc'[q] = pc[q] /\ outcome'[q] = outcome[q] /\ shape'[q] = shape[q]
      /\ events'[q] = events[q]
  BY <1>1, UnmovedGen, UnmovedNar, UnmovedLog, UnmovedRun
<1>3. gen[q].usage \in Nat /\ nar[q].usage \in Nat
  BY Amounts DEF Typed, GenTyped, Call, Nar!TypeOK
<1>4. AcctMoves(q) /\ step'[q] = "payMonth" /\ MoneyPaid(q)'
  <2>1. CASE pc[q] = "accounting" /\ Acct!PayDaily(q, gen[q].usage)
    <3>1. /\ AcctMoves(q) /\ step[q] = "admitted" /\ step'[q] = "payMonth"
          /\ owed'[q] = gen[q].usage
          /\ paid'[q]["DAY"] = paid[q]["DAY"] + gen[q].usage
          /\ paid'[q]["MONTH"] = paid[q]["MONTH"]
      BY <1>3, <2>1, AcctPaysDaily
    <3>2. Paid(q, 0, 0)
      BY <2>1, <3>1 DEF RunOK, MoneyPaid
    <3>3. MoneyPaid(q)'
      BY <1>2, <1>3, <2>1, <3>1, <3>2 DEF MoneyPaid, Paid
    <3>4. QED
      BY <3>1, <3>3
  <2>2. CASE pc[q] = "accounting_narrative" /\ Acct!PayDaily(q, nar[q].usage)
    <3>1. /\ AcctMoves(q) /\ step[q] = "admitted" /\ step'[q] = "payMonth"
          /\ owed'[q] = nar[q].usage
          /\ paid'[q]["DAY"] = paid[q]["DAY"] + nar[q].usage
          /\ paid'[q]["MONTH"] = paid[q]["MONTH"]
      BY <1>3, <2>2, AcctPaysDaily
    <3>2. Paid(q, gen[q].usage, gen[q].usage)
      BY <2>2, <3>1 DEF RunOK, MoneyPaid
    <3>3. MoneyPaid(q)'
      BY <1>2, <1>3, <2>2, <3>1, <3>2 DEF MoneyPaid, Paid
    <3>4. QED
      BY <3>1, <3>3
  <2>3. QED
    BY <2>1, <2>2 DEF ChargeDaily
<1>5. CallOK(gen[q])' /\ NarrationOK(nar[q])'
  BY <1>2 DEF RunOK
<1>6. CallsMade(q)' /\ BlockedIsIdle(q)'
  BY <1>2, <1>4 DEF RunOK, CallsMade, BlockedIsIdle, Early, Decorated
<1>7. Heading(q)' /\ WordsSaid(q)'
  BY <1>2 DEF RunOK, Heading, WordsSaid, Names, Early, Decorated
<1>8. RecordOK(q)'
  <2>1. pc[q] \in {"accounting", "accounting_narrative"}
    BY DEF ChargeDaily
  <2>2. reply[q] = "idle" /\ log[q] = Null
    BY <2>1 DEF RunOK, RecordOK, Early, Decorated
  <2>3. QED
    BY <1>2, <2>1, <2>2 DEF RecordOK, Early, Decorated
<1>9. QED
  BY <1>2, <1>4, <1>5, <1>6, <1>7, <1>8 DEF StepOK, RunOK

LEMMA ChargeMonthlyIsOK ==
  ASSUME Typed, NEW q \in Query, RunOK(q), ChargeMonthly(q) PROVE StepOK(q)
<1>1. /\ pc[q] = "accounting" /\ Acct!PayMonthly(q)
      /\ UNCHANGED genVars /\ UNCHANGED narVars /\ UNCHANGED shape
  BY DEF ChargeMonthly
<1>2. /\ GenMoves(q) /\ gen'[q] = gen[q] /\ billed'[q] = billed[q]
      /\ NarMoves(q) /\ nar'[q] = nar[q]
  BY <1>1, UnmovedGen, UnmovedNar
<1>3. gen[q] \in Call /\ gen[q].usage \in Nat
  BY DEF Typed, GenTyped, Call
<1>4. /\ AcctMoves(q) /\ step[q] = "payMonth" /\ step'[q] = "admitted"
      /\ paid'[q]["DAY"] = paid[q]["DAY"]
      /\ paid'[q]["MONTH"] = paid[q]["MONTH"] + owed[q]
  BY <1>1, AcctPaysMonthly
<1>5. /\ CallOK(gen[q]) /\ NarrationOK(nar[q])
      /\ gen[q].status = "returned" /\ gen[q].exit \notin {"crash", "none"}
      /\ nar[q].status = "idle" /\ events[q] = <<>> /\ reply[q] = "idle" /\ log[q] = Null
      /\ outcome[q] = "none" /\ shape[q] = "none"
  BY <1>1 DEF RunOK, CallsMade, CallOK, WordsSaid, RecordOK, Heading, Early
<1>6. Paid(q, gen[q].usage, gen[q].usage)'
  <2>1. owed[q] = gen[q].usage /\ Paid(q, gen[q].usage, 0)
    BY <1>1, <1>4 DEF RunOK, MoneyPaid
  <2>2. QED
    BY <1>2, <1>3, <1>4, <2>1 DEF Paid
<1>7. CASE gen[q].exit = "result"
  <2>1. /\ pc' = [pc EXCEPT ![q] = "executing"]
        /\ events' = [events EXCEPT ![q] = @ \o <<Event("sql")>>]
        /\ UNCHANGED logVars /\ UNCHANGED outcome
    BY <1>7 DEF ChargeMonthly, Emit, Goto
  <2>2. LogMoves(q) /\ entry'[q] = entry[q] /\ log'[q] = log[q] /\ reply'[q] = reply[q]
    BY <2>1, UnmovedLog
  <2>3. /\ RunMoves(q) /\ pc'[q] = "executing" /\ outcome'[q] = outcome[q]
        /\ shape'[q] = shape[q] /\ events'[q] = SaidSql
    <3>1. /\ outcome' = [outcome EXCEPT ![q] = outcome[q]]
          /\ shape' = [shape EXCEPT ![q] = shape[q]] /\ shape[q] \in Shape
          /\ outcome[q] \in Outcome \cup {"none"} /\ "executing" \in Place
      BY <1>1, <2>1 DEF Typed, PlaceTyped, Place
    <3>2. SaidSql \in Seq(Said) /\ SaidSql = <<Event("sql")>>
      BY ToldIsSaid DEF Told, SaidSql
    <3>3. events' = [events EXCEPT ![q] = SaidSql] /\ Len(events[q]) <= Len(SaidSql)
      BY <1>5, <2>1, <3>2, Tellings, Adding
    <3>4. QED
      BY <2>1, <3>1, <3>2, <3>3, Moved
  <2>4. CallsMade(q)'
    BY <1>2, <1>5, <1>7, <2>3 DEF CallsMade, Early, Decorated
  <2>5. MoneyPaid(q)' /\ BlockedIsIdle(q)'
    BY <1>2, <1>4, <1>6, <2>3 DEF MoneyPaid, Paid, BlockedIsIdle
  <2>6. Heading(q)' /\ RecordOK(q)'
    BY <1>1, <1>5, <2>2, <2>3 DEF RunOK, Heading, RecordOK, Early, Decorated
  <2>7. WordsSaid(q)'
    <3>1. "narrative" \notin Names(q)'
      BY <2>3, NamesTold DEF NamesOf, Names
    <3>2. QED
      BY <2>3, <3>1 DEF WordsSaid, Early
  <2>8. QED
    BY <1>2, <1>4, <1>5, <2>2, <2>3, <2>4, <2>5, <2>6, <2>7 DEF StepOK, RunOK
<1>8. CASE gen[q].exit # "result"
  <2>1. Audit(q, gen[q].outcome, Null) /\ UNCHANGED <<shape, events>>
    BY <1>1, <1>8 DEF ChargeMonthly
  <2>2. gen[q].outcome \in Outcome \ Answered
    BY <1>3, <1>5, <1>8 DEF CallOK, Call
  <2>3. pc[q] \in (Early \cup Decorated) \ {"new"}
    BY <1>1 DEF Early
  <2>4. RunOK(q)' /\ LogMoves(q) /\ RunMoves(q)
    <3>1. PICK o \in Outcome \ Answered : o = gen[q].outcome
      BY <2>2
    <3>2. Settles(q, o)
      BY <1>2, <1>3, <1>4, <1>6 DEF Settles, Paid
    <3>3. Audit(q, o, Null)
      BY <2>1, <3>1
    <3>4. QED
      BY <1>2, <1>4, <1>5, <2>1, <2>3, <3>2, <3>3, FailureIsOK
  <2>5. QED
    BY <1>2, <1>4, <2>4 DEF StepOK
<1>9. QED
  BY <1>7, <1>8

LEMMA ChargeFailsIsOK ==
  ASSUME Typed, NEW q \in Query, RunOK(q), ChargeFails(q) PROVE StepOK(q)
<1>1. PICK o \in DatabaseFailure : Fail(q, o)
  BY DEF ChargeFails
<1>2. /\ ChargeBreaks(q) /\ UNCHANGED genVars /\ UNCHANGED narVars
      /\ Audit(q, o, Null) /\ UNCHANGED <<shape, events>>
  BY <1>1 DEF ChargeFails, Fail
<1>3. pc[q] \in {"accounting", "accounting_narrative"} /\ gen[q].usage \in Nat
  BY <1>2 DEF ChargeBreaks, Typed, GenTyped, Call
<1>4. AcctMoves(q) /\ step'[q] = "failed"
  BY <1>2, <1>3, AcctBreaks
<1>5. GenMoves(q) /\ gen'[q] = gen[q] /\ NarMoves(q) /\ nar'[q] = nar[q]
  BY <1>2, UnmovedGen, UnmovedNar
<1>6. CallOK(gen[q]) /\ NarrationOK(nar[q]) /\ gen[q].status = "returned"
  BY <1>3 DEF RunOK, CallsMade, Decorated
<1>7. o \in Outcome \ Answered /\ pc[q] \in (Early \cup Decorated) \ {"new"}
  BY <1>3 DEF Outcome, Answered, Early, Decorated, DatabaseFailure
<1>8. RunOK(q)' /\ LogMoves(q) /\ RunMoves(q)
  <2>1. Settles(q, o)
    BY <1>4 DEF Settles
  <2>2. QED
    BY <1>2, <1>4, <1>5, <1>6, <1>7, <2>1, FailureIsOK
<1>9. QED
  BY <1>4, <1>5, <1>8 DEF StepOK

LEMMA DataFailsIsOK ==
  ASSUME Typed, NEW q \in Query, RunOK(q), DataFails(q) PROVE StepOK(q)
<1>1. PICK o \in DatabaseFailure \cup {"FAILED_INTERNAL_ERROR"} : Fail(q, o)
  BY DEF DataFails
<1>2. /\ pc[q] \in {"executing", "diagnosing"}
      /\ UNCHANGED acctVars /\ UNCHANGED genVars /\ UNCHANGED narVars
      /\ Audit(q, o, Null) /\ UNCHANGED <<shape, events>>
  BY <1>1 DEF DataFails, Fail
<1>3. /\ AcctMoves(q) /\ step'[q] = step[q] /\ GenMoves(q) /\ gen'[q] = gen[q]
      /\ NarMoves(q) /\ nar'[q] = nar[q]
  BY <1>2, UnmovedAcct, UnmovedGen, UnmovedNar
<1>4. /\ CallOK(gen[q]) /\ NarrationOK(nar[q]) /\ gen[q].status = "returned"
      /\ step[q] = "admitted"
  BY <1>2 DEF RunOK, CallsMade, MoneyPaid, Decorated
<1>5. o \in Outcome \ Answered /\ pc[q] \in (Early \cup Decorated) \ {"new"}
  BY <1>2 DEF Outcome, Answered, Early, Decorated, DatabaseFailure
<1>6. RunOK(q)' /\ LogMoves(q) /\ RunMoves(q)
  <2>1. Settles(q, o)
    <3>1. Paid(q, gen[q].usage, gen[q].usage) /\ gen[q].usage \in Nat
      BY <1>2 DEF RunOK, MoneyPaid, Typed, GenTyped, Call
    <3>2. paid'[q] = paid[q]
      BY <1>2 DEF acctVars
    <3>3. QED
      BY <1>3, <1>4, <3>1, <3>2 DEF Settles, Paid
  <2>2. QED
    BY <1>2, <1>3, <1>4, <1>5, <2>1, FailureIsOK
<1>7. QED
  BY <1>3, <1>6 DEF StepOK

(* What follows the rows, whether they had to be diagnosed or not.         *)
LEMMA DecorateIsOK ==
  ASSUME Typed, NEW q \in Query, RunOK(q), pc[q] \in {"executing", "diagnosing"},
         NEW es \in Seq(Said), NEW warned \in BOOLEAN,
         NEW s \in {"zero", "zeroAggregate", "some"}, NEW o,
         o = IF s = "zero" THEN "OK_ZERO_ROWS" ELSE "OK",
         events[q] \o (es \o <<>>) = SaidRows,
         events[q] \o (es \o <<Event("warnings")>>) = SaidWarned,
         UNCHANGED acctVars, UNCHANGED genVars,
         Decorate(q, es, o, s, warned)
  PROVE  StepOK(q)
<1>. DEFINE told == es \o IF warned THEN <<Event("warnings")>> ELSE <<>>
<1>1. /\ AcctMoves(q) /\ step'[q] = step[q] /\ owed'[q] = owed[q] /\ paid'[q] = paid[q]
      /\ GenMoves(q) /\ gen'[q] = gen[q] /\ billed'[q] = billed[q]
  BY UnmovedAcct, UnmovedGen
<1>2. /\ CallOK(gen[q]) /\ NarrationOK(nar[q]) /\ gen[q].status = "returned"
      /\ gen[q].exit = "result" /\ nar[q].status = "idle" /\ nar[q].usage = 0
      /\ step[q] = "admitted" /\ Paid(q, gen[q].usage, gen[q].usage) /\ reply[q] = "idle"
      /\ gen[q].usage \in Nat
  BY DEF RunOK, CallsMade, NarrationOK, MoneyPaid, RecordOK, Early, Decorated,
         Typed, GenTyped, Call
<1>. DEFINE said == IF warned THEN SaidWarned ELSE SaidRows
<1>3. /\ said \in Seq(Said) /\ said \in {SaidRows, SaidWarned} /\ Len(events[q]) <= Len(said)
      /\ events' = [events EXCEPT ![q] = said] /\ shape' = [shape EXCEPT ![q] = s]
  <2>1. <<Event("warnings")>> \in Seq(Said) /\ <<>> \in Seq(Said)
    BY EventIsSaid
  <2>2. told \in Seq(Said) /\ events[q] \o told = said
    <3>1. CASE warned
      <4>1. told = es \o <<Event("warnings")>> /\ said = SaidWarned
        BY <3>1, Zenon
      <4>2. es \o <<Event("warnings")>> \in Seq(Said)
        BY <2>1, ConcatProperties, Zenon
      <4>3. QED
        BY <4>1, <4>2, Zenon
    <3>2. CASE ~warned
      <4>1. told = es \o <<>> /\ said = SaidRows
        BY <3>2, Zenon
      <4>2. es \o <<>> \in Seq(Said)
        BY <2>1, ConcatProperties, Zenon
      <4>3. QED
        BY <4>1, <4>2, Zenon
    <3>3. QED
      BY <3>1, <3>2
  <2>3. events' = [events EXCEPT ![q] = events[q] \o told] /\ shape' = [shape EXCEPT ![q] = s]
    BY DEF Decorate, Emit
  <2>4. said \in Seq(Said) /\ Len(events[q]) <= Len(said)
    <3>. HIDE DEF told, said
    <3>1. QED
      BY <2>2, Adding
  <2>5. QED
    BY <2>2, <2>3, <2>4
<1>. HIDE DEF told, said
<1>4. /\ s \in Shape /\ o \in Outcome /\ o \in Outcome \cup {"none"} /\ o \in Answered
      /\ o # "none" /\ (o = "OK_ZERO_ROWS" <=> s = "zero")
  BY DEF Shape, Outcome, Answered
<1>5. ASSUME events'[q] \in {SaidRows, SaidWarned} PROVE "narrative" \notin Names(q)'
  <2>1. Names(q)' = NamesOf(events'[q])
    BY DEF NamesOf, Names
  <2>2. NamesOf(events'[q]) \subseteq {"sql", "row_count", "rows", "warnings"}
    <3>1. CASE events'[q] = SaidRows
      BY <3>1, NamesOfRows
    <3>2. CASE events'[q] = SaidWarned
      BY <3>2, NamesOfRows
    <3>3. QED
      BY <1>5, <3>1, <3>2
  <2>3. QED
    BY <2>1, <2>2
<1>6. CASE Audit(q, o, s) /\ UNCHANGED narVars
  <2>1. NarMoves(q) /\ nar'[q] = nar[q]
    BY <1>6, UnmovedNar
  <2>2. RunMoves(q) /\ shape'[q] = s /\ events'[q] = said
    <3>1. pc' = [pc EXCEPT ![q] = "auditing"] /\ outcome' = [outcome EXCEPT ![q] = o]
          /\ "auditing" \in Place
      BY <1>6 DEF Audit, Goto, Place
    <3>2. QED
      BY <1>3, <1>4, <3>1, Moved
  <2>3. events'[q] \in {SaidRows, SaidWarned} /\ events'[q] \in Told
    BY <1>3, <2>2 DEF Told
  <2>4. Paid(q, gen[q].usage + nar[q].usage, gen[q].usage + nar[q].usage)'
    BY <1>1, <1>2, <2>1 DEF Paid
  <2>5. pc[q] \in (Early \cup Decorated) \ {"new"} /\ s \in {"zero", "zeroAggregate", "some", Null}
    BY DEF Early, Decorated
  <2>6. RunOK(q)' /\ LogMoves(q)
    <3>1. Settles(q, o)
      BY <1>1, <1>2 DEF Settles, Paid
    <3>2. QED
      BY <1>1, <1>2, <1>4, <1>5, <1>6, <2>1, <2>2, <2>3, <2>4, <2>5, <3>1, AuditIsOK
  <2>7. QED
    BY <1>1, <2>1, <2>2, <2>6 DEF StepOK
<1>7. CASE \E f \in Nar!Facts :
             /\ Nar!Begin(q, f)
             /\ Goto(q, IF nar'[q].status = "returned" THEN "accounting_narrative"
                        ELSE "narrating")
             /\ outcome' = [outcome EXCEPT ![q] = o]
             /\ UNCHANGED logVars
  <2>1. PICK f \in Nar!Facts : Nar!Begin(q, f)
    BY <1>7
  <2>2. /\ NarMoves(q) /\ NarrationOK(nar'[q]) /\ nar'[q].status \in {"writing", "returned"}
    BY <1>2, <2>1, NarBegins
  <2>3. LogMoves(q) /\ entry'[q] = entry[q] /\ log'[q] = log[q] /\ reply'[q] = reply[q]
    BY <1>7, UnmovedLog
  <2>0. PICK place \in {"narrating", "accounting_narrative"} :
          place = IF nar'[q].status = "returned" THEN "accounting_narrative" ELSE "narrating"
    OBVIOUS
  <2>4. place \in Place
        /\ (place = "narrating" => nar'[q].status = "writing")
        /\ (place = "accounting_narrative" => nar'[q].status = "returned")
    BY <2>0, <2>2 DEF Place
  <2>5. /\ RunMoves(q) /\ pc'[q] = place /\ outcome'[q] = o /\ shape'[q] = s
        /\ events'[q] = said
    <3>1. pc' = [pc EXCEPT ![q] = place] /\ outcome' = [outcome EXCEPT ![q] = o]
      BY <1>7, <2>0 DEF Goto
    <3>2. place \in Place /\ s \in Shape /\ o \in Outcome \cup {"none"}
      BY <1>4, <2>4
    <3>3. /\ said \in Seq(Said) /\ Len(events[q]) <= Len(said)
          /\ events' = [events EXCEPT ![q] = said] /\ shape' = [shape EXCEPT ![q] = s]
      BY <1>3
    <3>4. QED
      BY <3>1, <3>2, <3>3, Moved
  <2>6. events'[q] \in {SaidRows, SaidWarned} /\ "narrative" \notin Names(q)'
    BY <1>3, <1>5, <2>5
  <2>7. CallsMade(q)'
    BY <1>1, <1>2, <2>4, <2>5 DEF CallsMade, Early, Decorated
  <2>8. MoneyPaid(q)' /\ BlockedIsIdle(q)'
    BY <1>1, <1>2, <2>4, <2>5 DEF MoneyPaid, Paid, BlockedIsIdle
  <2>9. Heading(q)'
    BY <1>4, <2>4, <2>5 DEF Heading, Early, Decorated
  <2>10. RecordOK(q)'
    BY <1>2, <2>3, <2>4, <2>5 DEF RunOK, RecordOK, Early, Decorated
  <2>11. WordsSaid(q)'
    BY <2>4, <2>5, <2>6 DEF WordsSaid, Early
  <2>12. QED
    BY <1>1, <1>2, <2>2, <2>3, <2>5, <2>7, <2>8, <2>9, <2>10, <2>11 DEF StepOK, RunOK
<1>8. QED
  BY <1>6, <1>7 DEF Decorate

LEMMA ExecuteRowsIsOK ==
  ASSUME Typed, NEW q \in Query, RunOK(q), ExecuteRows(q) PROVE StepOK(q)
<1>1. PICK warned \in BOOLEAN : Decorate(q, RowEvents, "OK", "some", warned)
  BY DEF ExecuteRows
<1>2. pc[q] = "executing" /\ UNCHANGED acctVars /\ UNCHANGED genVars
  BY DEF ExecuteRows
<1>3. events[q] = SaidSql
  BY <1>2 DEF RunOK, WordsSaid
<1>4. RowEvents \in Seq(Said)
  BY EventIsSaid DEF RowEvents
<1>5. QED
  BY <1>1, <1>2, <1>3, <1>4, Tellings, DecorateIsOK

LEMMA DiagnoseIsOK ==
  ASSUME Typed, NEW q \in Query, RunOK(q), Diagnose(q) PROVE StepOK(q)
<1>1. PICK warned \in BOOLEAN : Decorate(q, <<>>, outcome[q], shape[q], warned)
  BY DEF Diagnose
<1>2. pc[q] = "diagnosing" /\ UNCHANGED acctVars /\ UNCHANGED genVars
  BY DEF Diagnose
<1>3. /\ events[q] = SaidRows /\ shape[q] \in {"zero", "zeroAggregate", "some"}
      /\ outcome[q] = IF shape[q] = "zero" THEN "OK_ZERO_ROWS" ELSE "OK"
  BY <1>2 DEF RunOK, WordsSaid, Heading, Decorated, Typed, PlaceTyped, Shape
<1>4. <<>> \in Seq(Said)
  OBVIOUS
<1>5. QED
  BY <1>1, <1>2, <1>3, <1>4, Tellings, DecorateIsOK

LEMMA ExecuteZeroIsOK ==
  ASSUME Typed, NEW q \in Query, RunOK(q), ExecuteZero(q) PROVE StepOK(q)
<1>1. PICK s \in {"zero", "zeroAggregate"} :
        /\ shape' = [shape EXCEPT ![q] = s]
        /\ outcome' = [outcome EXCEPT ![q] = IF s = "zero" THEN "OK_ZERO_ROWS" ELSE "OK"]
  BY DEF ExecuteZero
<1>. DEFINE o == IF s = "zero" THEN "OK_ZERO_ROWS" ELSE "OK"
<1>2. /\ pc[q] = "executing" /\ pc' = [pc EXCEPT ![q] = "diagnosing"]
      /\ events' = [events EXCEPT ![q] = @ \o RowEvents]
      /\ UNCHANGED acctVars /\ UNCHANGED genVars /\ UNCHANGED narVars /\ UNCHANGED logVars
  BY DEF ExecuteZero, Goto, Emit
<1>3. /\ AcctMoves(q) /\ step'[q] = step[q] /\ owed'[q] = owed[q] /\ paid'[q] = paid[q]
      /\ GenMoves(q) /\ gen'[q] = gen[q] /\ billed'[q] = billed[q]
      /\ NarMoves(q) /\ nar'[q] = nar[q]
      /\ LogMoves(q) /\ entry'[q] = entry[q] /\ log'[q] = log[q] /\ reply'[q] = reply[q]
  BY <1>2, UnmovedAcct, UnmovedGen, UnmovedNar, UnmovedLog
<1>4. /\ RunMoves(q) /\ pc'[q] = "diagnosing" /\ outcome'[q] = o /\ shape'[q] = s
      /\ events'[q] = SaidRows
  <2>1. s \in Shape /\ o \in Outcome \cup {"none"} /\ "diagnosing" \in Place
    BY DEF Shape, Outcome, Answered, Place
  <2>2. RowEvents \in Seq(Said)
    BY EventIsSaid DEF RowEvents
  <2>3. events[q] = SaidSql
    BY <1>2 DEF RunOK, WordsSaid
  <2>4. /\ events' = [events EXCEPT ![q] = SaidRows]
        /\ SaidRows \in Seq(Said) /\ Len(events[q]) <= Len(SaidRows)
    BY <1>2, <2>2, <2>3, Tellings, Adding
  <2>5. outcome' = [outcome EXCEPT ![q] = o]
    BY <1>1
  <2>. HIDE DEF o
  <2>6. QED
    BY <1>1, <1>2, <2>1, <2>4, <2>5, Moved
<1>5. CallOK(gen[q])' /\ NarrationOK(nar[q])'
  BY <1>3 DEF RunOK
<1>6. CallsMade(q)'
  BY <1>2, <1>3, <1>4 DEF RunOK, CallsMade, Early, Decorated
<1>7. MoneyPaid(q)' /\ BlockedIsIdle(q)'
  BY <1>2, <1>3, <1>4 DEF RunOK, MoneyPaid, Paid, BlockedIsIdle
<1>8. Heading(q)'
  BY <1>4 DEF Heading, Early, Decorated
<1>9. RecordOK(q)'
  BY <1>2, <1>3, <1>4 DEF RunOK, RecordOK, Early, Decorated
<1>10. WordsSaid(q)'
  <2>1. "narrative" \notin Names(q)'
    BY <1>4, NamesTold DEF NamesOf, Names
  <2>2. QED
    BY <1>4, <2>1 DEF WordsSaid, Early
<1>11. QED
  BY <1>3, <1>4, <1>5, <1>6, <1>7, <1>8, <1>9, <1>10 DEF StepOK, RunOK

LEMMA NarrateIsOK ==
  ASSUME Typed, NEW q \in Query, RunOK(q), Narrate(q) PROVE StepOK(q)
<1>1. pc[q] = "narrating" /\ Nar!Reply(q) /\ UNCHANGED acctVars /\ UNCHANGED genVars
  BY DEF Narrate
<1>2. /\ CallOK(gen[q]) /\ NarrationOK(nar[q])
      /\ gen[q].status = "returned" /\ gen[q].exit = "result"
      /\ step[q] = "admitted" /\ Paid(q, gen[q].usage, gen[q].usage)
      /\ events[q] \in {SaidRows, SaidWarned}
  BY <1>1 DEF RunOK, CallsMade, MoneyPaid, WordsSaid, Early, Decorated
<1>3. /\ NarMoves(q) /\ NarrationOK(nar'[q])
      /\ nar'[q].status \in {"writing", "returned", "crashed"}
  BY <1>1, <1>2, NarReplies
<1>4. /\ AcctMoves(q) /\ step'[q] = step[q] /\ owed'[q] = owed[q] /\ paid'[q] = paid[q]
      /\ GenMoves(q) /\ gen'[q] = gen[q] /\ billed'[q] = billed[q]
  BY <1>1, UnmovedAcct, UnmovedGen
<1>5. "narrative" \notin Names(q)
  BY <1>1, SaidSoFar DEF Decorated
<1>6. CASE nar'[q].status \in {"writing", "returned"}
  <2>1. UNCHANGED logVars /\ UNCHANGED <<outcome, shape, events>>
    BY <1>6 DEF Narrate, runVars
  <2>2. LogMoves(q) /\ entry'[q] = entry[q] /\ log'[q] = log[q] /\ reply'[q] = reply[q]
    BY <2>1, UnmovedLog
  <2>3. PICK place \in Place :
          /\ pc' = [pc EXCEPT ![q] = place]
          /\ \/ place = "narrating" /\ nar'[q].status = "writing"
             \/ place = "accounting_narrative" /\ nar'[q].status = "returned"
    <3>1. CASE nar'[q].status = "writing"
      <4>1. pc' = [pc EXCEPT ![q] = "narrating"] /\ "narrating" \in Place
        BY <1>1, <3>1 DEF Narrate, runVars, Typed, PlaceTyped, Place
      <4>2. QED
        BY <3>1, <4>1
    <3>2. CASE nar'[q].status = "returned"
      <4>1. pc' = [pc EXCEPT ![q] = "accounting_narrative"] /\ "accounting_narrative" \in Place
        BY <3>2 DEF Narrate, Goto, Place
      <4>2. QED
        BY <3>2, <4>1
    <3>3. QED
      BY <1>6, <3>1, <3>2
  <2>4. /\ RunMoves(q) /\ pc'[q] = place /\ outcome'[q] = outcome[q] /\ shape'[q] = shape[q]
        /\ events'[q] = events[q]
    <3>1. /\ outcome' = [outcome EXCEPT ![q] = outcome[q]]
          /\ shape' = [shape EXCEPT ![q] = shape[q]] /\ shape[q] \in Shape
          /\ outcome[q] \in Outcome \cup {"none"} /\ UNCHANGED events
      BY <2>1 DEF Typed, PlaceTyped
    <3>2. QED
      BY <2>3, <3>1, MovedSilently
  <2>5. CallsMade(q)'
    BY <1>2, <1>4, <2>3, <2>4 DEF CallsMade, Early, Decorated
  <2>6. MoneyPaid(q)' /\ BlockedIsIdle(q)'
    BY <1>2, <1>4, <2>3, <2>4 DEF MoneyPaid, Paid, BlockedIsIdle
  <2>7. Heading(q)' /\ RecordOK(q)'
    BY <1>1, <2>2, <2>3, <2>4 DEF RunOK, Heading, RecordOK, Early, Decorated
  <2>8. WordsSaid(q)'
    BY <1>2, <1>5, <2>3, <2>4 DEF WordsSaid, Names, Early
  <2>9. QED
    BY <1>2, <1>3, <1>4, <2>2, <2>4, <2>5, <2>6, <2>7, <2>8 DEF StepOK, RunOK
<1>7. CASE nar'[q].status = "crashed"
  <2>1. Audit(q, "FAILED_INTERNAL_ERROR", Null) /\ UNCHANGED <<shape, events>>
    BY <1>7 DEF Narrate, Fail
  <2>2. "FAILED_INTERNAL_ERROR" \in Outcome \ Answered
        /\ pc[q] \in (Early \cup Decorated) \ {"new"}
    BY <1>1 DEF Outcome, Answered, Early, Decorated
  <2>3. RunOK(q)' /\ LogMoves(q) /\ RunMoves(q)
    <3>1. gen[q].usage \in Nat
      BY DEF Typed, GenTyped, Call
    <3>2. Settles(q, "FAILED_INTERNAL_ERROR")
      BY <1>2, <1>4, <3>1 DEF Settles, Paid
    <3>3. QED
      BY <1>2, <1>3, <1>4, <2>1, <2>2, <3>2, FailureIsOK
  <2>4. QED
    BY <1>3, <1>4, <2>3 DEF StepOK
<1>8. QED
  BY <1>3, <1>6, <1>7

LEMMA NarrativeChargedIsOK ==
  ASSUME Typed, NEW q \in Query, RunOK(q), NarrativeCharged(q) PROVE StepOK(q)
<1>1. /\ pc[q] = "accounting_narrative" /\ Acct!PayMonthly(q)
      /\ Audit(q, Graded(q), shape[q])
      /\ events' = [events EXCEPT ![q] = @ \o <<Event("narrative")>>]
      /\ UNCHANGED genVars /\ UNCHANGED narVars /\ UNCHANGED shape
  BY DEF NarrativeCharged, Emit
<1>2. /\ GenMoves(q) /\ gen'[q] = gen[q] /\ billed'[q] = billed[q]
      /\ NarMoves(q) /\ nar'[q] = nar[q]
  BY <1>1, UnmovedGen, UnmovedNar
<1>3. /\ AcctMoves(q) /\ step[q] = "payMonth" /\ step'[q] = "admitted"
      /\ paid'[q]["DAY"] = paid[q]["DAY"]
      /\ paid'[q]["MONTH"] = paid[q]["MONTH"] + owed[q]
  BY <1>1, AcctPaysMonthly
<1>4. /\ CallOK(gen[q]) /\ NarrationOK(nar[q])
      /\ gen[q].status = "returned" /\ gen[q].exit = "result"
      /\ events[q] \in {SaidRows, SaidWarned}
      /\ shape[q] # "none"
      /\ outcome[q] = IF shape[q] = "zero" THEN "OK_ZERO_ROWS" ELSE "OK"
  BY <1>1 DEF RunOK, CallsMade, WordsSaid, Heading, Early, Decorated
<1>5. Paid(q, gen[q].usage + nar[q].usage, gen[q].usage + nar[q].usage)'
  <2>1. owed[q] = nar[q].usage /\ Paid(q, gen[q].usage + nar[q].usage, gen[q].usage)
    BY <1>1, <1>3 DEF RunOK, MoneyPaid
  <2>2. QED
    BY <1>2, <1>3, <2>1 DEF Paid
<1>6. /\ Graded(q) \in Outcome /\ Graded(q) \in Answered
      /\ Graded(q) = "OK_ZERO_ROWS" <=> shape[q] = "zero"
      /\ Graded(q) = "OK" => nar[q].verified
  BY <1>4 DEF Graded, Outcome, Answered
<1>7. RunMoves(q) /\ shape'[q] = shape[q] /\ events'[q] \in Told
  <2>1. PICK said \in Narrated : said = events[q] \o <<Event("narrative")>>
    BY <1>4 DEF Narrated
  <2>2. said \in Seq(Said) /\ said \in Told /\ Len(events[q]) <= Len(said)
    <3>1. <<Event("narrative")>> \in Seq(Said)
      BY EventIsSaid
    <3>2. said \in Told
      BY DEF Told
    <3>3. QED
      BY <2>1, <3>1, <3>2, ToldIsSaid, Adding
  <2>3. PICK o \in Outcome : o = Graded(q)
    BY <1>6
  <2>4. /\ pc' = [pc EXCEPT ![q] = "auditing"] /\ outcome' = [outcome EXCEPT ![q] = o]
        /\ shape' = [shape EXCEPT ![q] = shape[q]] /\ shape[q] \in Shape
        /\ "auditing" \in Place /\ o \in Outcome \cup {"none"}
        /\ events' = [events EXCEPT ![q] = said]
    BY <1>1, <2>1, <2>3 DEF Audit, Goto, Typed, PlaceTyped, Place
  <2>5. /\ RunMoves(q) /\ pc'[q] = "auditing" /\ outcome'[q] = o
        /\ shape'[q] = shape[q] /\ events'[q] = said
    BY <2>2, <2>4, Moved
  <2>6. QED
    BY <2>2, <2>5
<1>8. pc[q] \in (Early \cup Decorated) \ {"new"}
      /\ shape[q] \in {"zero", "zeroAggregate", "some", Null}
  BY <1>1, <1>4 DEF Early, Decorated, Typed, PlaceTyped, Shape
<1>9. RunOK(q)' /\ LogMoves(q)
  <2>1. PICK o \in Outcome : o = Graded(q)
    BY <1>6
  <2>2. Audit(q, o, shape[q]) /\ o \in Answered /\ (o = "OK_ZERO_ROWS" <=> shape'[q] = "zero")
        /\ (o = "OK" => nar'[q].verified)
    BY <1>1, <1>2, <1>6, <1>7, <2>1
  <2>3. QED
    <3>1. gen[q].usage \in Nat /\ nar[q].usage \in Nat
      BY Amounts DEF Typed, GenTyped, Call, Nar!TypeOK
    <3>2. Settles(q, o)
      BY <1>2, <1>3, <1>5, <3>1 DEF Settles, Paid
    <3>3. QED
      BY <1>2, <1>3, <1>4, <1>5, <1>7, <1>8, <2>2, <3>2, AuditIsOK
<1>10. QED
  BY <1>2, <1>3, <1>7, <1>9 DEF StepOK

LEMMA FinishIsOK ==
  ASSUME Typed, NEW q \in Query, RunOK(q), Finish(q) PROVE StepOK(q)
<1>1. /\ pc[q] = "auditing" /\ pc' = [pc EXCEPT ![q] = "returned"]
      /\ events' = [events EXCEPT ![q] = @ \o LastWords(outcome[q])]
      /\ UNCHANGED acctVars /\ UNCHANGED genVars /\ UNCHANGED narVars
      /\ UNCHANGED <<outcome, shape>>
  BY DEF Finish, Emit, Goto
<1>2. /\ AcctMoves(q) /\ step'[q] = step[q] /\ owed'[q] = owed[q] /\ paid'[q] = paid[q]
      /\ GenMoves(q) /\ gen'[q] = gen[q] /\ billed'[q] = billed[q]
      /\ NarMoves(q) /\ nar'[q] = nar[q]
  BY <1>1, UnmovedAcct, UnmovedGen, UnmovedNar
<1>3. /\ LogMoves(q)
      /\ reply[q] = "pending" /\ reply'[q] \in {"written", "failed"}
      /\ reply'[q] = "written" => log[q] # Null
      /\ entry'[q] = entry[q] /\ log'[q] = log[q]
  BY LogAnswers DEF Finish
<1>4. events[q] \in Told /\ outcome[q] \in Outcome /\ outcome[q] # "none"
  BY <1>1 DEF RunOK, WordsSaid, Heading, Typed, PlaceTyped
<1>5. PICK o \in Outcome : o = outcome[q]
  BY <1>4
<1>6. PICK t \in Told : t = events[q]
  BY <1>4
<1>7. PICK said \in Seq(Said) : said = t \o LastWords(o)
  BY Ended
<1>8. NamesOf(said) = NamesOf(t) \cup Closing(o)
  BY <1>7, Ended
<1>9. /\ RunMoves(q) /\ pc'[q] = "returned" /\ outcome'[q] = outcome[q] /\ shape'[q] = shape[q]
      /\ events'[q] = said
  <2>1. /\ outcome' = [outcome EXCEPT ![q] = outcome[q]]
        /\ shape' = [shape EXCEPT ![q] = shape[q]] /\ shape[q] \in Shape
        /\ outcome[q] \in Outcome \cup {"none"} /\ "returned" \in Place
    BY <1>1 DEF Typed, PlaceTyped, Place
  <2>2. events' = [events EXCEPT ![q] = said]
    BY <1>1, <1>5, <1>6, <1>7
  <2>3. Len(events[q]) <= Len(said)
    BY <1>5, <1>6, <1>7, LastWordsSaid, Adding
  <2>4. pc' = [pc EXCEPT ![q] = "returned"]
    BY <1>1
  <2>5. QED
    BY <2>1, <2>2, <2>3, <2>4, Moved
<1>10. Names(q)' = Names(q) \cup Closing(o)
  BY <1>6, <1>8, <1>9 DEF Names, NamesOf
<1>11. CallOK(gen[q])' /\ NarrationOK(nar[q])'
  BY <1>2 DEF RunOK
<1>12. CallsMade(q)'
  BY <1>9 DEF CallsMade, Early, Decorated
<1>13. MoneyPaid(q)'
  BY <1>1, <1>2, <1>9 DEF RunOK, MoneyPaid, Paid
<1>14. BlockedIsIdle(q)'
  BY <1>2, <1>9, <1>10 DEF RunOK, BlockedIsIdle, Closing
<1>15. Heading(q)'
  BY <1>4, <1>9 DEF Heading, Early, Decorated
<1>16. RecordOK(q)'
  BY <1>1, <1>2, <1>3, <1>9 DEF RunOK, RecordOK, PaidUp, AuditAttempts, Early, Decorated
<1>17. WordsSaid(q)'
  <2>1. "narrative" \in Names(q)' => "narrative" \in Names(q)
    BY <1>10 DEF Closing
  <2>2. \E u \in Told : events'[q] = u \o LastWords(outcome'[q])
    BY <1>5, <1>7, <1>9
  <2>3. QED
    BY <1>2, <1>9, <2>1, <2>2 DEF RunOK, WordsSaid, Early
<1>18. QED
  BY <1>2, <1>3, <1>9, <1>11, <1>12, <1>13, <1>14, <1>15, <1>16, <1>17 DEF StepOK, RunOK

LEMMA AuditCommitsIsOK ==
  ASSUME Typed, NEW q \in Query, RunOK(q), AuditCommits(q) PROVE StepOK(q)
<1>1. UNCHANGED acctVars /\ UNCHANGED genVars /\ UNCHANGED narVars /\ UNCHANGED runVars
  BY DEF AuditCommits
<1>2. /\ AcctMoves(q) /\ step'[q] = step[q] /\ owed'[q] = owed[q] /\ paid'[q] = paid[q]
      /\ GenMoves(q) /\ gen'[q] = gen[q] /\ billed'[q] = billed[q]
      /\ NarMoves(q) /\ nar'[q] = nar[q]
      /\ RunMoves(q) /\ pc'[q] = pc[q] /\ outcome'[q] = outcome[q] /\ shape'[q] = shape[q]
      /\ events'[q] = events[q]
  BY <1>1, UnmovedAcct, UnmovedGen, UnmovedNar, UnmovedRun
<1>3. /\ LogMoves(q)
      /\ reply[q] # "idle" /\ reply'[q] = reply[q]
      /\ entry'[q] = entry[q] /\ log[q] = Null /\ log'[q] = entry[q]
  BY LogRecords DEF AuditCommits
<1>4. CallOK(gen[q])' /\ NarrationOK(nar[q])' /\ CallsMade(q)'
  BY <1>2 DEF RunOK, CallsMade
<1>5. MoneyPaid(q)' /\ BlockedIsIdle(q)'
  BY <1>2 DEF RunOK, MoneyPaid, Paid, BlockedIsIdle, Names
<1>6. Heading(q)' /\ WordsSaid(q)'
  BY <1>2 DEF RunOK, Heading, WordsSaid, Names
<1>7. RecordOK(q)'
  BY <1>2, <1>3 DEF RunOK, RecordOK, PaidUp, AuditAttempts
<1>8. QED
  BY <1>2, <1>3, <1>4, <1>5, <1>6, <1>7 DEF StepOK, RunOK

LEMMA AuditEndsAloneIsOK ==
  ASSUME Typed, NEW q \in Query, RunOK(q), AuditEndsAlone(q) PROVE StepOK(q)
<1>1. /\ UNCHANGED acctVars /\ UNCHANGED genVars /\ UNCHANGED narVars /\ UNCHANGED runVars
      /\ pc[q] = "cancelled"
  BY DEF AuditEndsAlone
<1>2. /\ AcctMoves(q) /\ step'[q] = step[q] /\ owed'[q] = owed[q] /\ paid'[q] = paid[q]
      /\ GenMoves(q) /\ gen'[q] = gen[q] /\ billed'[q] = billed[q]
      /\ NarMoves(q) /\ nar'[q] = nar[q]
      /\ RunMoves(q) /\ pc'[q] = pc[q] /\ outcome'[q] = outcome[q] /\ shape'[q] = shape[q]
      /\ events'[q] = events[q]
  BY <1>1, UnmovedAcct, UnmovedGen, UnmovedNar, UnmovedRun
<1>3. /\ LogMoves(q)
      /\ reply[q] = "pending" /\ reply'[q] \in {"written", "failed"}
      /\ reply'[q] = "written" => log[q] # Null
      /\ entry'[q] = entry[q] /\ log'[q] = log[q]
  BY LogAnswers DEF AuditEndsAlone
<1>4. CallOK(gen[q])' /\ NarrationOK(nar[q])' /\ CallsMade(q)'
  BY <1>2 DEF RunOK, CallsMade
<1>5. MoneyPaid(q)' /\ BlockedIsIdle(q)'
  BY <1>2 DEF RunOK, MoneyPaid, Paid, BlockedIsIdle, Names
<1>6. Heading(q)' /\ WordsSaid(q)'
  BY <1>2 DEF RunOK, Heading, WordsSaid, Names
<1>7. RecordOK(q)'
  BY <1>1, <1>2, <1>3 DEF RunOK, RecordOK, PaidUp, AuditAttempts, Early, Decorated
<1>8. QED
  BY <1>2, <1>3, <1>4, <1>5, <1>6, <1>7 DEF StepOK, RunOK

(* A cancelled run keeps what it did, and its audit if it has begun.       *)
LEMMA CancelIsOK ==
  ASSUME Typed, NEW q \in Query, RunOK(q), Cancel(q) PROVE StepOK(q) /\ pc'[q] = "cancelled"
<1>1. /\ pc' = [pc EXCEPT ![q] = "cancelled"]
      /\ UNCHANGED logVars /\ UNCHANGED <<outcome, shape, events>>
  BY DEF Cancel, Goto
<1>2. LogMoves(q) /\ entry'[q] = entry[q] /\ log'[q] = log[q] /\ reply'[q] = reply[q]
  BY <1>1, UnmovedLog
<1>3. /\ RunMoves(q) /\ pc'[q] = "cancelled" /\ outcome'[q] = outcome[q]
      /\ shape'[q] = shape[q] /\ events'[q] = events[q]
  <2>1. /\ outcome' = [outcome EXCEPT ![q] = outcome[q]]
        /\ shape' = [shape EXCEPT ![q] = shape[q]] /\ shape[q] \in Shape
        /\ outcome[q] \in Outcome \cup {"none"} /\ "cancelled" \in Place /\ UNCHANGED events
    BY <1>1 DEF Typed, PlaceTyped, Place
  <2>2. QED
    BY <1>1, <2>1, MovedSilently
<1>4. CallOK(gen[q]) /\ NarrationOK(nar[q]) /\ gen[q].usage \in Nat
  BY DEF RunOK, Typed, GenTyped, Call
<1>. DEFINE
       Waiting == pc[q] \in (Early \cup Decorated) \ {"new"}
       Abandoned ==
         /\ AcctMoves(q) /\ GenMoves(q) /\ NarMoves(q)
         /\ CallOK(gen'[q]) /\ NarrationOK(nar'[q])
         /\ step'[q] \notin {"readDay", "readMonth", "blocked"}
<1>5. CASE Waiting /\ Abandoned
  <2>1. reply[q] = "idle" /\ log[q] = Null
    BY <1>5 DEF RunOK, RecordOK
  <2>2. events[q] \in Told /\ "narrative" \notin Names(q)
    BY <1>5, SaidSoFar
  <2>3. CallsMade(q)'
    BY <1>3 DEF CallsMade, Early, Decorated
  <2>4. MoneyPaid(q)' /\ BlockedIsIdle(q)'
    BY <1>3, <1>5 DEF MoneyPaid, BlockedIsIdle
  <2>5. Heading(q)' /\ RecordOK(q)'
    BY <1>2, <1>3, <2>1 DEF RunOK, Heading, RecordOK, Early, Decorated
  <2>6. WordsSaid(q)'
    BY <1>3, <2>2 DEF WordsSaid, Names, Early
  <2>7. QED
    BY <1>2, <1>3, <1>5, <2>3, <2>4, <2>5, <2>6 DEF StepOK, RunOK
<1>6. CASE pc[q] = "auditing" /\ UNCHANGED acctVars /\ UNCHANGED genVars /\ UNCHANGED narVars
  <2>1. /\ AcctMoves(q) /\ step'[q] = step[q] /\ owed'[q] = owed[q] /\ paid'[q] = paid[q]
        /\ GenMoves(q) /\ gen'[q] = gen[q] /\ billed'[q] = billed[q]
        /\ NarMoves(q) /\ nar'[q] = nar[q]
    BY <1>6, UnmovedAcct, UnmovedGen, UnmovedNar
  <2>2. CallsMade(q)'
    BY <1>3 DEF CallsMade, Early, Decorated
  <2>3. MoneyPaid(q)' /\ BlockedIsIdle(q)'
    BY <1>3, <1>6, <2>1 DEF RunOK, MoneyPaid, BlockedIsIdle, Names
  <2>4. Heading(q)'
    BY <1>3 DEF RunOK, Heading, Early, Decorated
  <2>5. RecordOK(q)'
    BY <1>2, <1>3, <1>6, <2>1 DEF RunOK, RecordOK, PaidUp, AuditAttempts, Early, Decorated
  <2>6. WordsSaid(q)'
    BY <1>3, <1>6, <2>1 DEF RunOK, WordsSaid, Names, Early
  <2>7. QED
    BY <1>2, <1>3, <1>4, <2>1, <2>2, <2>3, <2>4, <2>5, <2>6 DEF StepOK, RunOK
<1>7. CASE pc[q] = "budget" /\ Acct!ReadFails(q) /\ UNCHANGED <<genVars, narVars>>
  <2>1. Waiting /\ AcctMoves(q) /\ step'[q] = "failed"
    BY <1>7, AcctReadFails DEF Early
  <2>2. GenMoves(q) /\ gen'[q] = gen[q] /\ NarMoves(q) /\ nar'[q] = nar[q]
    BY <1>7, UnmovedGen, UnmovedNar
  <2>3. QED
    BY <1>4, <1>5, <2>1, <2>2
<1>8. CASE pc[q] = "generating" /\ Gen!Abandon(q) /\ UNCHANGED <<acctVars, narVars>>
  <2>1. Waiting /\ GenMoves(q) /\ CallOK(gen'[q])
    BY <1>4, <1>8, GenAbandons DEF Early
  <2>2. /\ AcctMoves(q) /\ step'[q] = step[q]
        /\ NarMoves(q) /\ nar'[q] = nar[q]
    BY <1>8, UnmovedAcct, UnmovedNar
  <2>3. step[q] = "admitted"
    BY <1>8 DEF RunOK, MoneyPaid
  <2>4. QED
    BY <1>4, <1>5, <2>1, <2>2, <2>3
<1>9. CASE ChargeBreaks(q) /\ UNCHANGED <<genVars, narVars>>
  <2>1. Waiting /\ AcctMoves(q) /\ step'[q] = "failed"
    <3>1. pc[q] \in {"accounting", "accounting_narrative"}
      BY <1>9 DEF ChargeBreaks
    <3>2. QED
      BY <1>4, <1>9, <3>1, AcctBreaks DEF Early, Decorated
  <2>2. GenMoves(q) /\ gen'[q] = gen[q] /\ NarMoves(q) /\ nar'[q] = nar[q]
    BY <1>9, UnmovedGen, UnmovedNar
  <2>3. QED
    BY <1>4, <1>5, <2>1, <2>2
<1>10. CASE pc[q] \in {"executing", "diagnosing"} /\ UNCHANGED <<acctVars, genVars, narVars>>
  <2>1. /\ AcctMoves(q) /\ step'[q] = step[q]
        /\ GenMoves(q) /\ gen'[q] = gen[q]
        /\ NarMoves(q) /\ nar'[q] = nar[q]
    BY <1>10, UnmovedAcct, UnmovedGen, UnmovedNar
  <2>2. Waiting /\ step[q] = "admitted"
    BY <1>10 DEF RunOK, MoneyPaid, Early, Decorated
  <2>3. QED
    BY <1>4, <1>5, <2>1, <2>2
<1>11. CASE pc[q] = "narrating" /\ Nar!Abandon(q) /\ UNCHANGED <<acctVars, genVars>>
  <2>1. Waiting /\ NarMoves(q) /\ NarrationOK(nar'[q])
    BY <1>4, <1>11, NarAbandons DEF Decorated
  <2>2. /\ AcctMoves(q) /\ step'[q] = step[q]
        /\ GenMoves(q) /\ gen'[q] = gen[q]
    BY <1>11, UnmovedAcct, UnmovedGen
  <2>3. step[q] = "admitted"
    BY <1>11 DEF RunOK, MoneyPaid
  <2>4. QED
    BY <1>4, <1>5, <2>1, <2>2, <2>3
<1>12. QED
  BY <1>6, <1>7, <1>8, <1>9, <1>10, <1>11 DEF Cancel

LEMMA RunStepIsOK ==
  ASSUME Typed, NEW q \in Query, RunOK(q),
         Start(q) \/ RunStep(q) \/ AuditCommits(q) \/ AuditEndsAlone(q)
  PROVE  StepOK(q)
BY StartIsOK, ReadBudgetIsOK, ReadBudgetFailsIsOK, GenerateIsOK, ChargeDailyIsOK,
   ChargeMonthlyIsOK, ChargeFailsIsOK, ExecuteRowsIsOK, ExecuteZeroIsOK, DiagnoseIsOK,
   DataFailsIsOK, NarrateIsOK, NarrativeChargedIsOK, FinishIsOK, AuditCommitsIsOK,
   AuditEndsAloneIsOK
DEF RunStep

(* A day that ends changes which counters are current, and nothing else.   *)
LEMMA NewDayIsOK ==
  ASSUME RunInv, NewDay PROVE RunInv' /\ UNCHANGED <<pc, events>>
<1>1. /\ UNCHANGED genVars /\ UNCHANGED narVars /\ UNCHANGED logVars /\ UNCHANGED runVars
      /\ today < LastDay /\ today' = today + 1
      /\ UNCHANGED <<counter, step, owed, charges, basis, exhausted, paid>>
      /\ UNCHANGED <<since, began, ledger>>
  BY DEF NewDay, Acct!NewDay
<1>s. since' \in [Query -> 0..today'] /\ today' \in 0..LastDay
  <2>1. today \in 0..LastDay /\ since \in [Query -> 0..today]
    BY DEF RunInv, Typed, Acct!TypeOK
  <2>2. LastDay \in Nat
    BY Amounts
  <2>3. 0..today \subseteq 0..today' /\ today' \in 0..LastDay
    BY <1>1, <2>1, <2>2
  <2>4. QED
    BY <1>1, <2>1, <2>3
<1>2. Typed'
  BY <1>1, <1>s
  DEF RunInv, Typed, Acct!TypeOK, Acct!CounterKey, GenTyped, Nar!TypeOK, Log!TypeOK, PlaceTyped,
      genVars, narVars, logVars, runVars
<1>3. ASSUME NEW q \in Query PROVE Untouched(q)
  BY <1>1 DEF Untouched, genVars, narVars, logVars, runVars
<1>4. QED
  BY <1>1, <1>2, <1>3, UntouchedIsOK DEF RunInv, runVars

LEMMA StutterIsOK ==
  ASSUME RunInv, UNCHANGED vars PROVE RunInv'
<1>1. UNCHANGED genVars /\ UNCHANGED acctVars /\ UNCHANGED narVars /\ UNCHANGED logVars
      /\ UNCHANGED runVars
  BY DEF vars
<1>2. Typed'
  BY <1>1
  DEF RunInv, Typed, Acct!TypeOK, Acct!CounterKey, GenTyped, Nar!TypeOK, Log!TypeOK, PlaceTyped,
      genVars, acctVars, narVars, logVars, runVars
<1>3. ASSUME NEW q \in Query PROVE Untouched(q)
  BY <1>1 DEF Untouched, genVars, acctVars, narVars, logVars, runVars
<1>4. QED
  BY <1>2, <1>3, UntouchedIsOK DEF RunInv

LEMMA NextRunInv == RunInv /\ [Next]_vars => RunInv'
<1>1. ASSUME RunInv, NEW q \in Query,
             Start(q) \/ RunStep(q) \/ AuditCommits(q) \/ Cancel(q) \/ AuditEndsAlone(q)
      PROVE  RunInv'
  <2>1. StepOK(q)
    BY <1>1, RunStepIsOK, CancelIsOK DEF RunInv
  <2>2. QED
    BY <1>1, <2>1, Assembled DEF StepOK
<1>2. QED
  BY <1>1, NewDayIsOK, StutterIsOK DEF Next

LEMMA InitRunInv == Init => RunInv
<1>. SUFFICES ASSUME Init PROVE RunInv
  OBVIOUS
<1>1. Acct!Init /\ Gen!Init /\ Nar!Init /\ Log!Init
      /\ pc = [q \in Query |-> "new"]
      /\ outcome = [q \in Query |-> "none"]
      /\ shape = [q \in Query |-> "none"]
      /\ events = [q \in Query |-> <<>>]
  BY DEF Init
<1>2. Acct!TypeOK
  <2>1. /\ began \in [Acct!PeriodType -> Spent]
        /\ counter = [p \in Acct!CounterKey |-> IF p[2] = 0 THEN began[p[1]] ELSE 0]
    BY <1>1 DEF Acct!Init, Acct!Began
  <2>2. Spent \subseteq Nat
    BY RunQueryAssumption DEF Acct!BudgetParameters
  <2>3. counter \in [Acct!CounterKey -> Nat]
    <3>1. ASSUME NEW p \in Acct!CounterKey PROVE counter[p] \in Nat
      <4>1. p[1] \in Acct!PeriodType
        BY DEF Acct!CounterKey
      <4>2. QED
        BY <2>1, <2>2, <4>1
    <3>2. QED
      BY <2>1, <3>1
  <2>4. today = 0 /\ 0 \in 0..LastDay
    BY <1>1, Amounts DEF Acct!Init
  <2>5. began \in [Acct!PeriodType -> Nat] /\ ledger \in [Query -> [Acct!CounterKey -> Nat]]
    BY <1>1, <2>1, <2>2 DEF Acct!Init
  <2>6. since = [q \in Query |-> 0] /\ 0 \in 0..today
    BY <1>1, <2>4 DEF Acct!Init
  <2>7. since \in [Query -> 0..today]
    BY <2>6
  <2>8. QED
    BY <1>1, <2>3, <2>4, <2>5, <2>7 DEF Acct!Init, Acct!TypeOK
<1>3. /\ GenTyped /\ \A q \in Query : gen[q] = Gen!Idle /\ billed[q] = 0
  <2>1. Gen!Idle \in Call
    BY DEF Gen!Idle, Call
  <2>2. QED
    BY <1>1, <2>1 DEF Gen!Init, GenTyped
<1>4. /\ Nar!TypeOK
      /\ \A q \in Query : nar[q].status = "idle" /\ nar[q].usage = 0 /\ nar[q].attempt = 1
  <2>1. 1 \in 1..NarrativeMaxAttempts /\ 0 \in 0..NarrativeMaxAttempts
    BY Amounts
  <2>2. Nar!NoText \in Nar!Text
    BY DEF Nar!NoText, Nar!Text
  <2>3. QED
    BY <1>1, <2>1, <2>2 DEF Nar!Init, Nar!TypeOK
<1>5. Log!TypeOK
  BY <1>1 DEF Log!Init, Log!TypeOK
<1>6. PlaceTyped
  BY <1>1 DEF PlaceTyped, Place, Shape
<1>7. ASSUME NEW q \in Query PROVE RunOK(q)
  <2>1. /\ pc[q] = "new" /\ outcome[q] = "none" /\ shape[q] = "none" /\ events[q] = <<>>
        /\ step[q] = "idle" /\ Paid(q, 0, 0) /\ reply[q] = "idle" /\ log[q] = Null
    BY <1>1 DEF Acct!Init, Log!Init, Paid, Acct!PeriodType
  <2>2. CallOK(gen[q]) /\ NarrationOK(nar[q])
    BY <1>3, <1>4, Amounts DEF CallOK, NarrationOK, Gen!Idle
  <2>3. CallsMade(q)
    BY <1>3, <1>4, <2>1 DEF CallsMade, Gen!Idle, Decorated
  <2>4. MoneyPaid(q) /\ BlockedIsIdle(q)
    BY <2>1 DEF MoneyPaid, BlockedIsIdle
  <2>5. Heading(q) /\ RecordOK(q)
    BY <2>1 DEF Heading, RecordOK, Decorated
  <2>6. WordsSaid(q)
    BY <2>1 DEF WordsSaid, Names
  <2>7. QED
    BY <2>2, <2>3, <2>4, <2>5, <2>6 DEF RunOK
<1>8. QED
  BY <1>2, <1>3, <1>4, <1>5, <1>6, <1>7 DEF RunInv, Typed

(* No fairness is needed for any of it.                                    *)
LEMMA RunInductive == Init /\ [][Next]_vars => []RunInv
<1>1. QED
  BY InitRunInv, NextRunInv, PTL
-----------------------------------------------------------------------------
(* The reader.                                                             *)
LEMMA ServingLeavesEnds ==
  ASSUME Typed, NEW q \in Query,
         Start(q) \/ RunStep(q) \/ AuditCommits(q) \/ AuditEndsAlone(q)
  PROVE  /\ pc[q] = "returned" => pc'[q] = "returned" /\ events'[q] = events[q]
         /\ pc'[q] = "cancelled" => pc[q] = "cancelled"
<1>. DEFINE Goes == \E place \in Place \ {"cancelled"} : Goto(q, place)
<1>1. ASSUME pc[q] # "returned", Goes \/ UNCHANGED pc
      PROVE  pc'[q] = "cancelled" => pc[q] = "cancelled"
  BY <1>1 DEF Goto, Typed, PlaceTyped
<1>2. CASE Start(q) \/ ReadBudget(q) \/ ReadBudgetFails(q) \/ Generate(q)
  <2>1. pc[q] # "returned" /\ (Goes \/ UNCHANGED pc)
    BY <1>2 DEF Start, ReadBudget, ReadBudgetFails, Generate, Fail, Audit, Place, runVars
  <2>2. QED
    BY <1>1, <2>1
<1>3. CASE ChargeDaily(q) \/ ChargeMonthly(q) \/ ChargeFails(q) \/ DataFails(q)
  <2>1. pc[q] # "returned" /\ (Goes \/ UNCHANGED pc)
    BY <1>3 DEF ChargeDaily, ChargeMonthly, ChargeFails, ChargeBreaks, DataFails, Fail, Audit,
                Place, runVars
  <2>2. QED
    BY <1>1, <2>1
<1>4. CASE ExecuteRows(q) \/ ExecuteZero(q) \/ Diagnose(q)
  <2>1. ASSUME NEW es, NEW o, NEW s, NEW warned, Decorate(q, es, o, s, warned) PROVE Goes
    <3>1. "narrating" \in Place \ {"cancelled"} /\ "accounting_narrative" \in Place \ {"cancelled"}
          /\ "auditing" \in Place \ {"cancelled"}
      BY DEF Place
    <3>2. \/ Goto(q, "auditing")
          \/ Goto(q, "accounting_narrative")
          \/ Goto(q, "narrating")
      BY <2>1 DEF Decorate, Audit
    <3>3. QED
      BY <3>1, <3>2
  <2>2. CASE ExecuteRows(q) \/ Diagnose(q)
    BY <1>1, <2>1, <2>2 DEF ExecuteRows, Diagnose
  <2>3. CASE ExecuteZero(q)
    <3>1. pc[q] # "returned" /\ Goto(q, "diagnosing") /\ "diagnosing" \in Place \ {"cancelled"}
      BY <2>3 DEF ExecuteZero, Place
    <3>2. QED
      BY <1>1, <3>1
  <2>4. QED
    BY <1>4, <2>2, <2>3
<1>5. CASE Narrate(q) \/ NarrativeCharged(q) \/ Finish(q)
  <2>1. pc[q] # "returned" /\ (Goes \/ UNCHANGED pc)
    BY <1>5 DEF Narrate, NarrativeCharged, Finish, Fail, Audit, Place, runVars
  <2>2. QED
    BY <1>1, <2>1
<1>6. CASE AuditCommits(q) \/ AuditEndsAlone(q)
  BY <1>6 DEF AuditCommits, AuditEndsAlone, runVars
<1>7. QED
  BY <1>2, <1>3, <1>4, <1>5, <1>6 DEF RunStep

LEMMA LengthsAreNaturals ==
  ASSUME Typed, NEW q \in Query PROVE Len(events[q]) \in Nat
BY DEF Typed, PlaceTyped

LEMMA ServeIsOK ==
  ASSUME IInv, NEW q \in Query, Serve(q) PROVE IInv'
<1>1. StepOK(q)
  BY RunStepIsOK DEF IInv, RunInv, Serve
<1>2. RunInv'
  BY <1>1, Assembled DEF StepOK, IInv
<1>3. ReaderTyped'
  BY DEF IInv, ReaderTyped, Serve
<1>4. ASSUME NEW p \in Query PROVE ReaderOK(p)'
  <2>1. ReaderOK(p) /\ taken'[p] = taken[p] /\ reader'[p] = reader[p]
    BY DEF IInv, Serve
  <2>2. CASE p = q
    <3>1. Len(events[p]) \in Nat /\ Len(events'[p]) \in Nat /\ Len(events[p]) <= Len(events'[p])
      BY <1>1, <1>2, <2>2, LengthsAreNaturals DEF IInv, RunInv, StepOK, RunMoves, PlaceTyped
    <3>2. /\ pc[p] = "returned" => pc'[p] = "returned" /\ events'[p] = events[p]
          /\ pc'[p] = "cancelled" => pc[p] = "cancelled"
      BY <2>2, ServingLeavesEnds DEF IInv, RunInv, Serve
    <3>3. QED
      BY <2>1, <3>1, <3>2 DEF ReaderOK
  <2>3. CASE p # q
    <3>1. pc'[p] = pc[p] /\ events'[p] = events[p]
      BY <1>1, <2>3 DEF StepOK, RunMoves
    <3>2. QED
      BY <2>1, <3>1 DEF ReaderOK
  <2>4. QED
    BY <2>2, <2>3
<1>5. QED
  BY <1>2, <1>3, <1>4 DEF IInv

LEMMA CancelRunIsOK ==
  ASSUME IInv, NEW q \in Query, CancelRun(q) PROVE IInv'
<1>1. StepOK(q) /\ pc'[q] = "cancelled"
  BY CancelIsOK DEF IInv, RunInv, CancelRun
<1>2. RunInv'
  BY <1>1, Assembled DEF StepOK, IInv
<1>3. /\ reader' = [reader EXCEPT ![q] = "gone"] /\ taken' = taken
      /\ taken \in [Query -> Nat]
      /\ reader \in [Query -> {"get", "send", "closed", "cancelling", "gone", "dropped"}]
  BY DEF IInv, ReaderTyped, CancelRun, ToReader
<1>4. ReaderTyped'
  BY <1>3 DEF ReaderTyped
<1>5. ASSUME NEW p \in Query PROVE ReaderOK(p)'
  <2>1. ReaderOK(p)
    BY DEF IInv
  <2>2. CASE p = q
    <3>1. Len(events[p]) \in Nat /\ Len(events'[p]) \in Nat /\ Len(events[p]) <= Len(events'[p])
      BY <1>1, <1>2, <2>2, LengthsAreNaturals DEF IInv, RunInv, StepOK, RunMoves, PlaceTyped
    <3>2. QED
      BY <1>1, <1>3, <2>1, <2>2, <3>1 DEF ReaderOK
  <2>3. CASE p # q
    <3>1. pc'[p] = pc[p] /\ events'[p] = events[p]
      BY <1>1, <2>3 DEF StepOK, RunMoves
    <3>2. QED
      BY <1>3, <2>1, <2>3, <3>1 DEF ReaderOK
  <2>4. QED
    BY <2>2, <2>3
<1>6. QED
  BY <1>2, <1>4, <1>5 DEF IInv

(* The reader's own steps leave the service as it is.                      *)
LEMMA ReadingIsOK ==
  ASSUME IInv, NEW q \in Query, Take(q) \/ Send(q) \/ Close(q) \/ Leave(q)
  PROVE  IInv'
<1>1. /\ UNCHANGED vars
      /\ taken \in [Query -> Nat]
      /\ reader \in [Query -> {"get", "send", "closed", "cancelling", "gone", "dropped"}]
  BY DEF Take, Send, Close, Leave, IInv, ReaderTyped
<1>3. RunInv'
  BY <1>1, StutterIsOK DEF IInv
<1>4. events' = events /\ pc' = pc
  BY <1>1 DEF vars, runVars
<1>5. ASSUME NEW p \in Query PROVE ReaderOK(p) /\ Len(events[p]) \in Nat
  BY LengthsAreNaturals DEF IInv, RunInv
<1>6. CASE Take(q)
  <2>1. /\ taken' = [taken EXCEPT ![q] = @ + 1] /\ reader' = [reader EXCEPT ![q] = "send"]
        /\ taken[q] < Len(events[q]) /\ reader[q] = "get"
    BY <1>6 DEF Take, ToReader
  <2>2. ReaderTyped'
    BY <1>1, <2>1 DEF ReaderTyped
  <2>3. ASSUME NEW p \in Query PROVE ReaderOK(p)'
    BY <1>1, <1>4, <1>5, <2>1 DEF ReaderOK
  <2>4. QED
    BY <1>3, <2>2, <2>3 DEF IInv
<1>7. CASE Close(q)
  <2>1. /\ taken' = taken /\ reader' = [reader EXCEPT ![q] = "closed"]
        /\ taken[q] = Len(events[q]) /\ reader[q] = "get" /\ pc[q] \in {"returned", "cancelled"}
    BY <1>7 DEF Close, ToReader, Sentinel
  <2>2. ReaderTyped'
    BY <1>1, <2>1 DEF ReaderTyped
  <2>3. ASSUME NEW p \in Query PROVE ReaderOK(p)'
    BY <1>1, <1>4, <1>5, <2>1 DEF ReaderOK
  <2>4. QED
    BY <1>3, <2>2, <2>3 DEF IInv
<1>8. CASE Send(q) \/ Leave(q)
  <2>1. PICK l \in {"get", "cancelling", "dropped"} : reader' = [reader EXCEPT ![q] = l]
    BY <1>8 DEF Send, Leave, ToReader
  <2>2. taken' = taken /\ reader[q] \in {"get", "send"}
    BY <1>8 DEF Send, Leave
  <2>3. ReaderTyped'
    BY <1>1, <2>1, <2>2 DEF ReaderTyped
  <2>4. ASSUME NEW p \in Query PROVE ReaderOK(p)'
    BY <1>1, <1>4, <1>5, <2>1, <2>2 DEF ReaderOK
  <2>5. QED
    BY <1>3, <2>3, <2>4 DEF IInv
<1>9. QED
  BY <1>6, <1>7, <1>8

LEMMA NextIInv == IInv /\ [StreamNext]_streamVars => IInv'
<1>1. ASSUME IInv, NewDay, UNCHANGED <<taken, reader>> PROVE IInv'
  <2>1. RunInv' /\ UNCHANGED <<pc, events>>
    BY <1>1, NewDayIsOK DEF IInv
  <2>2. ReaderTyped' /\ \A q \in Query : ReaderOK(q)'
    BY <1>1, <2>1 DEF IInv, ReaderTyped, ReaderOK
  <2>3. QED
    BY <2>1, <2>2 DEF IInv
<1>2. ASSUME IInv, UNCHANGED streamVars PROVE IInv'
  <2>1. UNCHANGED vars /\ UNCHANGED <<pc, events>> /\ UNCHANGED <<taken, reader>>
    BY <1>2 DEF streamVars, vars, runVars
  <2>2. RunInv'
    BY <1>2, <2>1, StutterIsOK DEF IInv
  <2>3. ReaderTyped' /\ \A q \in Query : ReaderOK(q)'
    BY <1>2, <2>1 DEF IInv, ReaderTyped, ReaderOK
  <2>4. QED
    BY <2>2, <2>3 DEF IInv
<1>3. QED
  BY <1>1, <1>2, ServeIsOK, CancelRunIsOK, ReadingIsOK DEF StreamNext

LEMMA InitIInv == StreamInit => IInv
<1>. SUFFICES ASSUME StreamInit PROVE IInv
  OBVIOUS
<1>1. /\ Init
      /\ taken = [q \in Query |-> 0]
      /\ reader = [q \in Query |-> "get"]
  BY DEF StreamInit
<1>2. RunInv /\ ReaderTyped
  BY <1>1, InitRunInv DEF ReaderTyped
<1>3. ASSUME NEW q \in Query PROVE ReaderOK(q)
  BY <1>1 DEF Init, ReaderOK
<1>4. QED
  BY <1>2, <1>3 DEF IInv

LEMMA Inductive == StreamSpec => []IInv
<1>1. QED
  BY InitIInv, NextIInv, PTL DEF StreamSpec
-----------------------------------------------------------------------------
(* What the invariant says of a run, in the words of the properties.       *)
LEMMA NamesAreThose == \A q \in Query : Names(q) = NamesOf(events[q])
BY DEF Names, NamesOf

LEMMA ToldOrEnded ==
  ASSUME RunInv, NEW q \in Query
  PROVE  \/ pc[q] # "returned" /\ events[q] \in Told
         \/ /\ pc[q] = "returned" /\ outcome[q] \in Outcome
            /\ \E t \in Told : events[q] = t \o LastWords(outcome[q])
<1>1. RunOK(q) /\ pc[q] \in Place /\ outcome[q] \in Outcome \cup {"none"}
  BY DEF RunInv, Typed, PlaceTyped
<1>2. CASE pc[q] = "returned"
  BY <1>1, <1>2 DEF RunOK, WordsSaid, Heading
<1>3. CASE pc[q] \in {"auditing", "cancelled"}
  BY <1>1, <1>3 DEF RunOK, WordsSaid
<1>4. CASE pc[q] \in Early \cup Decorated
  BY <1>1, <1>4, SaidSoFar DEF Early, Decorated
<1>5. QED
  BY <1>1, <1>2, <1>3, <1>4 DEF Place, Early, Decorated

(* Serving a stream adds nothing to what run_query does: every step of the *)
(* service with its reader is one of run_query or leaves it where it is,   *)
(* so that what is proved of a run holds of a streamed one.                *)
THEOREM StreamsRunQueries == StreamSpec => Init /\ [][Next]_vars
<1>1. StreamInit => Init
  BY DEF StreamInit
<1>2. [StreamNext]_streamVars => [Next]_vars
  <2>1. ASSUME NEW q \in Query, Take(q) \/ Send(q) \/ Close(q) \/ Leave(q) PROVE UNCHANGED vars
    BY <2>1 DEF Take, Send, Close, Leave
  <2>2. QED
    BY <2>1 DEF StreamNext, Serve, CancelRun, Next, streamVars
<1>3. QED
  BY <1>1, <1>2, PTL DEF StreamSpec

(* query_stream: however many requests run side by side, and wherever each *)
(* fails or is cancelled, its events come in the announced order, none     *)
(* twice and none after done, the rows with their count.                   *)
THEOREM StreamsAreInOrder == Spec \/ StreamSpec => []EventsInOrder
<1>1. ASSUME RunInv PROVE EventsInOrder
  <2>. SUFFICES ASSUME NEW q \in Query
       PROVE  /\ InOrder(events[q]) /\ RowsAreWhole(events[q])
              /\ pc[q] = "returned" =>
                   /\ LastEvent(q) = [event |-> "done", outcome |-> outcome[q]]
                   /\ "error" \in NamesOf(events[q]) <=> outcome[q] \notin Answered
    BY NamesAreThose DEF EventsInOrder, InOrder, RowsAreWhole
  <2>1. CASE pc[q] # "returned" /\ events[q] \in Told
    BY <2>1, TellingsAreOrdered, WholeRowsTold
  <2>2. CASE /\ pc[q] = "returned" /\ outcome[q] \in Outcome
             /\ \E t \in Told : events[q] = t \o LastWords(outcome[q])
    <3>1. PICK t \in Told : events[q] = t \o LastWords(outcome[q])
      BY <2>2
    <3>2. PICK o \in Outcome : o = outcome[q]
      BY <2>2
    <3>3. /\ InOrder(events[q])
          /\ NamesOf(events[q]) = NamesOf(t) \cup Closing(o)
          /\ LastEvent(q) = [event |-> "done", outcome |-> o]
      BY <3>1, <3>2, Ended DEF LastEvent
    <3>4. RowsAreWhole(t) /\ {"error", "done"} \cap NamesOf(t) = {}
      BY WholeRowsTold
    <3>5. RowsAreWhole(events[q])
      BY <3>3, <3>4 DEF RowsAreWhole, Closing
    <3>6. "error" \in NamesOf(events[q]) <=> o \notin Answered
      BY <3>3, <3>4 DEF Closing
    <3>7. QED
      BY <3>2, <3>3, <3>5, <3>6
  <2>3. QED
    BY <1>1, <2>1, <2>2, ToldOrEnded
<1>2. QED
  BY <1>1, RunInductive, StreamsRunQueries, PTL DEF Spec

(* _persist_audit before done: whoever has read done of a run reads its    *)
(* outcome in the log, if the audit could be written at all.               *)
THEOREM DoneComesAfterTheAudit == Spec \/ StreamSpec => []DoneAfterAudit
<1>1. ASSUME RunInv PROVE DoneAfterAudit
  <2>. SUFFICES ASSUME NEW q \in Query, "done" \in Names(q)
       PROVE  /\ reply[q] \in {"written", "failed"}
              /\ log[q] # Null => log[q].outcome = LastEvent(q).outcome
              /\ reply[q] = "written" => log[q] # Null
    BY DEF DoneAfterAudit
  <2>1. /\ pc[q] = "returned" /\ outcome[q] \in Outcome
        /\ \E t \in Told : events[q] = t \o LastWords(outcome[q])
    BY <1>1, ToldOrEnded, NamesAreThose, WholeRowsTold
  <2>2. LastEvent(q).outcome = outcome[q]
    <3>1. PICK t \in Told : events[q] = t \o LastWords(outcome[q])
      BY <2>1
    <3>2. LastEvent(q) = [event |-> "done", outcome |-> outcome[q]]
      BY <2>1, <3>1, Ended DEF LastEvent
    <3>3. QED
      BY <3>2
  <2>3. QED
    BY <1>1, <2>1, <2>2 DEF RunInv, RunOK, RecordOK
<1>2. QED
  BY <1>1, RunInductive, StreamsRunQueries, PTL DEF Spec

(* What query_log and query_attempt hold of a run is what happened in it:  *)
(* as many attempts as were paid for, the accepted one last behind an      *)
(* answer, and the rows the user got.                                      *)
THEOREM TheLogTellsTheRun == Spec \/ StreamSpec => []LogTellsTheRun
<1>1. ASSUME RunInv PROVE LogTellsTheRun
  <2>. SUFFICES ASSUME NEW q \in Query, log[q] # Null
       PROVE  /\ gen[q].exit # "crash" => Len(log[q].attempts) = gen[q].usage
              /\ log[q].outcome \in Answered =>
                   /\ log[q].attempts[Len(log[q].attempts)] = Gen!Accepted
                   /\ log[q].rows = shape[q]
                   /\ log[q].outcome = "OK_ZERO_ROWS" <=> shape[q] = "zero"
              /\ log[q].outcome \notin Answered => log[q].rows = Null
    BY DEF LogTellsTheRun
  <2>1. RunOK(q) /\ Typed
    BY <1>1 DEF RunInv
  <2>2. log[q] = entry[q] /\ reply[q] # "idle"
    BY <2>1 DEF RunOK, RecordOK
  <2>3. /\ entry[q].outcome = outcome[q]
        /\ gen[q].exit # "crash" => entry[q].attempts = AuditAttempts(q)
        /\ gen[q].status \in {"idle", "returned"}
        /\ outcome[q] \in Answered =>
             /\ gen[q].status = "returned" /\ gen[q].exit = "result"
             /\ entry[q].rows = shape[q]
             /\ outcome[q] = "OK_ZERO_ROWS" <=> shape[q] = "zero"
        /\ outcome[q] \notin Answered => entry[q].rows = Null
    BY <2>1, <2>2 DEF RunOK, RecordOK
  <2>4. CallOK(gen[q]) /\ gen[q] \in Call
    BY <2>1 DEF RunOK, Typed, GenTyped
  <2>5. /\ Len(AuditAttempts(q)) = gen[q].usage
        /\ gen[q].status = "returned" =>
             \A i \in 1..gen[q].usage : AuditAttempts(q)[i] = gen[q].attempts[i].outcome
    <3>1. CASE gen[q].status = "returned"
      BY <2>1, <2>4, <3>1, AttemptsKept
    <3>2. CASE gen[q].status = "idle"
      <4>1. AuditAttempts(q) = <<>>
        BY <3>2 DEF AuditAttempts
      <4>2. gen[q].usage = 0
        BY <2>4, <3>2 DEF CallOK, Call
      <4>3. QED
        BY <3>2, <4>1, <4>2
    <3>3. QED
      BY <2>3, <3>1, <3>2
  <2>6. ASSUME outcome[q] \in Answered
        PROVE  log[q].attempts[Len(log[q].attempts)] = Gen!Accepted
    <3>1. gen[q].status = "returned" /\ gen[q].exit = "result"
          /\ log[q].attempts = AuditAttempts(q)
      BY <2>2, <2>3, <2>6
    <3>2. /\ gen[q].usage \in Nat /\ gen[q].usage = Len(gen[q].attempts) /\ gen[q].usage > 0
          /\ gen[q].attempts[gen[q].usage].outcome = Gen!Accepted
      BY <2>4, <3>1 DEF CallOK, Call
    <3>3. gen[q].usage \in 1..gen[q].usage
      BY <3>2
    <3>4. QED
      BY <2>5, <3>1, <3>2, <3>3
  <2>7. QED
    BY <2>2, <2>3, <2>5, <2>6
<1>2. QED
  BY <1>1, RunInductive, StreamsRunQueries, PTL DEF Spec

(* No attempt is in nlq_attempts that the budget did not get: generation   *)
(* may return, decline, run out of attempts or lose the model, and what    *)
(* follows may fail at any await.                                          *)
THEOREM LoggedAttemptsWerePaid == Spec \/ StreamSpec => []LoggedAttemptsArePaid
<1>1. ASSUME RunInv PROVE LoggedAttemptsArePaid
  <2>. SUFFICES ASSUME NEW q \in Query, log[q] # Null
       PROVE  IF step[q] = "failed" THEN log[q].outcome \in DatabaseFailure
              ELSE \A type \in Acct!PeriodType : paid[q][type] >= Len(log[q].attempts)
    BY DEF LoggedAttemptsArePaid
  <2>1. RecordOK(q)
    BY <1>1 DEF RunInv, RunOK
  <2>2. log[q] = entry[q] /\ reply[q] # "idle"
    BY <2>1 DEF RecordOK
  <2>3. PaidUp(q) /\ entry[q].outcome = outcome[q]
    BY <2>1, <2>2 DEF RecordOK
  <2>4. QED
    BY <2>2, <2>3 DEF PaidUp, Acct!PeriodType
<1>2. QED
  BY <1>1, RunInductive, StreamsRunQueries, PTL DEF Spec

(* _charge_global_budget: an answer has been charged to the day and to the *)
(* month, for every completion of its SQL and of its narrative, whatever   *)
(* the other requests charge in between.                                   *)
THEOREM EveryAnswerIsPaid == Spec \/ StreamSpec => []AnswersArePaid
<1>1. RunInv => AnswersArePaid
  BY DEF RunInv, RunOK, MoneyPaid, Paid, AnswersArePaid, Acct!PeriodType
<1>2. QED
  BY <1>1, RunInductive, StreamsRunQueries, PTL DEF Spec

(* check_budget comes first: until it has let a request in, and if it does *)
(* not, the model is not called, no SQL is shown and nothing is charged.   *)
THEOREM RefusedRunsDoNothing == Spec \/ StreamSpec => []OverBudgetNothingRuns
<1>1. ASSUME RunInv PROVE OverBudgetNothingRuns
  <2>. SUFFICES ASSUME NEW q \in Query, step[q] \in {"readDay", "readMonth", "blocked"}
       PROVE  /\ gen[q].status = "idle" /\ billed[q] = 0
              /\ "sql" \notin Names(q)
              /\ outcome[q] \in {"none", "THROTTLED_BUDGET"}
    BY DEF OverBudgetNothingRuns
  <2>1. CASE step[q] = "blocked"
    BY <1>1, <2>1 DEF RunInv, RunOK, BlockedIsIdle
  <2>2. CASE step[q] \in {"readDay", "readMonth"}
    <3>1. pc[q] = "budget"
      BY <1>1, <2>2 DEF RunInv, RunOK, MoneyPaid
    <3>2. gen[q].status = "idle" /\ billed[q] = 0 /\ events[q] = <<>> /\ outcome[q] = "none"
      BY <1>1, <3>1 DEF RunInv, RunOK, CallsMade, WordsSaid, Heading, Early
    <3>3. QED
      BY <3>2 DEF Names
  <2>3. QED
    BY <2>1, <2>2
<1>2. QED
  BY <1>1, RunInductive, StreamsRunQueries, PTL DEF Spec

LEMMA ComponentsTyped == RunInv => TypeOK
<1>. SUFFICES ASSUME RunInv PROVE TypeOK
  OBVIOUS
<1>1. ASSUME NEW q \in Query
      PROVE  /\ gen[q].status \in {"idle", "calling", "returned", "abandoned"}
             /\ gen[q].exit \in Gen!Exit \cup {"none"}
             /\ Len(gen[q].attempts) <= SqlMaxAttempts
             /\ \A i \in DOMAIN gen[q].attempts :
                  /\ gen[q].attempts[i].no = i
                  /\ i < Len(gen[q].attempts) => gen[q].attempts[i].outcome \in Rejection
  BY DEF RunInv, RunOK, CallOK, Typed, GenTyped, Call
<1>2. Gen!TypeOK
  BY <1>1 DEF Gen!TypeOK, RunInv, Typed, GenTyped
<1>3. QED
  BY <1>2 DEF RunInv, Typed, PlaceTyped, TypeOK, Shape, RunOK, Heading

(* Every component keeps the shape of its state in the company of the      *)
(* others, and the reader is never ahead of the run.                       *)
THEOREM StreamTypes == StreamSpec => []StreamTypeOK
<1>1. IInv => StreamTypeOK
  BY ComponentsTyped DEF IInv, ReaderTyped, ReaderOK, StreamTypeOK
<1>2. QED
  BY <1>1, Inductive, PTL

(* _stream_query_events: a stream that ends by itself has delivered all    *)
(* the run said, done last.                                                *)
THEOREM StreamsEndWithDone == StreamSpec => []StreamEndsWithDone
<1>1. ASSUME IInv PROVE StreamEndsWithDone
  <2>. SUFFICES ASSUME NEW q \in Query, reader[q] = "closed"
       PROVE  /\ taken[q] = Len(events[q])
              /\ LastEvent(q) = [event |-> "done", outcome |-> outcome[q]]
    BY DEF StreamEndsWithDone
  <2>1. pc[q] = "returned" /\ taken[q] = Len(events[q])
    BY <1>1 DEF IInv, ReaderOK
  <2>2. outcome[q] \in Outcome /\ \E t \in Told : events[q] = t \o LastWords(outcome[q])
    BY <1>1, <2>1, ToldOrEnded DEF IInv
  <2>3. QED
    BY <2>1, <2>2, Ended DEF LastEvent
<1>2. QED
  BY <1>1, Inductive, PTL
-----------------------------------------------------------------------------
(* The components in this company.                                         *)
AcctStep == Acct!Next \/ UNCHANGED acctVars

GenStep == Gen!Next \/ UNCHANGED genVars

NarStep == Nar!Next \/ UNCHANGED narVars

LogStep == Log!Next \/ UNCHANGED logVars

LEMMA DecorateMovesTheNarrative ==
  ASSUME NEW q \in Query, NEW es, NEW o, NEW s, NEW warned, Decorate(q, es, o, s, warned)
  PROVE  NarStep
BY DEF Decorate, NarStep, Nar!Next

LEMMA AcctSteps ==
  ASSUME RunInv, [Next]_vars PROVE AcctStep
<1>1. ASSUME NEW q \in Query
      PROVE  gen[q].usage \in 0..SqlMaxAttempts + NarrativeMaxAttempts
             /\ nar[q].usage \in 0..SqlMaxAttempts + NarrativeMaxAttempts
  BY Amounts DEF RunInv, RunOK, CallOK, Typed, GenTyped, Call, Nar!TypeOK
<1>2. ASSUME NEW q \in Query, ChargeBreaks(q) PROVE Acct!Next
  BY <1>1, <1>2 DEF ChargeBreaks, Acct!Next
<1>3. ASSUME NEW q \in Query, Start(q) \/ ReadBudget(q) \/ ReadBudgetFails(q) PROVE Acct!Next
  BY <1>3 DEF Start, ReadBudget, ReadBudgetFails, Acct!Next
<1>4. ASSUME NEW q \in Query, ChargeDaily(q) PROVE Acct!Next
  BY <1>1, <1>4 DEF ChargeDaily, Acct!Next
<1>5. ASSUME NEW q \in Query, ChargeMonthly(q) \/ NarrativeCharged(q) PROVE Acct!Next
  BY <1>5 DEF ChargeMonthly, NarrativeCharged, Acct!Next
<1>6. ASSUME NEW q \in Query, ChargeFails(q) PROVE Acct!Next
  BY <1>2, <1>6 DEF ChargeFails
<1>7. ASSUME NEW q \in Query, Cancel(q) PROVE AcctStep
  <2>1. CASE ChargeBreaks(q)
    BY <1>2, <2>1 DEF AcctStep
  <2>2. CASE Acct!ReadFails(q)
    BY <2>2 DEF AcctStep, Acct!Next
  <2>3. QED
    BY <1>7, <2>1, <2>2 DEF Cancel, AcctStep
<1>8. ASSUME NEW q \in Query,
             \/ Generate(q) \/ ExecuteRows(q) \/ ExecuteZero(q) \/ Diagnose(q) \/ DataFails(q)
             \/ Narrate(q) \/ Finish(q) \/ AuditCommits(q) \/ AuditEndsAlone(q)
      PROVE  UNCHANGED acctVars
  BY <1>8 DEF Generate, ExecuteRows, ExecuteZero, Diagnose, DataFails, Narrate, Finish,
              AuditCommits, AuditEndsAlone
<1>9. NewDay => Acct!Next
  BY DEF NewDay, Acct!Next
<1>10. QED
  BY <1>3, <1>4, <1>5, <1>6, <1>7, <1>8, <1>9 DEF Next, RunStep, AcctStep, vars

LEMMA GenSteps ==
  ASSUME [Next]_vars PROVE GenStep
<1>1. ASSUME NEW q \in Query, ReadBudget(q) PROVE GenStep
  BY <1>1 DEF ReadBudget, GenStep, Gen!Next
<1>2. ASSUME NEW q \in Query, Generate(q) PROVE GenStep
  BY <1>2 DEF Generate, GenStep, Gen!Next
<1>3. ASSUME NEW q \in Query, Cancel(q) PROVE GenStep
  BY <1>3 DEF Cancel, GenStep, Gen!Next
<1>4. ASSUME NEW q \in Query,
             \/ Start(q) \/ ReadBudgetFails(q) \/ ChargeDaily(q) \/ ChargeMonthly(q)
             \/ ChargeFails(q) \/ ExecuteRows(q) \/ ExecuteZero(q) \/ Diagnose(q)
             \/ DataFails(q) \/ Narrate(q) \/ NarrativeCharged(q) \/ Finish(q)
             \/ AuditCommits(q) \/ AuditEndsAlone(q)
      PROVE  UNCHANGED genVars
  BY <1>4 DEF Start, ReadBudgetFails, ChargeDaily, ChargeMonthly, ChargeFails, ExecuteRows,
              ExecuteZero, Diagnose, DataFails, Narrate, NarrativeCharged, Finish,
              AuditCommits, AuditEndsAlone
<1>5. NewDay => UNCHANGED genVars
  BY DEF NewDay
<1>6. QED
  BY <1>1, <1>2, <1>3, <1>4, <1>5 DEF Next, RunStep, GenStep, vars

LEMMA NarSteps ==
  ASSUME [Next]_vars PROVE NarStep
<1>1. ASSUME NEW q \in Query, Narrate(q) PROVE NarStep
  BY <1>1 DEF Narrate, NarStep, Nar!Next
<1>2. ASSUME NEW q \in Query, Cancel(q) PROVE NarStep
  BY <1>2 DEF Cancel, NarStep, Nar!Next
<1>3. ASSUME NEW q \in Query, ExecuteRows(q) \/ Diagnose(q) PROVE NarStep
  BY <1>3, DecorateMovesTheNarrative DEF ExecuteRows, Diagnose
<1>4. ASSUME NEW q \in Query,
             \/ Start(q) \/ ReadBudget(q) \/ ReadBudgetFails(q) \/ Generate(q)
             \/ ChargeDaily(q) \/ ChargeMonthly(q) \/ ChargeFails(q) \/ ExecuteZero(q)
             \/ DataFails(q) \/ NarrativeCharged(q) \/ Finish(q)
             \/ AuditCommits(q) \/ AuditEndsAlone(q)
      PROVE  UNCHANGED narVars
  BY <1>4 DEF Start, ReadBudget, ReadBudgetFails, Generate, ChargeDaily, ChargeMonthly,
              ChargeFails, ExecuteZero, DataFails, NarrativeCharged, Finish,
              AuditCommits, AuditEndsAlone
<1>5. NewDay => UNCHANGED narVars
  BY DEF NewDay
<1>6. QED
  BY <1>1, <1>2, <1>3, <1>4, <1>5 DEF Next, RunStep, NarStep, vars

(* A step that submits a record submits a possible one.                    *)
LEMMA SubmittedIsAnEntry ==
  ASSUME RunInv, RunInv', NEW q \in Query, NEW o,
         NEW rows \in {"zero", "zeroAggregate", "some", Null}, Audit(q, o, rows)
  PROVE  LogStep
<1>. DEFINE e == [outcome |-> o, attempts |-> AuditAttempts(q), rows |-> rows]
<1>1. Log!Submit(q, e)
  BY DEF Audit
<1>2. outcome'[q] = o /\ pc'[q] = "auditing"
  BY DEF Audit, Goto, RunInv, Typed, PlaceTyped
<1>3. o \in Outcome
  BY <1>2 DEF RunInv, RunOK, Heading, Typed, PlaceTyped
<1>4. AuditAttempts(q) \in UNION {[1..n -> Ending] : n \in 0..SqlMaxAttempts}
  BY AttemptsKept DEF RunInv, RunOK
<1>5. e \in Entry
  BY <1>3, <1>4 DEF Entry, Ending
<1>6. QED
  BY <1>1, <1>5 DEF LogStep, Log!Next

LEMMA LogSteps ==
  ASSUME RunInv, RunInv', [Next]_vars PROVE LogStep
<1>1. ASSUME NEW q \in Query, NEW o, Fail(q, o) PROVE LogStep
  BY <1>1, SubmittedIsAnEntry DEF Fail
<1>2. ASSUME NEW q \in Query, ReadBudget(q) \/ ReadBudgetFails(q) PROVE LogStep
  <2>1. CASE Audit(q, "THROTTLED_BUDGET", Null)
    BY <2>1, SubmittedIsAnEntry
  <2>2. QED
    BY <1>1, <1>2, <2>1 DEF ReadBudget, ReadBudgetFails, LogStep
<1>3. ASSUME NEW q \in Query, Generate(q) \/ Narrate(q) PROVE LogStep
  BY <1>1, <1>3 DEF Generate, Narrate, LogStep
<1>4. ASSUME NEW q \in Query, ChargeFails(q) \/ DataFails(q) PROVE LogStep
  BY <1>1, <1>4 DEF ChargeFails, DataFails
<1>5. ASSUME NEW q \in Query, ChargeMonthly(q) PROVE LogStep
  <2>1. CASE Audit(q, gen[q].outcome, Null)
    BY <2>1, SubmittedIsAnEntry
  <2>2. QED
    BY <1>5, <2>1 DEF ChargeMonthly, LogStep
<1>6. ASSUME NEW q \in Query, NEW es, NEW o, NEW s \in {"zero", "zeroAggregate", "some"},
             NEW warned, Decorate(q, es, o, s, warned)
      PROVE  LogStep
  <2>1. CASE Audit(q, o, s)
    BY <2>1, SubmittedIsAnEntry
  <2>2. QED
    BY <1>6, <2>1 DEF Decorate, LogStep
<1>7. ASSUME NEW q \in Query, pc[q] \in Decorated
      PROVE  shape[q] \in {"zero", "zeroAggregate", "some"}
  BY <1>7 DEF RunInv, RunOK, Heading, Typed, PlaceTyped, Shape
<1>8. ASSUME NEW q \in Query, ExecuteRows(q) \/ Diagnose(q) PROVE LogStep
  BY <1>6, <1>7, <1>8 DEF ExecuteRows, Diagnose, Decorated
<1>9. ASSUME NEW q \in Query, NarrativeCharged(q) PROVE LogStep
  <2>1. Audit(q, Graded(q), shape[q]) /\ shape[q] \in {"zero", "zeroAggregate", "some", Null}
    BY <1>7, <1>9 DEF NarrativeCharged, Decorated
  <2>2. QED
    BY <2>1, SubmittedIsAnEntry
<1>10. ASSUME NEW q \in Query, Finish(q) \/ AuditCommits(q) \/ AuditEndsAlone(q) PROVE LogStep
  BY <1>10 DEF Finish, AuditCommits, AuditEndsAlone, LogStep, Log!Next
<1>11. ASSUME NEW q \in Query, Start(q) \/ ChargeDaily(q) \/ ExecuteZero(q) \/ Cancel(q)
       PROVE  UNCHANGED logVars
  BY <1>11 DEF Start, ChargeDaily, ExecuteZero, Cancel
<1>12. NewDay => UNCHANGED logVars
  BY DEF NewDay
<1>13. QED
  BY <1>2, <1>3, <1>4, <1>5, <1>8, <1>9, <1>10, <1>11, <1>12
  DEF Next, RunStep, LogStep, vars

(* What is proved of the budget, of SQL generation and of the narrative by *)
(* themselves holds of them inside run_query, and the audit's steps are    *)
(* those that the log's specification allows: each component is only moved *)
(* by its own operations, with amounts, facts and records it takes.        *)
THEOREM ComponentsAreKept ==
  Spec \/ StreamSpec => Acct!Spec /\ Gen!Spec /\ Nar!Spec /\ Log!Init /\ [][Log!Next]_logVars
<1>1. Init => Acct!Init /\ Gen!Init /\ Nar!Init /\ Log!Init
  BY DEF Init
<1>2. RunInv /\ [Next]_vars => [Acct!Next]_(Acct!vars)
  BY AcctSteps DEF AcctStep, acctVars, Acct!vars
<1>3. [Next]_vars => [Gen!Next]_(Gen!vars)
  BY GenSteps DEF GenStep, genVars, Gen!vars
<1>4. [Next]_vars => [Nar!Next]_(Nar!vars)
  BY NarSteps DEF NarStep, narVars, Nar!vars
<1>5. RunInv /\ RunInv' /\ [Next]_vars => [Log!Next]_logVars
  BY LogSteps DEF LogStep
<1>6. QED
  BY <1>1, <1>2, <1>3, <1>4, <1>5, RunInductive, StreamsRunQueries, PTL
  DEF Spec, Acct!Spec, Gen!Spec, Nar!Spec

(* Whatever else a run does and however many there are, how its SQL        *)
(* generation ended agrees with the attempts that are audited: a failure   *)
(* was given up after the last attempt, a question was declined by it.     *)
THEOREM ExitsTellTheAttempts == Spec \/ StreamSpec => []Gen!ExitTellsTheAttempts
<1>1. RunInv => Gen!ExitTellsTheAttempts
  <2>. SUFFICES ASSUME RunInv, NEW q \in Query, gen[q].status = "returned"
                PROVE  LET n == Len(gen[q].attempts)
                       IN  CASE gen[q].exit = "result" ->
                                  gen[q].attempts[n].outcome = Gen!Accepted
                             [] gen[q].exit \in {"clarification", "out_of_scope"} ->
                                  gen[q].attempts[n].outcome = gen[q].outcome
                             [] gen[q].exit = "failed" ->
                                  /\ n = SqlMaxAttempts
                                  /\ gen[q].attempts[n].outcome = gen[q].outcome
                             [] OTHER -> n < SqlMaxAttempts /\ Gen!Outcomes(q) \subseteq Rejection
    BY DEF Gen!ExitTellsTheAttempts
  <2>1. CallOK(gen[q]) /\ gen[q] \in Call
    BY DEF RunInv, RunOK, Typed, GenTyped
  <2>2. ExitTold(gen[q].attempts, gen[q].exit, gen[q].outcome)
        /\ gen[q].exit \in Gen!Exit /\ gen[q].attempts \in Seq(Attempt)
        /\ (gen[q].exit = "result" =>
              gen[q].attempts[Len(gen[q].attempts)].outcome = Gen!Accepted)
    BY <2>1 DEF CallOK, Call
  <2>3. QED
    BY <2>2 DEF ExitTold, Gen!Exit, Gen!Outcomes
<1>2. QED
  BY <1>1, RunInductive, StreamsRunQueries, PTL DEF Spec

(* The log that the runs leave behind has what each of them asked to       *)
(* record, and nothing a run or a stream does later replaces or removes    *)
(* it.                                                                     *)
THEOREM TheLogIsHonest == Spec \/ StreamSpec => []Log!LogIsHonest /\ Log!LogIsFinal
<1>1. RunInv => Log!LogIsHonest
  BY DEF RunInv, RunOK, RecordOK, Log!LogIsHonest
<1>2. Log!TypeOK /\ LogStep =>
        [\A q \in Query : log[q] # Null => log'[q] = log[q]]_(Log!vars)
  <2>. SUFFICES ASSUME Log!TypeOK, Log!Next, NEW r \in Query, log[r] # Null
                PROVE  log'[r] = log[r]
    BY DEF LogStep, logVars, Log!vars
  <2>1. PICK q \in Query :
          \/ \E e \in Entry : Log!Submit(q, e)
          \/ Log!Record(q) \/ Log!Acknowledge(q) \/ Log!GiveUp(q) \/ Log!Kill(q)
    BY DEF Log!Next
  <2>2. CASE Log!Record(q)
    BY <2>2 DEF Log!Record, Log!TypeOK
  <2>3. CASE UNCHANGED log
    BY <2>3
  <2>4. QED
    BY <2>1, <2>2, <2>3
    DEF Log!Submit, Log!Acknowledge, Log!GiveUp, Log!Kill, Log!Answer
<1>3. RunInv /\ RunInv' /\ [Next]_vars =>
        [\A q \in Query : log[q] # Null => log'[q] = log[q]]_(Log!vars)
  BY <1>2, LogSteps DEF RunInv, Typed
<1>4. QED
  BY <1>1, <1>3, RunInductive, StreamsRunQueries, PTL DEF Spec, Log!LogIsFinal
=============================================================================
