---------------------------- MODULE BudgetProofs ----------------------------
(***************************************************************************)
(* What the runs of Budget check on two slots holds for any number of      *)
(* requests, any prices, any limits and any calendar.                      *)
(*                                                                         *)
(* The refusal at 100% is not inductive by itself: that a period was full  *)
(* when a request arrived has to survive until that request reads it.  It  *)
(* does because counters only grow (ExhaustedStaysFull), so the periods    *)
(* remembered at arrival are full at every later state of the request.     *)
(*                                                                         *)
(* The bound on the overshoot is a sum over the requests in progress.  It  *)
(* is counted in open charges (Open), a subset of Query \X (1..Charges):   *)
(* while a period has money left, all of them may be open; from then on a  *)
(* request that arrives opens none, and each charge closes one.            *)
(***************************************************************************)
EXTENDS Budget, FiniteSetTheorems, TLAPS

(* A period that was used up when a request arrived is still used up.      *)
ExhaustedStaysFull ==
  \A q \in Query : \A p \in exhausted[q] : counter[p] >= LimitOf(p)

(* On its way in, a request has read nothing that was used up and has      *)
(* charged nothing.                                                        *)
WayInIsClean ==
  \A q \in Query :
    /\ step[q] = "readDay" => basis[q] = {}
    /\ step[q] = "readMonth" => basis[q] \cap exhausted[q] = {}
    /\ step[q] \in {"readDay", "readMonth"} => paid[q]["DAY"] = paid[q]["MONTH"]

IInv ==
  /\ TypeOK
  /\ ExhaustedStaysFull
  /\ WayInIsClean
  /\ NoAdmissionAfterExhaustion
  /\ MonthFollowsDay

(* A date has a month, and the month's number is within the calendar.      *)
LEMMA DatesHavePeriods ==
  ASSUME NEW day \in 0..LastDay, NEW type \in PeriodType
  PROVE  PeriodOf(type, day) \in CounterKey
<1>1. DaysPerMonth \in Nat /\ DaysPerMonth >= 1 /\ LastDay \in Nat
  BY BudgetAssumption DEF BudgetParameters
<1>2. day \div DaysPerMonth \in 0..day
  BY <1>1
<1>3. PeriodKey(type, day) \in 0..LastDay
  BY <1>1, <1>2 DEF PeriodKey
<1>4. QED
  BY <1>3 DEF PeriodOf, CounterKey

(* The date of a statement is one of the calendar.                         *)
LEMMA DatesOfStatements ==
  ASSUME TypeOK, NEW q \in Query, NEW day \in since[q]..today
  PROVE  /\ day \in 0..LastDay /\ day \in Nat
         /\ since[q] \in Nat /\ today \in Nat /\ since[q] <= day /\ day <= today
         /\ \A type \in PeriodType : PeriodOf(type, day) \in CounterKey
<1>1. /\ day \in 0..LastDay /\ day \in Nat
      /\ since[q] \in Nat /\ today \in Nat /\ since[q] <= day /\ day <= today
  BY BudgetAssumption DEF BudgetParameters, TypeOK
<1>2. QED
  BY <1>1, DatesHavePeriods

LEMMA LimitIsNat ==
  ASSUME NEW p \in CounterKey
  PROVE  LimitOf(p) \in Nat
BY BudgetAssumption DEF BudgetParameters, LimitOf

(* What one UPSERT does: one counter grows by the amount, and the request  *)
(* is recorded to have paid it to a period of that type.                   *)
LEMMA UpsertAdds ==
  ASSUME TypeOK, NEW q \in Query, NEW type \in PeriodType, NEW amount \in Nat,
         NEW day \in since[q]..today, Upsert(q, type, day, amount)
  PROVE  /\ counter' \in [CounterKey -> Nat]
         /\ \A p \in CounterKey : counter'[p] >= counter[p]
         /\ ledger' \in [Query -> [CounterKey -> Nat]]
         /\ paid' \in [Query -> [PeriodType -> Nat]]
         /\ paid'[q][type] = paid[q][type] + amount
         /\ \A other \in PeriodType \ {type} : paid'[q][other] = paid[q][other]
         /\ \A r \in Query \ {q} : paid'[r] = paid[r]
<1>1. PeriodOf(type, day) \in CounterKey
  BY DatesOfStatements
<1>2. /\ counter \in [CounterKey -> Nat]
      /\ paid \in [Query -> [PeriodType -> Nat]]
      /\ ledger \in [Query -> [CounterKey -> Nat]]
  BY DEF TypeOK
<1>3. /\ counter' \in [CounterKey -> Nat]
      /\ \A p \in CounterKey : counter'[p] >= counter[p]
  BY <1>1, <1>2 DEF Upsert
<1>4. /\ paid' = [paid EXCEPT ![q][type] = @ + amount]
      /\ ledger' = [ledger EXCEPT ![q][PeriodOf(type, day)] = @ + amount]
  BY DEF Upsert, Pays
<1>5. ledger' \in [Query -> [CounterKey -> Nat]]
  BY <1>1, <1>2, <1>4
<1>6. QED
  BY <1>2, <1>3, <1>4, <1>5

(* The counters are amounts and only grow.                                 *)
Grows ==
  /\ counter' \in [CounterKey -> Nat]
  /\ \A p \in CounterKey : counter'[p] >= counter[p]

(* The only steps that touch a counter are the UPSERTs.                    *)
LEMMA StepGrows ==
  ASSUME TypeOK, [Next]_vars
  PROVE  Grows
<1>1. ASSUME UNCHANGED counter
      PROVE  Grows
  BY <1>1 DEF TypeOK, Grows
<1>2. ASSUME NEW q \in Query, NEW type \in PeriodType, NEW amount \in Nat,
             \E day \in since[q]..today : Upsert(q, type, day, amount)
      PROVE  Grows
  BY <1>2, UpsertAdds DEF Grows
<1>3. CASE UNCHANGED vars
  BY <1>1, <1>3 DEF vars
<1>4. CASE NewDay
  BY <1>1, <1>4 DEF NewDay
<1>5. ASSUME NEW q \in Query,
             \/ Arrive(q) \/ CheckDaily(q) \/ CheckMonthly(q) \/ ReadFails(q)
             \/ Leave(q)
      PROVE  UNCHANGED counter
  BY <1>5 DEF Arrive, CheckDaily, CheckMonthly, ReadCounter, ReadFails, Leave
<1>6. ASSUME NEW q \in Query, NEW amount \in Cost,
             PayDaily(q, amount) \/ PayDailyFails(q, amount)
      PROVE  UNCHANGED counter \/ \E day \in since[q]..today : Upsert(q, "DAY", day, amount)
  BY <1>6 DEF PayDaily, PayDailyFails
<1>7. ASSUME NEW q \in Query, PayMonthly(q) \/ PayMonthlyFails(q)
      PROVE  UNCHANGED counter \/ \E day \in since[q]..today : Upsert(q, "MONTH", day, owed[q])
  BY <1>7 DEF PayMonthly, PayMonthlyFails
<1>8. \A amount \in Cost : amount \in Nat
  BY BudgetAssumption DEF BudgetParameters
<1>9. \A q \in Query : owed[q] \in Nat
  BY DEF TypeOK
<1>10. "DAY" \in PeriodType /\ "MONTH" \in PeriodType
  BY DEF PeriodType
<1>11. CASE Next
  <2>1. ASSUME NEW q \in Query,
               \/ Arrive(q) \/ CheckDaily(q) \/ CheckMonthly(q) \/ ReadFails(q)
               \/ Leave(q)
        PROVE  Grows
    BY <2>1, <1>1, <1>5
  <2>2. ASSUME NEW q \in Query, NEW amount \in Cost,
               PayDaily(q, amount) \/ PayDailyFails(q, amount)
        PROVE  Grows
    BY <2>2, <1>1, <1>2, <1>6, <1>8, <1>10
  <2>3. ASSUME NEW q \in Query, PayMonthly(q) \/ PayMonthlyFails(q)
        PROVE  Grows
    BY <2>3, <1>1, <1>2, <1>7, <1>9, <1>10
  <2>4. QED
    BY <1>4, <1>11, <2>1, <2>2, <2>3 DEF Next
<1>12. QED
  BY <1>3, <1>11

LEMMA InitIInv == Init => IInv
<1>1. SUFFICES ASSUME Init PROVE IInv
  OBVIOUS
<1>2. TypeOK
  <2>1. counter \in [CounterKey -> Nat]
    <3>1. /\ began \in [PeriodType -> Spent]
          /\ counter = [p \in CounterKey |-> IF p[2] = 0 THEN began[p[1]] ELSE 0]
      BY <1>1 DEF Init, Began
    <3>2. \A p \in CounterKey : p[1] \in PeriodType
      BY DEF CounterKey
    <3>3. \A p \in CounterKey : began[p[1]] \in Nat
      BY <3>1, <3>2, BudgetAssumption DEF BudgetParameters
    <3>4. QED
      BY <3>1, <3>3
  <2>2. began \in [PeriodType -> Nat] /\ ledger \in [Query -> [CounterKey -> Nat]]
    BY <1>1, BudgetAssumption DEF BudgetParameters, Init
  <2>3. since \in [Query -> 0..today]
    BY <1>1 DEF Init
  <2>4. QED
    BY <1>1, <2>1, <2>2, <2>3, BudgetAssumption DEF BudgetParameters, Init, TypeOK, PeriodType
<1>3. ExhaustedStaysFull /\ WayInIsClean
  BY <1>1 DEF Init, ExhaustedStaysFull, WayInIsClean
<1>4. NoAdmissionAfterExhaustion
  BY <1>1 DEF Init, NoAdmissionAfterExhaustion, Admitted
<1>5. MonthFollowsDay
  BY <1>1 DEF Init, MonthFollowsDay, Admitted, PeriodType
<1>6. QED
  BY <1>2, <1>3, <1>4, <1>5 DEF IInv

(* What a request's own variables must satisfy, given the counters.        *)
Sound(q) ==
  /\ step[q] \in {"idle", "readDay", "readMonth", "admitted", "blocked",
                  "payMonth", "failed"}
  /\ owed[q] \in Nat
  /\ charges[q] \in 0..Charges
  /\ basis[q] \in SUBSET CounterKey
  /\ since[q] \in 0..today
  /\ exhausted[q] \in SUBSET CounterKey
  /\ paid[q] \in [PeriodType -> Nat]
  /\ step[q] # "payMonth" => owed[q] = 0
  /\ \A p \in exhausted[q] : counter[p] >= LimitOf(p)
  /\ step[q] = "readDay" => basis[q] = {}
  /\ step[q] \in {"readMonth", "admitted", "payMonth"} =>
       basis[q] \cap exhausted[q] = {}
  /\ paid[q]["MONTH"] <= paid[q]["DAY"]
  /\ step[q] \in {"readDay", "readMonth"} => paid[q]["DAY"] = paid[q]["MONTH"]
  /\ step[q] \in {"admitted", "payMonth"} =>
       paid[q]["DAY"] = paid[q]["MONTH"] + owed[q]

Shape ==
  /\ today \in 0..LastDay
  /\ counter \in [CounterKey -> Nat]
  /\ DOMAIN step = Query /\ step = [q \in Query |-> step[q]]
  /\ DOMAIN owed = Query /\ owed = [q \in Query |-> owed[q]]
  /\ DOMAIN charges = Query /\ charges = [q \in Query |-> charges[q]]
  /\ DOMAIN basis = Query /\ basis = [q \in Query |-> basis[q]]
  /\ DOMAIN since = Query /\ since = [q \in Query |-> since[q]]
  /\ DOMAIN exhausted = Query /\ exhausted = [q \in Query |-> exhausted[q]]
  /\ DOMAIN paid = Query /\ paid = [q \in Query |-> paid[q]]
  /\ began \in [PeriodType -> Nat]
  /\ ledger \in [Query -> [CounterKey -> Nat]]

(* The invariant, request by request.                                      *)
LEMMA IInvBySlot == IInv <=> Shape /\ \A q \in Query : Sound(q)
<1>1. ASSUME IInv PROVE Shape
  BY <1>1 DEF IInv, TypeOK, Shape
<1>2. ASSUME IInv, NEW q \in Query PROVE Sound(q)
  BY <1>2 DEF IInv, TypeOK, Sound, ExhaustedStaysFull, WayInIsClean,
              NoAdmissionAfterExhaustion, MonthFollowsDay, Admitted
<1>3. ASSUME Shape, \A q \in Query : Sound(q) PROVE TypeOK
  BY <1>3 DEF Shape, Sound, TypeOK
<1>4. ASSUME Shape, \A q \in Query : Sound(q)
      PROVE  ExhaustedStaysFull /\ WayInIsClean /\ NoAdmissionAfterExhaustion
             /\ MonthFollowsDay
  BY <1>4 DEF Sound, ExhaustedStaysFull, WayInIsClean,
              NoAdmissionAfterExhaustion, MonthFollowsDay, Admitted
<1>5. QED
  BY <1>1, <1>2, <1>3, <1>4 DEF IInv

(* Nothing a request holds is hurt by what others charge.                  *)
LEMMA Undisturbed ==
  ASSUME NEW r \in Query, Sound(r), counter \in [CounterKey -> Nat],
         counter' \in [CounterKey -> Nat],
         \A p \in CounterKey : counter'[p] >= counter[p],
         today \in 0..LastDay, today' \in 0..LastDay, today <= today',
         step'[r] = step[r], owed'[r] = owed[r], charges'[r] = charges[r], since'[r] = since[r],
         basis'[r] = basis[r], exhausted'[r] = exhausted[r], paid'[r] = paid[r]
  PROVE  Sound(r)'
<1>1. \A p \in exhausted[r] : counter'[p] >= LimitOf(p)
  <2>1. SUFFICES ASSUME NEW p \in exhausted[r] PROVE counter'[p] >= LimitOf(p)
    OBVIOUS
  <2>2. p \in CounterKey
    BY DEF Sound
  <2>3. counter[p] >= LimitOf(p) /\ counter'[p] >= counter[p]
    BY <2>2 DEF Sound
  <2>4. counter[p] \in Nat /\ counter'[p] \in Nat /\ LimitOf(p) \in Nat
    BY <2>2, LimitIsNat
  <2>5. QED
    BY <2>3, <2>4
<1>2. since'[r] \in 0..today'
  BY BudgetAssumption DEF BudgetParameters, Sound
<1>3. QED
  BY <1>1, <1>2 DEF Sound, LimitOf

LEMMA IInvBySlotNext == Shape' /\ (\A q \in Query : Sound(q))' => IInv'
BY IInvBySlot, PTL

(* The calendar only moves forward.                                        *)
LEMMA TimeMovesOn ==
  ASSUME TypeOK, [Next]_vars
  PROVE  today \in 0..LastDay /\ today' \in 0..LastDay /\ today <= today'
<1>1. today \in 0..LastDay /\ LastDay \in Nat
  BY BudgetAssumption DEF BudgetParameters, TypeOK
<1>2. today' = today \/ (today < LastDay /\ today' = today + 1)
  BY DEF Next, vars, Arrive, CheckDaily, CheckMonthly, ReadCounter, ReadFails,
         PayDaily, PayDailyFails, PayMonthly, PayMonthlyFails, Leave, NewDay
<1>3. QED
  BY <1>1, <1>2

LEMMA NextIInv ==
  ASSUME IInv, [Next]_vars
  PROVE  IInv'
<1>1. TypeOK /\ Shape /\ \A q \in Query : Sound(q)
  BY IInvBySlot DEF IInv
<1>2. \A p \in CounterKey : counter'[p] >= counter[p]
  BY <1>1, StepGrows DEF Grows
<1>3. /\ counter \in [CounterKey -> Nat] /\ counter' \in [CounterKey -> Nat]
      /\ today \in 0..LastDay /\ today' \in 0..LastDay /\ today <= today'
  BY <1>1, StepGrows, TimeMovesOn DEF TypeOK, Grows
<1>4. SUFFICES Shape' /\ \A q \in Query : Sound(q)'
  BY IInvBySlotNext
<1>5. CASE UNCHANGED vars
  <2>1. Shape'
    BY <1>1, <1>5 DEF Shape, vars
  <2>2. \A q \in Query : Sound(q)'
    BY <1>1, <1>5, <1>2, <1>3, Undisturbed DEF vars
  <2>3. QED
    BY <2>1, <2>2
<1>6. CASE NewDay
  <2>1. Shape'
    BY <1>1, <1>6, BudgetAssumption DEF BudgetParameters, Shape, NewDay
  <2>2. \A q \in Query : Sound(q)'
    BY <1>1, <1>6, <1>2, <1>3, Undisturbed DEF NewDay
  <2>3. QED
    BY <2>1, <2>2
<1>7. ASSUME NEW q \in Query,
             \/ Arrive(q) \/ CheckDaily(q) \/ CheckMonthly(q) \/ ReadFails(q)
             \/ PayMonthly(q) \/ PayMonthlyFails(q) \/ Leave(q)
             \/ \E amount \in Cost : PayDaily(q, amount) \/ PayDailyFails(q, amount)
      PROVE  Shape' /\ \A r \in Query : Sound(r)'
  <2>1. SUFFICES Shape' /\ Sound(q)' /\ \A r \in Query \ {q} : Sound(r)'
    OBVIOUS
  <2>2. Sound(q)
    BY <1>1
  <2>3. ASSUME \A r \in Query \ {q} :
                 /\ step'[r] = step[r] /\ owed'[r] = owed[r]
                 /\ charges'[r] = charges[r] /\ basis'[r] = basis[r]
                 /\ since'[r] = since[r]
                 /\ exhausted'[r] = exhausted[r] /\ paid'[r] = paid[r]
        PROVE  \A r \in Query \ {q} : Sound(r)'
    BY <2>3, <1>1, <1>2, <1>3, Undisturbed
  <2>4. \A p \in exhausted[q] : p \in CounterKey /\ counter'[p] >= LimitOf(p)
    <3>1. SUFFICES ASSUME NEW p \in exhausted[q]
                   PROVE  p \in CounterKey /\ counter'[p] >= LimitOf(p)
      OBVIOUS
    <3>2. p \in CounterKey
      BY <2>2 DEF Sound
    <3>3. counter[p] >= LimitOf(p) /\ counter'[p] >= counter[p]
      BY <1>2, <2>2, <3>2 DEF Sound
    <3>4. counter[p] \in Nat /\ counter'[p] \in Nat /\ LimitOf(p) \in Nat
      BY <1>3, <3>2, LimitIsNat
    <3>5. QED
      BY <3>2, <3>3, <3>4
  <2>5. CASE Arrive(q)
    <3>1. Shape'
      BY <1>1, <2>5 DEF Shape, MoveTo, Now, Arrive
    <3>2. Sound(q)'
      <4>1. /\ step'[q] = "readDay" /\ basis'[q] = {} /\ charges'[q] = 0
            /\ exhausted'[q] = {p \in CounterKey : counter[p] >= LimitOf(p)}
            /\ paid'[q] = [type \in PeriodType |-> 0]
            /\ owed'[q] = 0 /\ counter' = counter /\ since'[q] = today /\ today' = today
        BY <1>1, <2>5, <2>2 DEF Shape, Sound, MoveTo, Now, Arrive
      <4>2. /\ paid'[q] \in [PeriodType -> Nat]
            /\ paid'[q]["DAY"] = 0 /\ paid'[q]["MONTH"] = 0
        BY <4>1 DEF PeriodType
      <4>3. 0 \in 0..Charges
        BY BudgetAssumption DEF BudgetParameters
      <4>4. \A p \in exhausted'[q] : p \in CounterKey /\ counter'[p] >= LimitOf(p)
        BY <4>1
      <4>5. since'[q] \in 0..today'
        BY <1>1, <4>1, BudgetAssumption DEF BudgetParameters, Shape
      <4>6. QED
        BY <4>1, <4>2, <4>3, <4>4, <4>5 DEF Sound, LimitOf
    <3>3. \A r \in Query \ {q} : Sound(r)'
      BY <1>1, <1>3, <2>5, <2>3 DEF Shape, MoveTo, Now, Arrive
    <3>4. QED
      BY <3>1, <3>2, <3>3
  <2>6. CASE ReadFails(q)
    <3>1. Shape'
      BY <1>1, <2>6 DEF Shape, MoveTo, ReadFails
    <3>2. Sound(q)'
      BY <1>1, <2>6, <2>2, <2>4 DEF Shape, Sound, LimitOf, MoveTo, ReadFails
    <3>3. \A r \in Query \ {q} : Sound(r)'
      BY <1>1, <1>3, <2>6, <2>3 DEF Shape, MoveTo, ReadFails
    <3>4. QED
      BY <3>1, <3>2, <3>3
  <2>7. CASE Leave(q)
    <3>1. Shape'
      BY <1>1, <2>7 DEF Shape, MoveTo, Leave
    <3>2. Sound(q)'
      BY <1>1, <2>7, <2>2, <2>4 DEF Shape, Sound, LimitOf, MoveTo, Leave
    <3>3. \A r \in Query \ {q} : Sound(r)'
      BY <1>1, <1>3, <2>7, <2>3 DEF Shape, MoveTo, Leave
    <3>4. QED
      BY <3>1, <3>2, <3>3
  <2>8. ASSUME NEW period \in CounterKey, ~IsExhausted(period)
        PROVE  period \notin exhausted[q]
    <3>1. counter[period] \in Nat /\ LimitOf(period) \in Nat
      BY <1>3, LimitIsNat
    <3>2. ~(counter[period] >= LimitOf(period))
      BY <2>8 DEF IsExhausted
    <3>3. QED
      BY <2>2, <3>1, <3>2 DEF Sound
  <2>9. ASSUME NEW period \in CounterKey, NEW next, ReadCounter(q, period, next),
               \/ step[q] = "readDay" /\ next = "readMonth"
               \/ step[q] = "readMonth" /\ next = "admitted"
        PROVE  Shape' /\ \A r \in Query : Sound(r)'
    <3>1. Shape'
      BY <1>1, <2>9 DEF Shape, MoveTo, Now, ReadCounter
    <3>2. Sound(q)'
      <4>1. period \in CounterKey /\ today \in 0..today
        BY <1>1, BudgetAssumption DEF BudgetParameters, Shape
      <4>2. CASE IsExhausted(period)
        BY <1>1, <2>9, <2>2, <2>4, <4>1, <4>2
           DEF Shape, Sound, LimitOf, MoveTo, Now, ReadCounter
      <4>3. CASE ~IsExhausted(period)
        <5>1. /\ step'[q] = next /\ basis'[q] = basis[q] \cup {period}
              /\ charges'[q] = charges[q] /\ exhausted'[q] = exhausted[q]
              /\ paid'[q] = paid[q] /\ owed'[q] = owed[q] /\ since'[q] \in 0..today'
          BY <1>1, <2>9, <4>1, <4>3 DEF Shape, MoveTo, Now, ReadCounter
        <5>2. basis[q] \cap exhausted[q] = {} /\ basis'[q] \in SUBSET CounterKey
          BY <2>2, <2>9, <4>1, <5>1 DEF Sound
        <5>3. basis'[q] \cap exhausted'[q] = {}
          BY <2>8, <4>3, <5>1, <5>2
        <5>4. \A p \in exhausted'[q] : counter'[p] >= LimitOf(p)
          BY <2>4, <5>1
        <5>5. /\ owed'[q] = 0
              /\ paid'[q]["DAY"] = paid'[q]["MONTH"]
              /\ paid'[q]["MONTH"] \in Nat
          BY <2>2, <2>9, <5>1 DEF Sound, PeriodType
        <5>6. next \in {"readMonth", "admitted"}
          BY <2>9
        <5>7. QED
          BY <2>2, <5>1, <5>2, <5>3, <5>4, <5>5, <5>6 DEF Sound, LimitOf
      <4>4. QED
        BY <4>2, <4>3
    <3>3. \A r \in Query \ {q} : Sound(r)'
      BY <1>1, <1>3, <2>9, <2>3 DEF Shape, MoveTo, Now, ReadCounter
    <3>4. QED
      BY <3>1, <3>2, <3>3
  <2>10. CASE CheckDaily(q)
    BY <1>1, <2>9, <2>10, DatesOfStatements DEF CheckDaily, PeriodType
  <2>11. CASE CheckMonthly(q)
    BY <1>1, <2>9, <2>11, DatesOfStatements DEF CheckMonthly, PeriodType
  <2>12. \A amount \in Cost : amount \in Nat
    BY BudgetAssumption DEF BudgetParameters
  <2>13. owed[q] \in Nat /\ "DAY" \in PeriodType /\ "MONTH" \in PeriodType
    BY <2>2 DEF Sound, PeriodType
  <2>14. ASSUME NEW type \in PeriodType, NEW amount \in Nat,
                NEW day \in since[q]..today, Upsert(q, type, day, amount)
         PROVE  /\ ledger' \in [Query -> [CounterKey -> Nat]]
                /\ paid' \in [Query -> [PeriodType -> Nat]]
                /\ paid'[q][type] = paid[q][type] + amount
                /\ \A other \in PeriodType \ {type} : paid'[q][other] = paid[q][other]
                /\ \A r \in Query \ {q} : paid'[r] = paid[r]
    BY <1>1, <2>14, UpsertAdds
  <2>15. ASSUME NEW amount \in Cost, PayDaily(q, amount)
         PROVE  Shape' /\ \A r \in Query : Sound(r)'
    <3>1. /\ ledger' \in [Query -> [CounterKey -> Nat]]
          /\ paid' \in [Query -> [PeriodType -> Nat]]
          /\ \A r \in Query \ {q} : paid'[r] = paid[r]
          /\ paid'[q]["DAY"] = paid[q]["DAY"] + amount
          /\ paid'[q]["MONTH"] = paid[q]["MONTH"]
      BY <2>15, <2>12, <2>13, <2>14 DEF PayDaily, PeriodType
    <3>2. Shape'
      BY <1>1, <1>3, <2>15, <3>1 DEF Shape, MoveTo, Now, PayDaily
    <3>3. Sound(q)'
      <4>1. paid[q]["DAY"] \in Nat /\ paid[q]["MONTH"] \in Nat /\ Charges \in Nat
        BY <2>2, BudgetAssumption DEF BudgetParameters, Sound, PeriodType
      <4>2. QED
        BY <1>1, <2>15, <2>2, <2>4, <2>12, <2>13, <3>1, <4>1
           DEF Shape, Sound, LimitOf, MoveTo, Now, PayDaily
    <3>4. \A r \in Query \ {q} : Sound(r)'
      BY <1>1, <1>3, <2>15, <2>3, <3>1 DEF Shape, MoveTo, Now, PayDaily
    <3>5. QED
      BY <3>2, <3>3, <3>4
  <2>16. ASSUME NEW amount \in Cost, PayDailyFails(q, amount)
         PROVE  Shape' /\ \A r \in Query : Sound(r)'
    <3>1. /\ ledger' \in [Query -> [CounterKey -> Nat]]
          /\ paid' \in [Query -> [PeriodType -> Nat]]
          /\ \A r \in Query \ {q} : paid'[r] = paid[r]
          /\ paid'[q]["DAY"] \in {paid[q]["DAY"], paid[q]["DAY"] + amount}
          /\ paid'[q]["MONTH"] = paid[q]["MONTH"]
      <4>1. CASE \E day \in since[q]..today : Upsert(q, "DAY", day, amount)
        BY <2>16, <2>12, <2>13, <2>14, <4>1 DEF PeriodType
      <4>2. CASE UNCHANGED <<counter, paid, ledger>>
        BY <1>1, <4>2 DEF TypeOK, PeriodType
      <4>3. QED
        BY <2>16, <4>1, <4>2 DEF PayDailyFails
    <3>2. Shape'
      BY <1>1, <1>3, <2>16, <3>1 DEF Shape, MoveTo, PayDailyFails
    <3>3. Sound(q)'
      <4>1. paid[q]["DAY"] \in Nat /\ paid[q]["MONTH"] \in Nat /\ Charges \in Nat
        BY <2>2, BudgetAssumption DEF BudgetParameters, Sound, PeriodType
      <4>2. QED
        BY <1>1, <2>16, <2>2, <2>4, <2>12, <2>13, <3>1, <4>1
           DEF Shape, Sound, LimitOf, MoveTo, PayDailyFails
    <3>4. \A r \in Query \ {q} : Sound(r)'
      BY <1>1, <1>3, <2>16, <2>3, <3>1 DEF Shape, MoveTo, PayDailyFails
    <3>5. QED
      BY <3>2, <3>3, <3>4
  <2>17. CASE PayMonthly(q)
    <3>1. /\ ledger' \in [Query -> [CounterKey -> Nat]]
          /\ paid' \in [Query -> [PeriodType -> Nat]]
          /\ \A r \in Query \ {q} : paid'[r] = paid[r]
          /\ paid'[q]["MONTH"] = paid[q]["MONTH"] + owed[q]
          /\ paid'[q]["DAY"] = paid[q]["DAY"]
      BY <2>17, <2>12, <2>13, <2>14 DEF PayMonthly, PeriodType
    <3>2. Shape'
      BY <1>1, <1>3, <2>17, <3>1 DEF Shape, MoveTo, Now, PayMonthly
    <3>3. Sound(q)'
      <4>1. paid[q]["DAY"] \in Nat /\ paid[q]["MONTH"] \in Nat /\ Charges \in Nat
        BY <2>2, BudgetAssumption DEF BudgetParameters, Sound, PeriodType
      <4>2. QED
        BY <1>1, <2>17, <2>2, <2>4, <2>12, <2>13, <3>1, <4>1
           DEF Shape, Sound, LimitOf, MoveTo, Now, PayMonthly
    <3>4. \A r \in Query \ {q} : Sound(r)'
      BY <1>1, <1>3, <2>17, <2>3, <3>1 DEF Shape, MoveTo, Now, PayMonthly
    <3>5. QED
      BY <3>2, <3>3, <3>4
  <2>18. CASE PayMonthlyFails(q)
    <3>1. /\ ledger' \in [Query -> [CounterKey -> Nat]]
          /\ paid' \in [Query -> [PeriodType -> Nat]]
          /\ \A r \in Query \ {q} : paid'[r] = paid[r]
          /\ paid'[q]["MONTH"] \in {paid[q]["MONTH"], paid[q]["MONTH"] + owed[q]}
          /\ paid'[q]["DAY"] = paid[q]["DAY"]
      <4>1. CASE \E day \in since[q]..today : Upsert(q, "MONTH", day, owed[q])
        BY <2>18, <2>12, <2>13, <2>14, <4>1 DEF PeriodType
      <4>2. CASE UNCHANGED <<counter, paid, ledger>>
        BY <1>1, <4>2 DEF TypeOK, PeriodType
      <4>3. QED
        BY <2>18, <4>1, <4>2 DEF PayMonthlyFails
    <3>2. Shape'
      BY <1>1, <1>3, <2>18, <3>1 DEF Shape, MoveTo, PayMonthlyFails
    <3>3. Sound(q)'
      <4>1. paid[q]["DAY"] \in Nat /\ paid[q]["MONTH"] \in Nat /\ Charges \in Nat
        BY <2>2, BudgetAssumption DEF BudgetParameters, Sound, PeriodType
      <4>2. QED
        BY <1>1, <2>18, <2>2, <2>4, <2>12, <2>13, <3>1, <4>1
           DEF Shape, Sound, LimitOf, MoveTo, PayMonthlyFails
    <3>4. \A r \in Query \ {q} : Sound(r)'
      BY <1>1, <1>3, <2>18, <2>3, <3>1 DEF Shape, MoveTo, PayMonthlyFails
    <3>5. QED
      BY <3>2, <3>3, <3>4
  <2>19. QED
    BY <1>7, <2>5, <2>6, <2>7, <2>10, <2>11, <2>15, <2>16, <2>17, <2>18
<1>8. CASE Next
  BY <1>6, <1>7, <1>8 DEF Next
<1>9. QED
  BY <1>5, <1>8

(* The type invariant.                                                     *)
THEOREM TypeCorrect == Spec => []TypeOK
<1>1. Spec => []IInv
  BY InitIInv, NextIInv, PTL DEF Spec
<1>2. IInv => TypeOK
  BY DEF IInv
<1>3. QED
  BY <1>1, <1>2, PTL

(* A request is never admitted on a period that was used up when it        *)
(* arrived: check_budget's full block, under any interleaving.             *)
THEOREM FullBlock == Spec => []NoAdmissionAfterExhaustion
<1>1. Spec => []IInv
  BY InitIInv, NextIInv, PTL DEF Spec
<1>2. IInv => NoAdmissionAfterExhaustion
  BY DEF IInv
<1>3. QED
  BY <1>1, <1>2, PTL

(* What a request paid to months never passes what it paid to days, and    *)
(* differs only by the charge under way unless a charge failed.            *)
THEOREM MonthNeverAhead == Spec => []MonthFollowsDay
<1>1. Spec => []IInv
  BY InitIInv, NextIInv, PTL DEF Spec
<1>2. IInv => MonthFollowsDay
  BY DEF IInv
<1>3. QED
  BY <1>1, <1>2, PTL

-----------------------------------------------------------------------------
(* What the counters hold.  The units of cost are told apart by the slot   *)
(* that paid them and counted in the order it did: an UPSERT adds as many  *)
(* new ones to a counter as it adds to its sum, whatever others added.     *)

AddsUp(p) == IsFiniteSet(Units(p)) /\ counter[p] = Began(p) + Cardinality(Units(p))

AllAddUp == \A p \in CounterKey : AddsUp(p)

(* An UPSERT works on the period of its date alone, in the counter and in  *)
(* the ledger.                                                             *)
LEMMA UpsertHits ==
  ASSUME TypeOK, NEW q \in Query, NEW type \in PeriodType, NEW amount \in Nat,
         NEW day \in since[q]..today, Upsert(q, type, day, amount)
  PROVE  LET period == PeriodOf(type, day) IN
           /\ period \in CounterKey
           /\ counter'[period] = counter[period] + amount
           /\ \A p \in CounterKey : p # period => counter'[p] = counter[p]
           /\ ledger'[q][period] = ledger[q][period] + amount
           /\ \A p \in CounterKey : p # period => ledger'[q][p] = ledger[q][p]
           /\ \A r \in Query \ {q} : ledger'[r] = ledger[r]
<1>. DEFINE period == PeriodOf(type, day)
<1>1. period \in CounterKey
  BY DatesOfStatements
<1>2. /\ counter' = [counter EXCEPT ![period] = @ + amount]
      /\ ledger' = [ledger EXCEPT ![q][period] = @ + amount]
  BY DEF Upsert, Pays
<1>3. counter \in [CounterKey -> Nat] /\ ledger \in [Query -> [CounterKey -> Nat]]
  BY DEF TypeOK
<1>. HIDE DEF period
<1>4. /\ counter'[period] = counter[period] + amount
      /\ \A p \in CounterKey : p # period => counter'[p] = counter[p]
  BY <1>1, <1>2, <1>3
<1>5. /\ ledger'[q][period] = ledger[q][period] + amount
      /\ \A p \in CounterKey : p # period => ledger'[q][p] = ledger[q][p]
      /\ \A r \in Query \ {q} : ledger'[r] = ledger[r]
  BY <1>1, <1>2, <1>3
<1>6. QED
  BY <1>1, <1>4, <1>5 DEF period

(* The units an UPSERT adds, of a slot that had paid old of them.          *)
Added(q, old, amount) == {q} \X ((old + 1)..(old + amount))

LEMMA AddedUnits ==
  ASSUME NEW q \in Query, NEW old \in Nat, NEW amount \in Nat
  PROVE  IsFiniteSet(Added(q, old, amount)) /\ Cardinality(Added(q, old, amount)) = amount
<1>. DEFINE numbers == (old + 1)..(old + amount)
<1>1. IsFiniteSet(numbers) /\ Cardinality(numbers) = amount
  <2>1. old + 1 \in Int /\ old + amount \in Int
    OBVIOUS
  <2>2. /\ IsFiniteSet(numbers)
        /\ Cardinality(numbers) =
             IF old + 1 > old + amount THEN 0 ELSE (old + amount) - (old + 1) + 1
    BY <2>1, FS_Interval
  <2>3. QED
    BY <2>2
<1>2. IsFiniteSet({q}) /\ Cardinality({q}) = 1
  BY FS_Singleton
<1>. HIDE DEF numbers
<1>3. IsFiniteSet({q} \X numbers) /\ Cardinality({q} \X numbers) = 1 * amount
  BY <1>1, <1>2, FS_Product
<1>4. 1 * amount = amount
  OBVIOUS
<1>5. QED
  BY <1>3, <1>4 DEF numbers, Added

LEMMA UpsertAddsUp ==
  ASSUME TypeOK, AllAddUp, NEW q \in Query, NEW type \in PeriodType, NEW amount \in Nat,
         NEW day \in since[q]..today, Upsert(q, type, day, amount), began' = began
  PROVE  AllAddUp'
<1>. SUFFICES ASSUME NEW p \in CounterKey PROVE AddsUp(p)'
  BY DEF AllAddUp
<1>. DEFINE period == PeriodOf(type, day)
<1>1. /\ period \in CounterKey
      /\ counter'[period] = counter[period] + amount
      /\ \A k \in CounterKey : k # period => counter'[k] = counter[k]
      /\ ledger'[q][period] = ledger[q][period] + amount
      /\ \A k \in CounterKey : k # period => ledger'[q][k] = ledger[q][k]
      /\ \A r \in Query \ {q} : ledger'[r] = ledger[r]
  BY UpsertHits
<1>. HIDE DEF period
<1>2. AddsUp(p) /\ Began(p)' = Began(p)
  BY DEF AllAddUp, Began
<1>3. CASE p # period
  <2>1. counter'[p] = counter[p] /\ \A r \in Query : ledger'[r][p] = ledger[r][p]
    BY <1>1, <1>3
  <2>2. Units(p)' = Units(p)
    BY <2>1 DEF Units
  <2>3. QED
    BY <1>2, <2>1, <2>2 DEF AddsUp
<1>4. CASE p = period
  <2>. DEFINE old == ledger[q][p]
              added == Added(q, old, amount)
  <2>1. old \in Nat /\ counter[p] \in Nat
    BY DEF TypeOK
  <2>2. ledger'[q][p] = old + amount /\ \A r \in Query \ {q} : ledger'[r] = ledger[r]
    BY <1>1, <1>4
  <2>3. 1..(old + amount) = (1..old) \cup ((old + 1)..(old + amount))
        /\ (1..old) \cap ((old + 1)..(old + amount)) = {}
    BY <2>1
  <2>4. Units(p)' = Units(p) \cup added
    <3>1. \A r \in Query : 1..ledger'[r][p] =
            IF r = q THEN (1..old) \cup ((old + 1)..(old + amount)) ELSE 1..ledger[r][p]
      BY <2>2, <2>3
    <3>2. Units(p)' = UNION {{r} \X (1..ledger'[r][p]) : r \in Query}
      BY DEF Units
    <3>3. Units(p) = UNION {{r} \X (1..ledger[r][p]) : r \in Query}
      BY DEF Units
    <3>. HIDE DEF old
    <3>4. 1..ledger[q][p] = 1..old
      BY DEF old
    <3>. DEFINE new == (old + 1)..(old + amount)
    <3>. HIDE DEF new
    <3>5. \A r \in Query : 1..ledger'[r][p] = IF r = q THEN (1..old) \cup new ELSE 1..ledger[r][p]
      BY <3>1 DEF new
    <3>6. ASSUME NEW u PROVE u \in Units(p)' <=> u \in Units(p) \cup ({q} \X new)
      <4>1. u \in Units(p)' <=> \E r \in Query : u \in {r} \X (1..ledger'[r][p])
        BY <3>2
      <4>2. u \in Units(p) <=> \E r \in Query : u \in {r} \X (1..ledger[r][p])
        BY <3>3
      <4>3. ASSUME NEW r \in Query
            PROVE  u \in {r} \X (1..ledger'[r][p]) <=>
                     u \in {r} \X (1..ledger[r][p]) \/ (r = q /\ u \in {q} \X new)
        <5>1. CASE r = q
          <6>1. 1..ledger'[r][p] = (1..ledger[r][p]) \cup new
            BY <3>4, <3>5, <5>1
          <6>2. \A a, b : {q} \X (a \cup b) = ({q} \X a) \cup ({q} \X b)
            OBVIOUS
          <6>3. {q} \X (1..ledger'[r][p]) = ({q} \X (1..ledger[r][p])) \cup ({q} \X new)
            BY <6>1, <6>2
          <6>4. QED
            BY <5>1, <6>3
        <5>2. CASE r # q
          BY <3>5, <5>2
        <5>3. QED
          BY <5>1, <5>2
      <4>4. QED
        BY <4>1, <4>2, <4>3
    <3>7. QED
      BY <3>6 DEF new, Added
  <2>5. Units(p) \cap added = {}
    <3>1. ASSUME NEW u \in Units(p), u \in added PROVE FALSE
      <4>1. PICK r \in Query : u \in {r} \X (1..ledger[r][p])
        BY DEF Units
      <4>2. u[1] = q /\ u[2] \in (old + 1)..(old + amount)
        BY <3>1 DEF Added
      <4>3. u[1] = r /\ u[2] \in 1..ledger[r][p]
        BY <4>1
      <4>4. u[2] \in 1..old
        BY <4>2, <4>3
      <4>5. QED
        BY <2>3, <4>2, <4>4
    <3>2. QED
      BY <3>1
  <2>6. IsFiniteSet(added) /\ Cardinality(added) = amount
    <3>1. PICK n \in Nat : n = ledger[q][p]
      BY <2>1
    <3>2. IsFiniteSet(Added(q, n, amount)) /\ Cardinality(Added(q, n, amount)) = amount
      BY AddedUnits
    <3>3. QED
      BY <3>1, <3>2
  <2>. HIDE DEF added
  <2>7. IsFiniteSet(Units(p)) /\ Cardinality(Units(p)) \in Nat
    BY <1>2, FS_CardinalityType DEF AddsUp
  <2>8. /\ IsFiniteSet(Units(p) \cup added)
        /\ Cardinality(Units(p) \cup added) =
             Cardinality(Units(p)) + Cardinality(added) - Cardinality(Units(p) \cap added)
    BY <2>6, <2>7, FS_Union
  <2>9. Cardinality(Units(p) \cap added) = 0
    BY <2>5, FS_EmptySet
  <2>10. Cardinality(Units(p)') = Cardinality(Units(p)) + amount /\ IsFiniteSet(Units(p)')
    BY <2>4, <2>6, <2>7, <2>8, <2>9
  <2>11. Began(p) \in Nat /\ counter[p] = Began(p) + Cardinality(Units(p))
    <3>1. p[1] \in PeriodType
      BY DEF CounterKey
    <3>2. QED
      BY <1>2, <3>1 DEF AddsUp, Began, TypeOK
  <2>12. counter'[p] = counter[p] + amount
    BY <1>1, <1>4
  <2>13. counter'[p] = Began(p) + Cardinality(Units(p)')
    BY <2>7, <2>10, <2>11, <2>12
  <2>14. QED
    BY <1>2, <2>10, <2>13 DEF AddsUp
<1>5. QED
  BY <1>3, <1>4

LEMMA AddsUpKept ==
  ASSUME TypeOK, AllAddUp, [Next]_vars
  PROVE  AllAddUp'
<1>1. began' = began
  BY DEF Next, vars, Arrive, CheckDaily, CheckMonthly, ReadCounter, ReadFails,
         PayDaily, PayDailyFails, PayMonthly, PayMonthlyFails, Leave, NewDay
<1>2. \/ UNCHANGED <<counter, ledger>>
      \/ \E q \in Query, type \in PeriodType, amount \in Nat :
           \E day \in since[q]..today : Upsert(q, type, day, amount)
  <2>1. \A amount \in Cost : amount \in Nat
    BY BudgetAssumption DEF BudgetParameters
  <2>2. \A q \in Query : owed[q] \in Nat
    BY DEF TypeOK
  <2>3. "DAY" \in PeriodType /\ "MONTH" \in PeriodType
    BY DEF PeriodType
  <2>4. CASE UNCHANGED vars \/ NewDay
    BY <2>4 DEF vars, NewDay
  <2>5. ASSUME NEW q \in Query,
               \/ Arrive(q) \/ CheckDaily(q) \/ CheckMonthly(q) \/ ReadFails(q)
               \/ Leave(q)
        PROVE  UNCHANGED <<counter, ledger>>
    BY <2>5 DEF Arrive, CheckDaily, CheckMonthly, ReadCounter, ReadFails, Leave
  <2>6. ASSUME NEW q \in Query, NEW amount \in Cost,
               PayDaily(q, amount) \/ PayDailyFails(q, amount)
        PROVE  \/ UNCHANGED <<counter, ledger>>
               \/ \E day \in since[q]..today : Upsert(q, "DAY", day, amount)
    BY <2>6 DEF PayDaily, PayDailyFails
  <2>7. ASSUME NEW q \in Query, PayMonthly(q) \/ PayMonthlyFails(q)
        PROVE  \/ UNCHANGED <<counter, ledger>>
               \/ \E day \in since[q]..today : Upsert(q, "MONTH", day, owed[q])
    BY <2>7 DEF PayMonthly, PayMonthlyFails
  <2>8. QED
    BY <2>1, <2>2, <2>3, <2>4, <2>5, <2>6, <2>7 DEF Next
<1>3. CASE UNCHANGED <<counter, ledger>>
  BY <1>1, <1>3 DEF AllAddUp, AddsUp, Units, Began
<1>4. QED
  BY <1>1, <1>2, <1>3, UpsertAddsUp

(* However the UPSERTs of any number of requests interleave, none is lost: *)
(* a counter is what it began with and everything that was paid to it.     *)
THEOREM NoLostCharge == Spec => []CountersAddUp
<1>1. Init => AllAddUp
  <2>. SUFFICES ASSUME Init, NEW p \in CounterKey PROVE AddsUp(p)
    BY DEF AllAddUp
  <2>1. Units(p) = {}
    BY DEF Init, Units
  <2>2. IsFiniteSet({}) /\ Cardinality({}) = 0
    BY FS_EmptySet
  <2>3. counter[p] = Began(p) /\ Began(p) \in Nat
    BY BudgetAssumption DEF BudgetParameters, Init, Began, CounterKey
  <2>4. QED
    BY <2>1, <2>2, <2>3 DEF AddsUp
<1>2. TypeOK /\ AllAddUp /\ [Next]_vars => AllAddUp'
  BY AddsUpKept
<1>3. AllAddUp => CountersAddUp
  BY DEF AllAddUp, AddsUp, CountersAddUp
<1>4. QED
  BY <1>1, <1>2, <1>3, TypeCorrect, PTL DEF Spec
-----------------------------------------------------------------------------
(* The overshoot.  A period passes its limit by the charges of requests    *)
(* that did not find it used up: each may still charge it Left times.      *)

(* Nothing is spent before its time.                                       *)
FutureIsUnspent ==
  \A p \in CounterKey : counter[p] > 0 => p[2] <= PeriodKey(p[1], today)

(* Nor was it when the request arrived that found it used up.              *)
NotAhead ==
  \A q \in Query : \A p \in exhausted[q] : LimitOf(p) > 0 => p[2] <= PeriodKey(p[1], since[q])

(* What a request found used up when it arrived is behind once it has read *)
(* the counter of its time and was let pass.                               *)
UsedUpIsBehind ==
  \A q \in Query : \A p \in exhausted[q] :
    LimitOf(p) > 0 /\ \/ p[1] = "DAY" /\ step[q] \in {"readMonth", "admitted", "payMonth"}
                      \/ p[1] = "MONTH" /\ step[q] \in {"admitted", "payMonth"}
      => p[2] < PeriodKey(p[1], since[q])

(* A charge under way has a cost and counts as one.                        *)
ChargeUnderWay ==
  \A q \in Query : step[q] = "payMonth" => owed[q] \in Cost /\ charges[q] > 0

(* How often a request may still charge a period.                          *)
Left(q, p) ==
  IF p \in exhausted[q] \/ step[q] \in {"idle", "blocked", "failed"} THEN 0
  ELSE Charges - charges[q] + (IF step[q] = "payMonth" /\ p[1] = "MONTH" THEN 1 ELSE 0)

Slot == Query \X (1..Charges)

Open(p) == {t \in Slot : t[2] <= Left(t[1], p)}

(* What is spent, and what the charges that are open may cost at most.     *)
SpentAndOpen ==
  \A p \in CounterKey : \A c \in Cost :
    (LimitOf(p) > 0 /\ \A d \in Cost : d <= c) =>
      counter[p] + Cardinality(Open(p)) * c < LimitOf(p) + Cardinality(Query) * Charges * c

OInv == IInv /\ FutureIsUnspent /\ NotAhead /\ UsedUpIsBehind /\ ChargeUnderWay

(* A later date is in no earlier period.                                   *)
LEMMA KeysGrow ==
  ASSUME NEW type, NEW a \in Nat, NEW b \in Nat, a <= b
  PROVE  PeriodKey(type, a) \in Int /\ PeriodKey(type, b) \in Int
         /\ PeriodKey(type, a) <= PeriodKey(type, b)
<1>1. DaysPerMonth \in Nat \ {0}
  BY BudgetAssumption DEF BudgetParameters
<1>2. \A m \in Nat \ {0} : a \div m \in Int /\ b \div m \in Int /\ a \div m <= b \div m
  OBVIOUS
<1>3. QED
  BY <1>1, <1>2 DEF PeriodKey

(* The date of a request's last statement only moves forward.              *)
LEMMA SinceMovesOn ==
  ASSUME TypeOK, [Next]_vars, NEW q \in Query
  PROVE  since[q] \in Nat /\ since'[q] \in Nat /\ since[q] <= since'[q]
<1>1. since \in [Query -> 0..today] /\ today \in Nat
  BY BudgetAssumption DEF BudgetParameters, TypeOK
<1>2. \/ since' = since
      \/ \E r \in Query : since' = [since EXCEPT ![r] = today]
  BY DEF Next, vars, Now, Arrive, CheckDaily, CheckMonthly, ReadCounter, ReadFails,
         PayDaily, PayDailyFails, PayMonthly, PayMonthlyFails, Leave, NewDay
<1>3. QED
  BY <1>1, <1>2

(* What a step of a request changes of the counters.                       *)
LEMMA StepCharges ==
  ASSUME TypeOK, ChargeUnderWay, [Next]_vars, NEW p \in CounterKey, counter'[p] # counter[p]
  PROVE  \E type \in PeriodType, day \in 0..today : p = PeriodOf(type, day)
<1>. SUFFICES ASSUME \A type \in PeriodType, day \in 0..today : p # PeriodOf(type, day)
              PROVE  FALSE
  OBVIOUS
<1>1. ASSUME NEW q \in Query, NEW type \in PeriodType, NEW amount \in Nat,
             NEW day \in since[q]..today
      PROVE  ~Upsert(q, type, day, amount)
  <2>1. day \in 0..today
    BY DatesOfStatements
  <2>2. QED
    BY <2>1, UpsertHits
<1>2. \A amount \in Cost : amount \in Nat
  BY BudgetAssumption DEF BudgetParameters
<1>3. \A q \in Query : owed[q] \in Nat
  BY DEF TypeOK
<1>4. "DAY" \in PeriodType /\ "MONTH" \in PeriodType
  BY DEF PeriodType
<1>5. counter' # counter
  OBVIOUS
<1>6. PICK q \in Query :
        \/ \E amount \in Cost : PayDaily(q, amount) \/ PayDailyFails(q, amount)
        \/ PayMonthly(q) \/ PayMonthlyFails(q)
  BY <1>5 DEF Next, vars, Arrive, CheckDaily, CheckMonthly, ReadCounter, ReadFails, Leave, NewDay
<1>7. QED
  BY <1>1, <1>2, <1>3, <1>4, <1>5, <1>6 DEF PayDaily, PayDailyFails, PayMonthly, PayMonthlyFails

LEMMA FutureStaysUnspent ==
  ASSUME TypeOK, FutureIsUnspent, ChargeUnderWay, [Next]_vars
  PROVE  FutureIsUnspent'
<1>. SUFFICES ASSUME NEW p \in CounterKey, counter'[p] > 0
              PROVE  p[2] <= PeriodKey(p[1], today')
  BY DEF FutureIsUnspent, PeriodKey
<1>1. p[1] \in PeriodType /\ p[2] \in Int
  BY BudgetAssumption DEF BudgetParameters, CounterKey
<1>2. today \in Nat /\ today' \in Nat /\ today <= today'
  BY TimeMovesOn, BudgetAssumption DEF BudgetParameters
<1>3. p[2] <= PeriodKey(p[1], today)
  <2>1. CASE counter'[p] = counter[p]
    BY <2>1 DEF FutureIsUnspent
  <2>2. CASE counter'[p] # counter[p]
    <3>1. PICK type \in PeriodType, day \in 0..today : p = PeriodOf(type, day)
      BY <2>2, StepCharges
    <3>2. p[1] = type /\ p[2] = PeriodKey(type, day)
      BY <3>1 DEF PeriodOf
    <3>3. PeriodKey(type, day) <= PeriodKey(type, today)
      BY <1>2, KeysGrow
    <3>4. QED
      BY <3>2, <3>3
  <2>3. QED
    BY <2>1, <2>2
<1>4. PeriodKey(p[1], today) \in Int /\ PeriodKey(p[1], today') \in Int
      /\ PeriodKey(p[1], today) <= PeriodKey(p[1], today')
  BY <1>2, KeysGrow
<1>5. QED
  BY <1>1, <1>3, <1>4

(* One request at a time.                                                  *)
Acts(q) ==
  \/ Arrive(q) \/ CheckDaily(q) \/ CheckMonthly(q) \/ ReadFails(q)
  \/ (\E amount \in Cost : PayDaily(q, amount) \/ PayDailyFails(q, amount))
  \/ PayMonthly(q) \/ PayMonthlyFails(q) \/ Leave(q)

Stays(r) ==
  /\ step'[r] = step[r] /\ exhausted'[r] = exhausted[r] /\ charges'[r] = charges[r]
  /\ owed'[r] = owed[r]

LEMMA OneActs ==
  ASSUME TypeOK, [Next]_vars
  PROVE  \/ counter' = counter /\ \A r \in Query : Stays(r)
         \/ \E q \in Query : Acts(q) /\ \A r \in Query \ {q} : Stays(r)
<1>1. CASE NewDay \/ UNCHANGED vars
  BY <1>1 DEF NewDay, vars, Stays
<1>2. ASSUME NEW q \in Query, Acts(q) PROVE \A r \in Query \ {q} : Stays(r)
  BY <1>2 DEF TypeOK, Acts, Stays, Arrive, CheckDaily, CheckMonthly, ReadCounter, ReadFails,
              PayDaily, PayDailyFails, PayMonthly, PayMonthlyFails, Leave, MoveTo
<1>3. Next => NewDay \/ \E q \in Query : Acts(q)
  BY DEF Next, Acts
<1>4. QED
  BY <1>1, <1>2, <1>3

(* What a request finds used up, and only on arrival.                      *)
LEMMA FoundOnArrival ==
  ASSUME TypeOK, [Next]_vars, NEW q \in Query
  PROVE  \/ exhausted'[q] = exhausted[q]
         \/ /\ step'[q] = "readDay" /\ since'[q] = today
            /\ exhausted'[q] = {p \in CounterKey : counter[p] >= LimitOf(p)}
<1>1. ASSUME Stays(q) PROVE exhausted'[q] = exhausted[q]
  BY <1>1 DEF Stays
<1>2. CASE Arrive(q)
  BY <1>2 DEF TypeOK, Arrive, MoveTo, Now
<1>3. ASSUME Acts(q), ~Arrive(q) PROVE exhausted'[q] = exhausted[q]
  BY <1>3 DEF TypeOK, Acts, MoveTo, CheckDaily, CheckMonthly, ReadCounter, ReadFails,
         PayDaily, PayDailyFails, PayMonthly, PayMonthlyFails, Leave
<1>4. QED
  BY <1>1, <1>2, <1>3, OneActs

LEMMA NeverAhead ==
  ASSUME IInv, FutureIsUnspent, NotAhead, [Next]_vars
  PROVE  NotAhead'
<1>. SUFFICES ASSUME NEW q \in Query, NEW p \in exhausted'[q], LimitOf(p) > 0
              PROVE  p[2] <= PeriodKey(p[1], since'[q])
  BY DEF NotAhead, LimitOf, PeriodKey
<1>1. TypeOK
  BY DEF IInv
<1>2. CASE exhausted'[q] = exhausted[q]
  <2>1. p \in CounterKey /\ p[2] <= PeriodKey(p[1], since[q])
    BY <1>1, <1>2 DEF TypeOK, NotAhead
  <2>2. p[2] \in Int
    BY <2>1, BudgetAssumption DEF BudgetParameters, CounterKey
  <2>3. since[q] \in Nat /\ since'[q] \in Nat /\ since[q] <= since'[q]
    BY <1>1, SinceMovesOn
  <2>4. QED
    BY <2>1, <2>2, <2>3, KeysGrow
<1>3. CASE /\ since'[q] = today
           /\ exhausted'[q] = {d \in CounterKey : counter[d] >= LimitOf(d)}
  <2>1. p \in CounterKey /\ counter[p] >= LimitOf(p)
    BY <1>3
  <2>2. counter[p] \in Nat /\ LimitOf(p) \in Nat
    BY <1>1, <2>1, LimitIsNat DEF TypeOK
  <2>3. QED
    BY <1>3, <2>1, <2>2 DEF FutureIsUnspent
<1>4. QED
  BY <1>1, <1>2, <1>3, FoundOnArrival

(* A read that lets a request pass found its period with money left, and   *)
(* no period of that type that it knew to be used up is a later one.       *)
LEMMA PassedIsBehind ==
  ASSUME IInv, NotAhead, NEW q \in Query, NEW p \in exhausted[q], LimitOf(p) > 0,
         NEW day \in since[q]..today, ~IsExhausted(PeriodOf(p[1], day))
  PROVE  p[2] < PeriodKey(p[1], today)
<1>1. p \in CounterKey /\ counter[p] >= LimitOf(p)
  BY DEF IInv, TypeOK, ExhaustedStaysFull
<1>2. p[1] \in PeriodType /\ p = <<p[1], p[2]>> /\ p[2] \in Int
  BY <1>1, BudgetAssumption DEF BudgetParameters, CounterKey
<1>3. p # PeriodOf(p[1], day)
  BY <1>1 DEF IsExhausted
<1>4. p[2] # PeriodKey(p[1], day)
  BY <1>2, <1>3 DEF PeriodOf
<1>5. p[2] <= PeriodKey(p[1], since[q])
  BY DEF NotAhead
<1>6. /\ since[q] \in Nat /\ day \in Nat /\ today \in Nat
      /\ since[q] <= day /\ day <= today
  BY DatesOfStatements DEF IInv
<1>7. /\ PeriodKey(p[1], since[q]) \in Int /\ PeriodKey(p[1], day) \in Int
      /\ PeriodKey(p[1], today) \in Int
      /\ PeriodKey(p[1], since[q]) <= PeriodKey(p[1], day)
      /\ PeriodKey(p[1], day) <= PeriodKey(p[1], today)
  BY <1>6, KeysGrow
<1>8. QED
  BY <1>2, <1>4, <1>5, <1>7

LEMMA UsedUpStaysBehind ==
  ASSUME IInv, NotAhead, UsedUpIsBehind, [Next]_vars
  PROVE  UsedUpIsBehind'
<1>. DEFINE Due(q, p) == \/ p[1] = "DAY" /\ step[q] \in {"readMonth", "admitted", "payMonth"}
                         \/ p[1] = "MONTH" /\ step[q] \in {"admitted", "payMonth"}
<1>. SUFFICES ASSUME NEW q \in Query, NEW p \in exhausted'[q], LimitOf(p) > 0, Due(q, p)'
              PROVE  p[2] < PeriodKey(p[1], since'[q])
  BY DEF UsedUpIsBehind, LimitOf, PeriodKey
<1>1. TypeOK
  BY DEF IInv
<1>2. p \in exhausted[q]
  BY <1>1, FoundOnArrival
<1>3. p[1] \in PeriodType /\ p[2] \in Int
  BY <1>1, <1>2, BudgetAssumption DEF BudgetParameters, TypeOK, CounterKey
<1>4. \/ Due(q, p)
      \/ /\ since'[q] = today
         /\ \E day \in since[q]..today : ~IsExhausted(PeriodOf(p[1], day))
  <2>1. ASSUME Stays(q) PROVE Due(q, p)
    BY <2>1 DEF Stays
  <2>2. CASE CheckDaily(q)
    BY <1>1, <2>2 DEF TypeOK, CheckDaily, ReadCounter, MoveTo, Now
  <2>3. CASE CheckMonthly(q)
    BY <1>1, <2>3 DEF TypeOK, CheckMonthly, ReadCounter, MoveTo, Now
  <2>4. ASSUME Acts(q), ~CheckDaily(q), ~CheckMonthly(q) PROVE Due(q, p)
    BY <1>1, <2>4 DEF TypeOK, Acts, MoveTo, Arrive, ReadFails,
         PayDaily, PayDailyFails, PayMonthly, PayMonthlyFails, Leave
  <2>5. QED
    BY <1>1, <2>1, <2>2, <2>3, <2>4, OneActs
<1>5. CASE Due(q, p)
  <2>1. p[2] < PeriodKey(p[1], since[q])
    BY <1>2, <1>5 DEF UsedUpIsBehind
  <2>2. since[q] \in Nat /\ since'[q] \in Nat /\ since[q] <= since'[q]
    BY <1>1, SinceMovesOn
  <2>3. QED
    BY <1>3, <2>1, <2>2, KeysGrow
<1>6. CASE since'[q] = today /\ \E day \in since[q]..today : ~IsExhausted(PeriodOf(p[1], day))
  BY <1>2, <1>6, PassedIsBehind
<1>7. QED
  BY <1>4, <1>5, <1>6

LEMMA ChargesStayUnderWay ==
  ASSUME TypeOK, ChargeUnderWay, [Next]_vars
  PROVE  ChargeUnderWay'
<1>. SUFFICES ASSUME NEW q \in Query, step'[q] = "payMonth"
              PROVE  owed'[q] \in Cost /\ charges'[q] > 0
  BY DEF ChargeUnderWay
<1>1. ASSUME Stays(q) PROVE owed'[q] \in Cost /\ charges'[q] > 0
  BY <1>1 DEF ChargeUnderWay, Stays
<1>2. ASSUME Acts(q) PROVE owed'[q] \in Cost /\ charges'[q] > 0
  <2>1. PICK amount \in Cost : PayDaily(q, amount)
    BY <1>2 DEF TypeOK, Acts, MoveTo, Arrive, CheckDaily, CheckMonthly, ReadCounter, ReadFails,
         PayDaily, PayDailyFails, PayMonthly, PayMonthlyFails, Leave
  <2>2. QED
    BY <2>1, BudgetAssumption DEF BudgetParameters, TypeOK, PayDaily
<1>3. QED
  BY <1>1, <1>2, OneActs

LEMMA OInvKept == ASSUME OInv, [Next]_vars PROVE OInv'
BY NextIInv, FutureStaysUnspent, NeverAhead, UsedUpStaysBehind, ChargesStayUnderWay DEF OInv, IInv

LEMMA OInvInit == Init => OInv
<1>. SUFFICES ASSUME Init PROVE OInv
  OBVIOUS
<1>1. IInv /\ NotAhead /\ UsedUpIsBehind /\ ChargeUnderWay
  BY InitIInv DEF Init, NotAhead, UsedUpIsBehind, ChargeUnderWay
<1>2. FutureIsUnspent
  <2>. SUFFICES ASSUME NEW p \in CounterKey, counter[p] > 0 PROVE p[2] <= PeriodKey(p[1], today)
    BY DEF FutureIsUnspent
  <2>1. p[2] = 0
    BY DEF Init, Began
  <2>2. DaysPerMonth \in Nat \ {0}
    BY BudgetAssumption DEF BudgetParameters
  <2>3. PeriodKey(p[1], today) = 0
    BY <2>2 DEF Init, PeriodKey
  <2>4. QED
    BY <2>1, <2>3
<1>3. QED
  BY <1>1, <1>2 DEF OInv

LEMMA LeftIsFew ==
  ASSUME TypeOK, ChargeUnderWay, NEW q \in Query, NEW p \in CounterKey
  PROVE  Left(q, p) \in 0..Charges
<1>1. Charges \in Nat /\ charges[q] \in 0..Charges
  BY BudgetAssumption DEF BudgetParameters, TypeOK
<1>2. step[q] = "payMonth" => charges[q] > 0
  BY DEF ChargeUnderWay
<1>3. QED
  BY <1>1, <1>2 DEF Left

LEMMA SlotsAreFew ==
  ASSUME IsFiniteSet(Query)
  PROVE  /\ IsFiniteSet(Slot) /\ Cardinality(Slot) = Cardinality(Query) * Charges
         /\ Cardinality(Slot) \in Nat
         /\ \A p : Open(p) \subseteq Slot /\ IsFiniteSet(Open(p)) /\ Cardinality(Open(p)) \in Nat
                   /\ Cardinality(Open(p)) <= Cardinality(Slot)
<1>1. Charges \in Nat
  BY BudgetAssumption DEF BudgetParameters
<1>2. IsFiniteSet(1..Charges) /\ Cardinality(1..Charges) = Charges
  BY <1>1, FS_Interval
<1>3. IsFiniteSet(Slot) /\ Cardinality(Slot) = Cardinality(Query) * Charges
  BY <1>2, FS_Product DEF Slot
<1>4. Cardinality(Slot) \in Nat
  BY <1>3, FS_CardinalityType
<1>5. ASSUME NEW p
      PROVE  /\ Open(p) \subseteq Slot /\ IsFiniteSet(Open(p)) /\ Cardinality(Open(p)) \in Nat
             /\ Cardinality(Open(p)) <= Cardinality(Slot)
  <2>1. Open(p) \in SUBSET Slot
    BY DEF Open
  <2>2. QED
    BY <1>3, <2>1, FS_Subset, FS_CardinalityType
<1>6. QED
  BY <1>3, <1>4, <1>5

(* A charge closes one of the open ones.                                   *)
LEMMA OpenShrinks ==
  ASSUME IsFiniteSet(Query), TypeOK, ChargeUnderWay, TypeOK', ChargeUnderWay', NEW p \in CounterKey,
         \A r \in Query : Left(r, p)' <= Left(r, p)
  PROVE  /\ Cardinality(Open(p)') <= Cardinality(Open(p))
         /\ \A q \in Query : Left(q, p)' < Left(q, p) =>
              Cardinality(Open(p)') + 1 <= Cardinality(Open(p))
<1>1. \A r \in Query : Left(r, p) \in 0..Charges /\ Left(r, p)' \in 0..Charges
  <2>. TAKE r \in Query
  <2>1. Left(r, p) \in 0..Charges
    BY LeftIsFew
  <2>2. Left(r, p)' \in 0..Charges
    <3>1. Charges \in Nat /\ charges'[r] \in 0..Charges
      BY BudgetAssumption DEF BudgetParameters, TypeOK
    <3>2. step'[r] = "payMonth" => charges'[r] > 0
      BY DEF ChargeUnderWay
    <3>3. QED
      BY <3>1, <3>2 DEF Left
  <2>3. QED
    BY <2>1, <2>2
<1>2. Charges \in Nat
  BY BudgetAssumption DEF BudgetParameters
<1>3. Open(p)' \in SUBSET Open(p)
  <2>. SUFFICES ASSUME NEW t \in Slot, t[2] <= Left(t[1], p)' PROVE t[2] <= Left(t[1], p)
    BY DEF Open
  <2>1. t[1] \in Query /\ t[2] \in Nat
    BY <1>2 DEF Slot
  <2>2. QED
    BY <1>1, <1>2, <2>1
<1>4. IsFiniteSet(Open(p)) /\ Cardinality(Open(p)) \in Nat
  BY SlotsAreFew
<1>5. ASSUME NEW q \in Query, Left(q, p)' < Left(q, p)
      PROVE  Cardinality(Open(p)') + 1 <= Cardinality(Open(p))
  <2>. DEFINE t == <<q, Left(q, p)>>
  <2>1. t \in Open(p)
    <3>1. Left(q, p) \in 1..Charges
      BY <1>1, <1>2, <1>5
    <3>2. QED
      BY <1>2, <3>1 DEF Open, Slot
  <2>2. t \notin Open(p)'
    <3>1. ~(Left(q, p) <= Left(q, p)')
      BY <1>1, <1>2, <1>5
    <3>2. QED
      BY <3>1 DEF Open
  <2>. HIDE DEF t
  <2>3. Open(p)' \in SUBSET (Open(p) \ {t})
    BY <1>3, <2>2
  <2>4. IsFiniteSet(Open(p) \ {t}) /\ Cardinality(Open(p) \ {t}) = Cardinality(Open(p)) - 1
    BY <1>4, <2>1, FS_RemoveElement
  <2>5. Cardinality(Open(p)') <= Cardinality(Open(p)) - 1 /\ IsFiniteSet(Open(p)')
    BY <2>3, <2>4, FS_Subset
  <2>6. Cardinality(Open(p)') \in Nat
    BY <2>5, FS_CardinalityType
  <2>7. QED
    BY <1>4, <2>5, <2>6
<1>6. QED
  BY <1>3, <1>4, <1>5, FS_Subset

(* What a step does to a period: it charges it, by a request that had a    *)
(* charge left, or leaves it, or a request arrives that finds money in it. *)
LEMMA StepOnPeriod ==
  ASSUME OInv, OInv', [Next]_vars, NEW p \in CounterKey, LimitOf(p) > 0
  PROVE  \/ /\ counter'[p] = counter[p]
            /\ \A r \in Query : Left(r, p)' <= Left(r, p)
         \/ /\ \A r \in Query : Left(r, p)' <= Left(r, p)
            /\ \E q \in Query, amount \in Cost :
                 counter'[p] = counter[p] + amount /\ Left(q, p)' < Left(q, p)
         \/ counter'[p] = counter[p] /\ counter[p] < LimitOf(p)
<1>1. TypeOK /\ TypeOK' /\ ChargeUnderWay /\ ChargeUnderWay' /\ UsedUpIsBehind /\ IInv
  BY DEF OInv, IInv
<1>2. \A r \in Query : Left(r, p) \in 0..Charges
  BY <1>1, LeftIsFew
<1>3. Charges \in Nat /\ Cost \subseteq Nat
  BY BudgetAssumption DEF BudgetParameters
<1>4. ASSUME NEW r \in Query, Stays(r) PROVE Left(r, p)' <= Left(r, p)
  <2>1. Left(r, p)' = Left(r, p)
    BY <1>4 DEF Stays, Left
  <2>2. QED
    BY <1>2, <1>3, <2>1
<1>5. CASE counter' = counter /\ \A r \in Query : Stays(r)
  BY <1>4, <1>5
<1>6. ASSUME NEW q \in Query, Acts(q), \A r \in Query \ {q} : Stays(r)
      PROVE  \/ /\ counter'[p] = counter[p]
                /\ \A r \in Query : Left(r, p)' <= Left(r, p)
             \/ /\ \A r \in Query : Left(r, p)' <= Left(r, p)
                /\ \E amount \in Cost :
                     counter'[p] = counter[p] + amount /\ Left(q, p)' < Left(q, p)
             \/ counter'[p] = counter[p] /\ counter[p] < LimitOf(p)
  <2>1. Left(q, p)' <= Left(q, p) => \A r \in Query : Left(r, p)' <= Left(r, p)
    BY <1>4, <1>6
  <2>2. Left(q, p) \in 0..Charges /\ charges[q] \in 0..Charges
    BY <1>1, <1>2 DEF TypeOK
  <2>3. ASSUME step'[q] \in {"idle", "blocked", "failed"} PROVE Left(q, p)' = 0
    BY <2>3 DEF Left
  <2>4. CASE Arrive(q)
    <3>1. /\ step'[q] = "readDay" /\ counter' = counter
          /\ exhausted'[q] = {d \in CounterKey : counter[d] >= LimitOf(d)}
      BY <1>1, <2>4 DEF TypeOK, Arrive, MoveTo
    <3>2. counter[p] \in Nat /\ LimitOf(p) \in Nat
      BY <1>1, LimitIsNat DEF TypeOK
    <3>3. CASE counter[p] >= LimitOf(p)
      <4>1. Left(q, p)' = 0
        BY <3>1, <3>3 DEF Left
      <4>2. QED
        BY <1>3, <2>1, <2>2, <3>1, <4>1
    <3>4. QED
      BY <3>1, <3>2, <3>3
  <2>5. ASSUME counter' = counter, exhausted' = exhausted, charges' = charges,
               step[q] # "payMonth", step'[q] # "payMonth",
               step'[q] \in {"idle", "blocked", "failed"}
                 \/ step[q] \notin {"idle", "blocked", "failed"}
        PROVE  /\ counter'[p] = counter[p]
               /\ \A r \in Query : Left(r, p)' <= Left(r, p)
    BY <1>3, <2>1, <2>2, <2>5 DEF Left
  <2>6. CASE CheckDaily(q) \/ CheckMonthly(q) \/ ReadFails(q) \/ Leave(q)
    <3>1. /\ counter' = counter /\ exhausted' = exhausted /\ charges' = charges
          /\ step[q] # "payMonth" /\ step'[q] # "payMonth"
          /\ step'[q] \in {"idle", "blocked", "failed"}
               \/ step[q] \notin {"idle", "blocked", "failed"}
      BY <1>1, <2>6 DEF TypeOK, CheckDaily, CheckMonthly, ReadCounter, ReadFails, Leave, MoveTo
    <3>2. QED
      BY <2>5, <3>1
  <2>7. ASSUME NEW type \in PeriodType, NEW amount \in Cost,
               \/ \E day \in since[q]..today : Upsert(q, type, day, amount)
               \/ UNCHANGED <<counter, paid, ledger>>
        PROVE  \/ counter'[p] = counter[p]
               \/ /\ \E day \in since[q]..today : p = PeriodOf(type, day)
                  /\ counter'[p] = counter[p] + amount
    BY <1>1, <1>3, <2>7, UpsertHits
  <2>8. ASSUME NEW type \in PeriodType, NEW day \in since[q]..today, p = PeriodOf(type, day),
               \/ type = "DAY" /\ step[q] = "admitted"
               \/ type = "MONTH" /\ step[q] = "payMonth"
        PROVE  p \notin exhausted[q] /\ p[1] = type
    <3>1. p[1] = type /\ p[2] = PeriodKey(type, day)
      BY <2>8 DEF PeriodOf
    <3>2. /\ PeriodKey(type, since[q]) \in Int /\ PeriodKey(type, day) \in Int
          /\ PeriodKey(type, since[q]) <= PeriodKey(type, day)
      BY <1>1, DatesOfStatements, KeysGrow
    <3>3. ASSUME p \in exhausted[q] PROVE FALSE
      <4>1. p[2] < PeriodKey(type, since[q])
        BY <1>1, <2>8, <3>1, <3>3 DEF UsedUpIsBehind
      <4>2. QED
        BY <3>1, <3>2, <4>1
    <3>4. QED
      BY <3>1, <3>3
  <2>9. "DAY" \in PeriodType /\ "MONTH" \in PeriodType
    BY DEF PeriodType
  <2>10. ASSUME NEW amount \in Cost, PayDaily(q, amount) \/ PayDailyFails(q, amount)
         PROVE  \/ /\ counter'[p] = counter[p]
                   /\ \A r \in Query : Left(r, p)' <= Left(r, p)
                \/ /\ \A r \in Query : Left(r, p)' <= Left(r, p)
                   /\ counter'[p] = counter[p] + amount /\ Left(q, p)' < Left(q, p)
    <3>1. /\ step[q] = "admitted" /\ charges[q] < Charges
          /\ charges'[q] = charges[q] + 1 /\ exhausted' = exhausted
          /\ step'[q] \in {"payMonth", "failed"}
          /\ \/ \E day \in since[q]..today : Upsert(q, "DAY", day, amount)
             \/ UNCHANGED <<counter, paid, ledger>>
      BY <1>1, <2>10 DEF TypeOK, PayDaily, PayDailyFails, MoveTo
    <3>2. Left(q, p)' <= Left(q, p)
      BY <1>3, <2>2, <3>1 DEF Left
    <3>3. ASSUME p \notin exhausted[q], p[1] = "DAY" PROVE Left(q, p)' < Left(q, p)
      BY <1>3, <2>2, <3>1, <3>3 DEF Left
    <3>4. \/ counter'[p] = counter[p]
          \/ /\ \E day \in since[q]..today : p = PeriodOf("DAY", day)
             /\ counter'[p] = counter[p] + amount
      BY <2>7, <2>9, <3>1
    <3>5. QED
      BY <2>1, <2>8, <2>9, <3>1, <3>2, <3>3, <3>4
  <2>11. ASSUME PayMonthly(q) \/ PayMonthlyFails(q)
         PROVE  \/ /\ counter'[p] = counter[p]
                   /\ \A r \in Query : Left(r, p)' <= Left(r, p)
                \/ /\ \A r \in Query : Left(r, p)' <= Left(r, p)
                   /\ \E amount \in Cost :
                        counter'[p] = counter[p] + amount /\ Left(q, p)' < Left(q, p)
    <3>1. /\ step[q] = "payMonth" /\ charges' = charges /\ exhausted' = exhausted
          /\ step'[q] \in {"admitted", "failed"}
          /\ \/ \E day \in since[q]..today : Upsert(q, "MONTH", day, owed[q])
             \/ UNCHANGED <<counter, paid, ledger>>
      BY <1>1, <2>11 DEF TypeOK, PayMonthly, PayMonthlyFails, MoveTo
    <3>2. owed[q] \in Cost
      BY <1>1, <3>1 DEF ChargeUnderWay
    <3>3. Left(q, p)' <= Left(q, p)
      BY <1>3, <2>2, <3>1 DEF Left
    <3>4. ASSUME p \notin exhausted[q], p[1] = "MONTH" PROVE Left(q, p)' < Left(q, p)
      BY <1>3, <2>2, <3>1, <3>4 DEF Left
    <3>5. \/ counter'[p] = counter[p]
          \/ /\ \E day \in since[q]..today : p = PeriodOf("MONTH", day)
             /\ counter'[p] = counter[p] + owed[q]
      BY <2>7, <2>9, <3>1, <3>2
    <3>6. QED
      BY <2>1, <2>8, <2>9, <3>1, <3>2, <3>3, <3>4, <3>5
  <2>12. QED
    BY <1>6, <2>4, <2>6, <2>10, <2>11 DEF Acts
<1>7. QED
  BY <1>1, <1>5, <1>6, OneActs

(* Multiplication, for the provers.                                        *)
LEMMA TimesGrows ==
  ASSUME NEW a \in Nat, NEW b \in Nat, NEW c \in Nat, a <= b
  PROVE  a * c \in Nat /\ b * c \in Nat /\ a * c <= b * c /\ (a + 1) * c = a * c + c
<1>1. PICK k \in Nat : b = a + k
  <2>1. b - a \in Nat /\ b = a + (b - a)
    OBVIOUS
  <2>2. QED
    BY <2>1
<1>2. (a + k) * c = a * c + k * c /\ k * c \in Nat /\ a * c \in Nat
  OBVIOUS
<1>3. (a + 1) * c = a * c + c
  OBVIOUS
<1>4. QED
  BY <1>1, <1>2, <1>3

LEMMA SpentAndOpenKept ==
  ASSUME IsFiniteSet(Query), OInv, OInv', [Next]_vars, SpentAndOpen
  PROVE  SpentAndOpen'
<1>. DEFINE N == Cardinality(Slot)
<1>1. SUFFICES ASSUME NEW p \in CounterKey, NEW c \in Cost, LimitOf(p) > 0, \A d \in Cost : d <= c
               PROVE  counter'[p] + Cardinality(Open(p)') * c < LimitOf(p) + N * c
  BY SlotsAreFew DEF SpentAndOpen, LimitOf
<1>2. /\ counter[p] \in Nat /\ counter'[p] \in Nat /\ LimitOf(p) \in Nat
      /\ c \in Nat /\ Cost \subseteq Nat /\ N \in Nat
  BY BudgetAssumption, LimitIsNat, SlotsAreFew DEF BudgetParameters, OInv, IInv, TypeOK
<1>. DEFINE n == Cardinality(Open(p))
            m == Cardinality(Open(p)')
<1>3. n \in Nat /\ n <= N /\ m \in Nat /\ m <= N
  <2>1. n \in Nat /\ n <= N
    BY SlotsAreFew
  <2>2. Open(p)' \in SUBSET Slot
    BY DEF Open, Slot
  <2>3. m \in Nat /\ m <= N
    BY <2>2, SlotsAreFew, FS_Subset, FS_CardinalityType
  <2>4. QED
    BY <2>1, <2>3
<1>4. counter[p] + n * c < LimitOf(p) + N * c
  BY <1>1, SlotsAreFew DEF SpentAndOpen
<1>5. (\A r \in Query : Left(r, p)' <= Left(r, p)) =>
        /\ m <= n
        /\ \A q \in Query : Left(q, p)' < Left(q, p) => m + 1 <= n
  BY OpenShrinks DEF OInv, IInv
<1>6. \/ counter'[p] = counter[p] /\ m <= n
      \/ m + 1 <= n /\ \E amount \in Cost : counter'[p] = counter[p] + amount
      \/ counter'[p] = counter[p] /\ counter[p] < LimitOf(p)
  BY <1>1, <1>5, StepOnPeriod
<1>. HIDE DEF N, n, m
<1>7. CASE counter'[p] = counter[p] /\ m <= n
  <2>1. m * c \in Nat /\ n * c \in Nat /\ N * c \in Nat /\ m * c <= n * c
    BY <1>2, <1>3, <1>7, TimesGrows
  <2>2. QED
    BY <1>2, <1>4, <1>7, <2>1 DEF m
<1>8. CASE m + 1 <= n /\ \E amount \in Cost : counter'[p] = counter[p] + amount
  <2>1. PICK amount \in Cost : counter'[p] = counter[p] + amount
    BY <1>8
  <2>2. amount \in Nat /\ amount <= c
    BY <1>1, <1>2
  <2>3. m * c \in Nat /\ n * c \in Nat /\ N * c \in Nat /\ m * c + c <= n * c
    <3>1. (m + 1) * c <= n * c /\ n * c \in Nat
      BY <1>2, <1>3, <1>8, TimesGrows
    <3>2. (m + 1) * c = m * c + c /\ m * c \in Nat /\ N * c \in Nat
      BY <1>2, <1>3, TimesGrows
    <3>3. QED
      BY <3>1, <3>2
  <2>4. QED
    BY <1>2, <1>4, <2>1, <2>2, <2>3 DEF m
<1>9. CASE counter'[p] = counter[p] /\ counter[p] < LimitOf(p)
  <2>1. m * c \in Nat /\ N * c \in Nat /\ m * c <= N * c
    BY <1>2, <1>3, TimesGrows
  <2>2. QED
    BY <1>2, <1>9, <2>1 DEF m
<1>10. QED
  BY <1>6, <1>7, <1>8, <1>9

(* However many requests run side by side, and wherever each is when its   *)
(* period is used up, no counter passes its limit by more than the charges *)
(* that the requests in progress can still make.                           *)
THEOREM OvershootIsBounded ==
  ASSUME IsFiniteSet(Query), SpentWithinBounds
  PROVE  Spec => []OvershootBounded
<1>1. Init => OInv /\ SpentAndOpen
  <2>. SUFFICES ASSUME Init PROVE SpentAndOpen
    BY OInvInit
  <2>. SUFFICES ASSUME NEW p \in CounterKey, NEW c \in Cost, LimitOf(p) > 0, \A d \in Cost : d <= c
                PROVE  counter[p] + Cardinality(Open(p)) * c
                         < LimitOf(p) + Cardinality(Query) * Charges * c
    BY DEF SpentAndOpen
  <2>1. Open(p) = {}
    <3>1. \A q \in Query : Left(q, p) = 0
      BY DEF Init, Left
    <3>2. QED
      BY <3>1, BudgetAssumption DEF BudgetParameters, Open, Slot
  <2>2. Cardinality(Open(p)) = 0
    BY <2>1, FS_EmptySet
  <2>3. counter[p] \in Spent \/ counter[p] = 0
    BY DEF Init, Began, CounterKey
  <2>4. c \in Nat /\ Spent \subseteq Nat /\ LimitOf(p) \in Nat /\ Cardinality(Slot) \in Nat
    BY BudgetAssumption, LimitIsNat, SlotsAreFew DEF BudgetParameters
  <2>. DEFINE bound == Cardinality(Query) * Charges * c
  <2>5. bound \in Nat
    <3>1. Cardinality(Slot) * c \in Nat
      BY <2>4, TimesGrows
    <3>2. QED
      BY <3>1, SlotsAreFew
  <2>6. counter[p] \in Spent => counter[p] < LimitOf(p) + bound
    BY DEF SpentWithinBounds
  <2>7. 0 * c = 0
    BY <2>4
  <2>. HIDE DEF bound
  <2>8. counter[p] + 0 < LimitOf(p) + bound
    <3>. DEFINE limit == LimitOf(p)
                spent == counter[p]
    <3>1. limit \in Nat /\ limit > 0 /\ spent \in Nat
      <4>1. limit \in Nat
        BY <2>4
      <4>2. limit > 0
        OBVIOUS
      <4>3. spent \in Nat
        BY OInvInit DEF OInv, IInv, TypeOK
      <4>4. QED
        BY <4>1, <4>2, <4>3
    <3>2. spent = 0 \/ spent < limit + bound
      BY <2>3, <2>6
    <3>. HIDE DEF limit, spent
    <3>3. spent + 0 < limit + bound
      BY <2>5, <3>1, <3>2
    <3>4. QED
      BY <3>3 DEF limit, spent
  <2>9. QED
    BY <2>2, <2>7, <2>8 DEF bound
<1>2. OInv /\ SpentAndOpen /\ [Next]_vars => OInv' /\ SpentAndOpen'
  BY OInvKept, SpentAndOpenKept
<1>3. OInv /\ SpentAndOpen => OvershootBounded
  <2>. SUFFICES ASSUME OInv, SpentAndOpen, NEW p \in CounterKey, NEW c \in Cost,
                       LimitOf(p) > 0, \A d \in Cost : d <= c
                PROVE  counter[p] < LimitOf(p) + Cardinality(Query) * Charges * c
    BY DEF OvershootBounded
  <2>1. c \in Nat /\ counter[p] \in Nat /\ LimitOf(p) \in Nat /\ Cardinality(Slot) \in Nat
        /\ Cardinality(Open(p)) \in Nat
    BY BudgetAssumption, LimitIsNat, SlotsAreFew DEF BudgetParameters, OInv, IInv, TypeOK
  <2>2. Cardinality(Open(p)) * c \in Nat /\ Cardinality(Slot) * c \in Nat
    BY <2>1, TimesGrows
  <2>3. counter[p] + Cardinality(Open(p)) * c < LimitOf(p) + Cardinality(Slot) * c
    BY SlotsAreFew DEF SpentAndOpen
  <2>4. counter[p] < LimitOf(p) + Cardinality(Slot) * c
    BY <2>1, <2>2, <2>3
  <2>5. QED
    BY <2>4, SlotsAreFew
<1>4. QED
  BY <1>1, <1>2, <1>3, PTL DEF Spec
=============================================================================
