-------------------------- MODULE NarrativeProofs --------------------------
(***************************************************************************)
(* Whatever the model writes and however many attempts are allowed, a      *)
(* served text states only numbers that find_unverified_numbers lets       *)
(* through, and narrative_verified tells which text was served.  Numbers   *)
(* written as prose writes them are matched whole and read as one of the   *)
(* values they may mean, and are let through if and only if the result     *)
(* has that value, rounded or not; so none that is served is invented, and *)
(* none that is plainly in the result is objected to.                      *)
(***************************************************************************)
EXTENDS VerifiedNarrative, TLAPS

(* A sequence is all of its first Len(s) elements.                         *)
LEMMA WholeSequence ==
  ASSUME NEW S, NEW s \in Seq(S)
  PROVE  SubSeq(s, 1, Len(s)) = s
OBVIOUS

(* A number as prose writes it is matched whole.                           *)
LEMMA PlainIsMatched ==
  ASSUME NEW l, LiteralOK(l), Plain(l)
  PROVE  MatchedGroups(l) = Len(l.groups)
<1>. DEFINE n == Len(l.groups)
            Thousand(i) == i \in 2..n /\ l.groups[i].n = 3
<1>1. n \in Nat /\ n > 0 /\ n - 1 = Len(l.seps)
  BY DEF LiteralOK, Shape, Separator
<1>2. PICK d \in Separator : WellWritten(l, d)
  BY DEF Plain
<1>3. \A i \in 1..n - 2 : l.seps[i] # d /\ l.groups[i + 1].n = 3 /\ l.groups[1].n <= 3
  BY <1>1, <1>2 DEF WellWritten
<1>. HIDE DEF n
<1>4. CASE l.groups[1].n <= 3 /\ Thousand(2)
  <2>. DEFINE Stops(i) == (\A j \in 2..i : Thousand(j)) /\ ~Thousand(i + 1)
              last == CHOOSE i \in 2..n : Stops(i)
  <2>0. MatchedGroups(l) = IF last < n THEN last + 1 ELSE last
    BY <1>4 DEF MatchedGroups, n
  <2>1. \A j \in 2..n - 1 : Thousand(j)
    <3>1. SUFFICES ASSUME NEW j \in 2..n - 1 PROVE Thousand(j)
      OBVIOUS
    <3>2. j \in 2..n /\ j - 1 \in 1..n - 2 /\ j - 1 + 1 = j
      BY <1>1
    <3>3. QED
      BY <1>3, <3>2
  <2>2. n >= 2
    BY <1>1, <1>4
  <2>3. CASE Thousand(n)
    <3>1. Stops(n)
      BY <1>1, <2>1, <2>3
    <3>2. \A i \in 2..n : Stops(i) => i = n
      <4>1. \A i \in 2..n - 1 : i + 1 \in 2..n - 1 \/ i + 1 = n
        BY <1>1
      <4>2. QED
        BY <1>1, <2>1, <2>3, <4>1
    <3>3. last = n
      BY <1>1, <2>2, <3>1, <3>2
    <3>. HIDE DEF last
    <3>4. QED
      BY <1>1, <2>0, <3>3 DEF n
  <2>4. CASE ~Thousand(n)
    <3>1. n - 1 \in 2..n
      BY <1>1, <1>4, <2>2, <2>4
    <3>2. Stops(n - 1)
      BY <1>1, <2>1, <2>4
    <3>3. \A i \in 2..n : Stops(i) => i = n - 1
      <4>1. \A i \in 2..n : i = n \/ i = n - 1 \/ i + 1 \in 2..n - 1
        BY <1>1
      <4>2. n \in 2..n
        BY <1>1, <2>2
      <4>3. QED
        BY <1>1, <2>1, <2>4, <4>1, <4>2
    <3>4. last = n - 1
      BY <3>1, <3>2, <3>3
    <3>. HIDE DEF last
    <3>5. last < n /\ last + 1 = n
      BY <1>1, <3>4
    <3>6. QED
      BY <2>0, <3>5 DEF n
  <2>5. QED
    BY <2>3, <2>4
<1>5. CASE ~(l.groups[1].n <= 3 /\ Thousand(2))
  <2>1. n = 1 \/ n = 2
    <3>1. n > 2 => 1 \in 1..n - 2 /\ 2 \in 2..n
      BY <1>1
    <3>2. QED
      BY <1>1, <1>3, <1>5, <3>1
  <2>2. QED
    BY <1>5, <2>1 DEF MatchedGroups, n
<1>6. QED
  BY <1>4, <1>5

(* What follows it multiplies alike for who reads and for the code.        *)
LEMMA PlainSuffix ==
  ASSUME NEW l, Plain(l)
  PROVE  Multiplier(l.suffix) = Factor(l.suffix)
<1>1. l.suffix \in {"none", "percent", "mil", "millones"}
  BY Zenon DEF Plain
<1>2. QED
  BY <1>1, SMT DEF Multiplier, Factor

(* The code has one reading of it, and it is one of its meanings.          *)
LEMMA PlainIsRead ==
  ASSUME NEW l, LiteralOK(l), Plain(l)
  PROVE  \E v \in Meanings(l) : Readings(l) = {v}
<1>. DEFINE n == Len(l.groups)
            withDecimals == Concat(SubSeq(l.groups, 1, n - 1)) * Unit + Decimals(l.groups[n])
            whole == Times(Concat(l.groups), Unit)
            factor == Factor(l.suffix)
            last == l.seps[n - 1]
            OneSeparator == \A i \in 1..n - 1 : l.seps[i] = last
            LastIsDecimal == \A i \in 1..n - 2 : l.seps[i] # last
<1>1. n \in Nat /\ n > 0 /\ n - 1 = Len(l.seps)
  BY DEF LiteralOK, Shape
<1>2. SubSeq(l.groups, 1, n) = l.groups
  BY WholeSequence DEF LiteralOK, Shape
<1>3. PICK d \in Separator : WellWritten(l, d)
  BY DEF Plain
<1>4. \A i \in 1..n - 1 : l.seps[i] \in Separator
  BY <1>1 DEF LiteralOK, Shape
<1>. HIDE DEF n
<1>5. /\ \A i \in 1..n - 2 : l.seps[i] # d
      /\ \A i \in 1..n - 1 : l.seps[i] # d => l.groups[i + 1].n = 3
      /\ n > 2 => l.groups[1].n <= 3 /\ l.groups[1].v > 0
  <2>1. n > 2 => 1 \in 1..n - 2
    BY <1>1
  <2>2. QED
    BY <1>1, <1>3, <2>1 DEF WellWritten, n
<1>6. /\ n = 1 \/ (OneSeparator /\ l.groups[n].n = 3) => Normalised(l, n) = {whole}
      /\ n # 1 /\ ~(OneSeparator /\ l.groups[n].n = 3)
           /\ (IF OneSeparator THEN n = 2 ELSE LastIsDecimal)
           => Normalised(l, n) = {withDecimals}
  BY <1>2, Zenon DEF Normalised
<1>. HIDE DEF withDecimals, whole, factor, OneSeparator, LastIsDecimal
<1>7. \A v : Normalised(l, n) = {v} => Readings(l) = {Times(v, factor)}
  <2>1. MatchedGroups(l) = n
    BY PlainIsMatched DEF n
  <2>2. Multiplier(IF n = Len(l.groups) THEN l.suffix ELSE "none") = factor
    BY PlainSuffix DEF factor, n
  <2>3. QED
    BY <2>1, <2>2 DEF Readings
<1>8. \A c \in Separator :
        ValueAs(l, c) = Times(IF n > 1 /\ last = c THEN withDecimals ELSE whole, factor)
  BY DEF ValueAs, Front, withDecimals, whole, factor, n
<1>9. \A c \in Separator : WellWritten(l, c) => ValueAs(l, c) \in Meanings(l)
  BY DEF Meanings
<1>. HIDE DEF last
<1>10. CASE n = 1
  <2>1. Readings(l) = {Times(whole, factor)}
    BY <1>6, <1>7, <1>10
  <2>2. ValueAs(l, d) = Times(whole, factor)
    BY <1>8, <1>10
  <2>3. QED
    BY <1>3, <1>9, <2>1, <2>2
<1>11. CASE n > 1 /\ OneSeparator /\ l.groups[n].n = 3
  <2>1. Readings(l) = {Times(whole, factor)}
    BY <1>6, <1>7, <1>11
  <2>2. PICK c \in Separator : c # last
    BY DEF Separator
  <2>3. \A i \in 1..n - 1 : l.seps[i] # c
    BY <1>11, <2>2 DEF OneSeparator
  <2>4. \A i \in 1..n - 1 : l.groups[i + 1].n = 3
    <3>1. \A i \in 1..n - 1 : i \in 1..n - 2 \/ i + 1 = n
      BY <1>1
    <3>2. \A i \in 1..n - 2 : i \in 1..n - 1
      BY <1>1
    <3>3. QED
      BY <1>5, <1>11, <3>1, <3>2
  <2>5. l.groups[1].n <= 3 /\ l.groups[1].v > 0
    <3>1. n = 2 \/ n > 2
      BY <1>1, <1>11
    <3>2. CASE n = 2
      <4>1. l.groups[2].n = 3
        BY <1>11, <3>2
      <4>2. QED
        BY <3>2, <4>1, Zenon DEF Plain, n
    <3>3. QED
      BY <1>5, <3>1, <3>2
  <2>6. WellWritten(l, c)
    <3>1. \A i \in 1..n - 2 : i \in 1..n - 1
      BY <1>1
    <3>2. QED
      BY <2>3, <2>4, <2>5, <3>1 DEF WellWritten, n
  <2>7. ValueAs(l, c) = Times(whole, factor)
    BY <1>8, <2>2
  <2>8. QED
    BY <1>9, <2>1, <2>6, <2>7
<1>12. CASE n > 1 /\ ~(OneSeparator /\ l.groups[n].n = 3)
  <2>1. n - 1 \in 1..n - 1 /\ n - 1 + 1 = n
    BY <1>1, <1>12
  <2>2. last = d
    <3>1. CASE ~OneSeparator
      <4>1. PICK i \in 1..n - 1 : l.seps[i] # last
        BY <3>1 DEF OneSeparator
      <4>2. i \in 1..n - 2
        BY <1>1, <4>1 DEF last
      <4>3. l.seps[i] # d /\ l.seps[i] \in Separator /\ last \in Separator
        BY <1>4, <1>5, <2>1, <4>2 DEF last
      <4>4. QED
        BY <1>3, <4>1, <4>3 DEF Separator
    <3>2. CASE l.groups[n].n # 3
      BY <1>5, <2>1, <3>2 DEF last
    <3>3. QED
      BY <1>12, <3>1, <3>2
  <2>3. LastIsDecimal
    BY <1>5, <2>2 DEF LastIsDecimal
  <2>4. OneSeparator => n = 2
    <3>1. n = 2 \/ (n - 2 \in 1..n - 2 /\ n - 2 \in 1..n - 1)
      BY <1>1, <1>12
    <3>2. QED
      BY <1>5, <2>2, <3>1 DEF OneSeparator
  <2>5. Readings(l) = {Times(withDecimals, factor)}
    BY <1>6, <1>7, <1>12, <2>3, <2>4
  <2>6. ValueAs(l, d) = Times(withDecimals, factor)
    BY <1>8, <1>12, <2>2
  <2>7. QED
    BY <1>3, <1>9, <2>5, <2>6
<1>13. n = 1 \/ n > 1
  BY <1>1
<1>14. QED
  BY <1>10, <1>11, <1>12, <1>13
-----------------------------------------------------------------------------
(* round() gives a nearest multiple, and the only one if there is no tie.  *)
LEMMA RoundIsRounded ==
  ASSUME NEW v \in Nat, NEW unit \in {1, 10, 100, 1000}
  PROVE  /\ Round(v, unit) \in Rounded(v, unit)
         /\ \A n : Rounded(v, unit) = {n} => n = Round(v, unit)
<1>1. Round(v, unit) \in Rounded(v, unit)
  <2>1. CASE unit = 1
    BY <2>1 DEF Round, Rounded
  <2>2. CASE unit = 10
    BY <2>2 DEF Round, Rounded
  <2>3. CASE unit = 100
    BY <2>3 DEF Round, Rounded
  <2>4. CASE unit = 1000
    BY <2>4 DEF Round, Rounded
  <2>5. QED
    BY <2>1, <2>2, <2>3, <2>4
<1>2. QED
  BY <1>1

(* A multiple of the greatest unit is one of each.                         *)
LEMMA RowsAreRound ==
  ASSUME NEW v \in Nat, v % Unit = 0, NEW unit \in {1, 10, 100, 1000}
  PROVE  Rounded(v, unit) = {v}
<1>1. CASE unit = 1
  BY <1>1 DEF Unit, Rounded
<1>2. CASE unit = 10
  BY <1>2 DEF Unit, Rounded
<1>3. CASE unit = 100
  <2>1. PICK k \in Nat : v = 1000 * k
    BY SMT DEF Unit
  <2>2. 100 * (v \div 100) = v /\ 100 * (v \div 100 + 1) = v + 100
    BY <2>1
  <2>3. QED
    BY <1>3, <2>2 DEF Rounded
<1>4. CASE unit = 1000
  BY <1>4, SMT DEF Unit, Rounded
<1>5. QED
  BY <1>1, <1>2, <1>3, <1>4

LEMMA ThousandthsAreExact ==
  ASSUME NEW v \in Nat
  PROVE  Rounded(v, 1) = {v}
BY DEF Rounded

(* The values that back a number.                                          *)
LEMMA AllowedIs ==
  ASSUME NEW r, NEW a
  PROVE  a \in Allowed(r) <=>
           \/ a \in Stated(r)
           \/ \E w \in r.cells \cup r.digits, unit \in {10, 100, 1000} : a = Round(w, unit)
<1>1. a \in Allowed(r) <=>
        \/ a = r.rows
        \/ \E w \in r.cells \cup r.digits :
             a = w \/ a = Round(w, 1000) \/ a = Round(w, 100) \/ a = Round(w, 10)
  <2>. DEFINE backs(w) == {w, Round(w, 1000), Round(w, 100), Round(w, 10)}
              values == r.cells \cup r.digits
              all == UNION {backs(w) : w \in values}
  <2>1. Allowed(r) = all \cup {r.rows}
    BY Zenon DEF Allowed
  <2>2. a \in all <=> \E w \in values : a \in backs(w)
    <3>. HIDE DEF backs, values
    <3>1. QED
      OBVIOUS
  <2>3. \A w : a \in backs(w) <=>
          a = w \/ a = Round(w, 1000) \/ a = Round(w, 100) \/ a = Round(w, 10)
    OBVIOUS
  <2>4. \A w : w \in values <=> w \in r.cells \cup r.digits
    OBVIOUS
  <2>. HIDE DEF backs, values, all
  <2>5. a \in Allowed(r) <=> a = r.rows \/ \E w \in values : a \in backs(w)
    BY <2>1, <2>2
  <2>6. QED
    BY <2>3, <2>4, <2>5
<1>2. QED
  BY <1>1 DEF Stated

LEMMA AllowedIsInResult ==
  ASSUME NEW r, ResultOK(r), NEW v, NEW a \in Allowed(r), Near(v, a)
  PROVE  InResult(v, r)
<1>1. Stated(r) \subseteq Nat
  BY NumberVerificationAssumption DEF Stated, ResultOK
<1>2. PICK w \in Stated(r), unit \in {1, 10, 100, 1000} : a \in Rounded(w, unit)
  <2>1. CASE \E w \in Stated(r) : a = w
    <3>1. a \in Rounded(a, 1)
      BY <1>1, <2>1, ThousandthsAreExact
    <3>2. QED
      BY <2>1, <3>1
  <2>2. CASE \E w \in Stated(r), unit \in {10, 100, 1000} : a = Round(w, unit)
    BY <1>1, <2>2, RoundIsRounded
  <2>3. QED
    BY <2>1, <2>2, AllowedIs DEF Stated
<1>3. QED
  BY <1>2 DEF InResult

LEMMA PlainlyIsAllowed ==
  ASSUME NEW r, ResultOK(r), NEW v, PlainlyInResult(v, r)
  PROVE  \E a \in Allowed(r) : Near(v, a)
<1>1. Stated(r) \subseteq Nat /\ r.rows \in Nat /\ r.rows % Unit = 0
  BY NumberVerificationAssumption DEF Stated, ResultOK
<1>2. PICK w \in Stated(r), unit \in {1, 10, 100, 1000} :
        \E n \in Rounded(w, unit) : Rounded(w, unit) = {n} /\ Near(v, n)
  BY DEF PlainlyInResult
<1>3. PICK n : Rounded(w, unit) = {n} /\ Near(v, n)
  BY <1>2
<1>4. n \in Allowed(r)
  <2>1. CASE w = r.rows
    <3>1. n = w
      BY <1>1, <1>3, <2>1, RowsAreRound
    <3>2. QED
      BY <2>1, <3>1, AllowedIs DEF Stated
  <2>2. CASE w # r.rows /\ unit = 1
    <3>1. n = w
      BY <1>1, <1>3, <2>2, ThousandthsAreExact
    <3>2. QED
      BY <2>2, <3>1, AllowedIs
  <2>3. CASE w # r.rows /\ unit \in {10, 100, 1000}
    <3>1. n = Round(w, unit)
      BY <1>1, <1>3, RoundIsRounded
    <3>2. QED
      BY <2>3, <3>1, AllowedIs DEF Stated
  <2>4. QED
    BY <2>1, <2>2, <2>3
<1>5. QED
  BY <1>3, <1>4

(* Of a number as prose writes it, find_unverified_numbers objects to what *)
(* no value of the result stands for, and to nothing that one plainly      *)
(* does.                                                                   *)
LEMMA PlainIsJudged ==
  ASSUME NEW l, LiteralOK(l), Plain(l), NEW r, ResultOK(r)
  PROVE  /\ FindUnverified({l}, r) = {} => \E v \in Meanings(l) : InResult(v, r)
         /\ (\A v \in Meanings(l) : PlainlyInResult(v, r)) => FindUnverified({l}, r) = {}
<1>1. PICK v \in Meanings(l) : Readings(l) = {v}
  BY PlainIsRead
<1>2. ~l.glued
  BY DEF Plain
<1>3. FindUnverified({l}, r) = {} <=> \E a \in Allowed(r) : Near(v, a)
  BY <1>1, <1>2 DEF FindUnverified
<1>4. QED
  BY <1>1, <1>3, AllowedIsInResult, PlainlyIsAllowed

-----------------------------------------------------------------------------
(* What a call may give out.                                               *)
Served(text, verified, unverified, q) ==
  /\ text.from \in {"template", "reason", "leaders", "model"}
  /\ text.numbers \subseteq NotObjectedTo[q]
  /\ ~verified => text.from = "template"
  /\ unverified # {} => ~verified
  /\ unverified \cap NotObjectedTo[q] = {}

Call ==
  [status : {"idle", "writing", "returned", "crashed", "abandoned"},
   attempt : 1..MaxAttempts, usage : 0..MaxAttempts, text : Nar!Text,
   verified : BOOLEAN, unverified : SUBSET Nar!Figure]

Open == {"idle", "writing"}

(* Until it returns, a call has paid at most for the attempts before the   *)
(* one under way.                                                          *)
CallOK(n, q) ==
  /\ n \in Call
  /\ n.status \in Open => n.usage <= n.attempt - 1
  /\ n.status # "returned" => n.text.numbers = {} /\ n.unverified = {}
  /\ n.status = "returned" => Served(n.text, n.verified, n.unverified, q)

IInv ==
  /\ nar = [q \in Query |-> nar[q]]
  /\ \A q \in Query : CallOK(nar[q], q)

-----------------------------------------------------------------------------
(* The steps of one call leave the others alone.                           *)
LEMMA OneCall ==
  ASSUME IInv, NEW q \in Query, NEW n, nar' = [nar EXCEPT ![q] = n], CallOK(n, q)
  PROVE  IInv'
<1>1. \A p \in Query : nar'[p] = IF p = q THEN n ELSE nar[p]
  BY DEF IInv
<1>2. nar' = [p \in Query |-> nar'[p]]
  BY DEF IInv
<1>3. ASSUME NEW p \in Query PROVE CallOK(nar'[p], p)
  BY <1>1 DEF IInv
<1>4. QED
  BY <1>2, <1>3 DEF IInv, CallOK, Served, Call, NotObjectedTo, Nar!Text, Nar!Figure

(* A call that returns gives out what it may.                              *)
LEMMA Returning ==
  ASSUME IInv, NEW q \in Query, nar[q].status \in Open,
         NEW text \in Nar!Text, NEW verified \in BOOLEAN,
         NEW unverified \in SUBSET Nar!Figure, NEW completions \in 0..1,
         Nar!Return(q, text, verified, unverified, completions),
         Served(text, verified, unverified, q)
  PROVE  IInv'
<1>. DEFINE n == [nar[q] EXCEPT !.status = "returned", !.text = text,
                                !.verified = verified, !.unverified = unverified,
                                !.usage = @ + completions]
<1>1. nar' = [nar EXCEPT ![q] = n]
  BY DEF Nar!Return, IInv
<1>2. /\ nar[q] \in Call
      /\ nar[q].usage <= nar[q].attempt - 1
  BY DEF IInv, CallOK
<1>3. nar[q].usage + completions \in 0..MaxAttempts
  BY <1>2, NarrativeAssumption DEF Call, Nar!NarrativeParameters
<1>4. /\ n.status = "returned" /\ n.text = text
      /\ n.verified = verified /\ n.unverified = unverified
      /\ n \in Call
  BY <1>2, <1>3 DEF Call
<1>5. CallOK(n, q)
  BY <1>4 DEF CallOK, Open
<1>. HIDE DEF n
<1>6. QED
  BY <1>1, <1>5, OneCall

(* A text without numbers has none to object to.                           *)
LEMMA FixedTexts ==
  ASSUME NEW from \in {"none", "template", "reason", "leaders"}, NEW q \in Query
  PROVE  /\ [from |-> from, numbers |-> {}] \in Nar!Text
         /\ [from |-> from, numbers |-> {}].numbers \subseteq NotObjectedTo[q]
BY DEF Nar!Text

-----------------------------------------------------------------------------
LEMMA InitIInv == Nar!Init => IInv
<1>1. Nar!NoText \in Nar!Text /\ Nar!NoText.numbers = {}
  BY DEF Nar!NoText, Nar!Text
<1>2. QED
  BY <1>1, NarrativeAssumption
  DEF Nar!Init, IInv, CallOK, Call, Open, Nar!NarrativeParameters

LEMMA NextIInv == IInv /\ [Nar!Next]_(Nar!vars) => IInv'
<1>. SUFFICES ASSUME IInv, [Nar!Next]_(Nar!vars) PROVE IInv'
  OBVIOUS
<1>0. 0 \in 0..1 /\ 1 \in 0..1 /\ {} \in SUBSET Nar!Figure /\ {TRUE, FALSE} \subseteq BOOLEAN
  OBVIOUS
<1>1. ASSUME NEW q \in Query, NEW f \in Nar!Facts, Nar!BeginExplained(q, f) PROVE IInv'
  <2>1. PICK from \in {"reason", "template"} :
          Nar!Return(q, [from |-> from, numbers |-> {}], TRUE, {}, 0)
    BY <1>1 DEF Nar!BeginExplained, Nar!Template
  <2>. DEFINE text == [from |-> from, numbers |-> {}]
  <2>2. nar[q].status \in Open
    BY <1>1 DEF Nar!BeginExplained, Open
  <2>3. text \in Nar!Text /\ Served(text, TRUE, {}, q)
    BY FixedTexts DEF Served
  <2>. HIDE DEF text
  <2>4. QED
    BY <1>0, <2>1, <2>2, <2>3, Returning, Zenon DEF text
<1>2. ASSUME NEW q \in Query, NEW f \in Nar!Facts, Nar!BeginLeaders(q, f) PROVE IInv'
  <2>. DEFINE text == [from |-> "leaders", numbers |-> {}]
  <2>1. nar[q].status \in Open /\ Nar!Return(q, text, TRUE, {}, 0)
    BY <1>2 DEF Nar!BeginLeaders, Open
  <2>2. text \in Nar!Text /\ Served(text, TRUE, {}, q)
    BY FixedTexts DEF Served
  <2>. HIDE DEF text
  <2>3. QED
    BY <1>0, <2>1, <2>2, Returning, Zenon
<1>3. ASSUME NEW q \in Query, NEW f \in Nar!Facts, Nar!BeginWriting(q, f) PROVE IInv'
  <2>. DEFINE n == [nar[q] EXCEPT !.status = "writing"]
  <2>1. nar' = [nar EXCEPT ![q] = n] /\ nar[q].status = "idle"
    BY <1>3 DEF Nar!BeginWriting
  <2>2. CallOK(n, q)
    BY <2>1 DEF IInv, CallOK, Call, Open
  <2>. HIDE DEF n
  <2>3. QED
    BY <2>1, <2>2, OneCall
<1>4. ASSUME NEW q \in Query, NEW numbers \in Wording, Nar!TextPasses(q, numbers)
      PROVE  IInv'
  <2>. DEFINE text == [from |-> "model", numbers |-> numbers]
  <2>1. text \in Nar!Text
    BY DEF Nar!Text, Nar!Figure
  <2>2. numbers \subseteq NotObjectedTo[q]
    BY <1>4 DEF Nar!TextPasses, Nar!FindUnverified
  <2>3. Served(text, TRUE, {}, q)
    BY <2>2 DEF Served
  <2>4. nar[q].status \in Open /\ Nar!Return(q, text, TRUE, {}, 1)
    BY <1>4 DEF Nar!TextPasses, Nar!Writing, Open
  <2>. HIDE DEF text
  <2>5. QED
    BY <1>0, <2>1, <2>3, <2>4, Returning, Zenon
<1>5. ASSUME NEW q \in Query, NEW numbers \in Wording, Nar!TextFails(q, numbers)
      PROVE  IInv'
  <2>. DEFINE objections == Nar!FindUnverified(q, numbers)
  <2>1. /\ nar[q].status = "writing" /\ objections \in SUBSET Nar!Figure
        /\ objections \cap NotObjectedTo[q] = {}
    BY <1>5 DEF Nar!TextFails, Nar!Writing, Nar!FindUnverified, Nar!Figure
  <2>2. CASE nar[q].attempt = MaxAttempts
    <3>1. Nar!Return(q, Nar!Template, FALSE, objections, 1)
      BY <1>5, <2>2 DEF Nar!TextFails
    <3>2. Nar!Template \in Nar!Text /\ Served(Nar!Template, FALSE, objections, q)
      BY <2>1, FixedTexts DEF Served, Nar!Template
    <3>. HIDE DEF objections
    <3>3. QED
      BY <1>0, <2>1, <3>1, <3>2, Returning, Zenon DEF Open
  <2>3. CASE nar[q].attempt # MaxAttempts
    <3>. DEFINE n == [nar[q] EXCEPT !.attempt = @ + 1, !.usage = @ + 1]
    <3>1. nar' = [nar EXCEPT ![q] = n]
      BY <1>5, <2>3 DEF Nar!TextFails, IInv
    <3>2. CallOK(nar[q], q)
      BY DEF IInv
    <3>3. /\ nar[q] \in Call
          /\ nar[q].attempt + 1 \in 1..MaxAttempts
          /\ nar[q].usage + 1 \in 0..MaxAttempts
          /\ nar[q].usage <= nar[q].attempt - 1
          /\ nar[q].text.numbers = {} /\ nar[q].unverified = {}
      BY <2>1, <2>3, <3>2, NarrativeAssumption
      DEF CallOK, Call, Open, Nar!NarrativeParameters
    <3>4. n \in Call
      BY <3>3 DEF Call
    <3>5. /\ n.status = "writing" /\ n.usage <= n.attempt - 1
          /\ n.text.numbers = {} /\ n.unverified = {}
      BY <2>1, <3>3 DEF Call
    <3>. HIDE DEF n
    <3>6. CallOK(n, q)
      BY <3>4, <3>5 DEF CallOK
    <3>7. QED
      BY <3>1, <3>6, OneCall
  <2>4. QED
    BY <2>2, <2>3
<1>6. ASSUME NEW q \in Query, Nar!TextEmpty(q) \/ Nar!ModelFails(q) PROVE IInv'
  <2>1. PICK paid \in 0..1 : Nar!Return(q, Nar!Template, FALSE, {}, paid)
    BY <1>0, <1>6, Zenon DEF Nar!TextEmpty, Nar!ModelFails
  <2>2. nar[q].status \in Open
    BY <1>6 DEF Nar!TextEmpty, Nar!ModelFails, Nar!Writing, Open
  <2>3. Nar!Template \in Nar!Text /\ Served(Nar!Template, FALSE, {}, q)
    BY FixedTexts DEF Served, Nar!Template
  <2>4. QED
    BY <1>0, <2>1, <2>2, <2>3, Returning, Zenon
<1>7. ASSUME NEW q \in Query, Nar!Crash(q) \/ Nar!Abandon(q) PROVE IInv'
  <2>0. nar[q].status = "writing"
    BY <1>7 DEF Nar!Crash, Nar!Abandon, Nar!Writing
  <2>1. PICK status \in {"crashed", "abandoned"} : nar' = [nar EXCEPT ![q].status = status]
    BY <1>7 DEF Nar!Crash, Nar!Abandon
  <2>. DEFINE n == [nar[q] EXCEPT !.status = status]
  <2>2. nar' = [nar EXCEPT ![q] = n]
    BY <2>1
  <2>3. CallOK(nar[q], q)
    BY DEF IInv
  <2>4. CallOK(n, q)
    BY <2>0, <2>3 DEF CallOK, Call, Open
  <2>. HIDE DEF n
  <2>5. QED
    BY <2>2, <2>4, OneCall
<1>8. CASE UNCHANGED nar
  BY <1>8 DEF IInv, CallOK, Call, Served, NotObjectedTo, Nar!Text, Nar!Figure
<1>9. QED
  BY <1>1, <1>2, <1>3, <1>4, <1>5, <1>6, <1>7, <1>8
  DEF Nar!Next, Nar!Begin, Nar!Reply, Nar!vars

LEMMA Invariant == Spec => []IInv
BY InitIInv, NextIInv, PTL DEF Spec, Nar!Spec

(* narrative_verified tells which text was served: an unverified one is    *)
(* the template, and numbers are objected to in no other.                  *)
THEOREM FlagTellsTheText == Spec => []VerifiedTellsTheText
<1>1. IInv => VerifiedTellsTheText
  BY DEF IInv, CallOK, Served, VerifiedTellsTheText, Nar!VerifiedTellsTheText, Nar!Returned
<1>2. QED
  BY <1>1, Invariant, PTL

(* On whatever attempt a text is written, it is served only if             *)
(* find_unverified_numbers has nothing to say of it.                       *)
THEOREM ServedIsVerified ==
  Spec => [](\A q \in Query :
               Nar!Returned(q) => FindUnverified(nar[q].text.numbers, Result[q]) = {})
<1>1. ASSUME IInv, NEW q \in Query, Nar!Returned(q)
      PROVE  FindUnverified(nar[q].text.numbers, Result[q]) = {}
  <2>1. nar[q].text.numbers \subseteq NotObjectedTo[q]
    BY <1>1 DEF IInv, CallOK, Served, Nar!Returned
  <2>2. \A l \in NotObjectedTo[q] : FindUnverified({l}, Result[q]) = {}
    BY DEF NotObjectedTo
  <2>3. QED
    BY <2>1, <2>2 DEF FindUnverified
<1>2. IInv => \A q \in Query :
                Nar!Returned(q) => FindUnverified(nar[q].text.numbers, Result[q]) = {}
  BY <1>1
<1>3. QED
  BY <1>2, Invariant, PTL

(* No plain number is invented: on whatever attempt a text is written,     *)
(* however its numbers are grouped and rounded and whatever stands beside  *)
(* them, each plain one that is served may be read as a value of the       *)
(* result.  Those that are not plain, such as Q500, 1,234,56 or 25         *)
(* milimetros, are let through unread or read as another value.            *)
THEOREM NothingIsInvented == Spec => []NoInventedNumber
<1>1. ASSUME IInv, NEW q \in Query, NEW l \in nar[q].text.numbers, Plain(l)
      PROVE  l \in MayBeBacked[q]
  <2>1. l \in NotObjectedTo[q]
    BY <1>1 DEF IInv, CallOK, Served
  <2>2. l \in UNION Wording /\ FindUnverified({l}, Result[q]) = {}
    BY <2>1 DEF NotObjectedTo
  <2>3. Plain(l) /\ LiteralOK(l) /\ ResultOK(Result[q])
    BY <1>1, <2>2, VerifiedNarrativeAssumption
  <2>4. \E v \in Meanings(l) : InResult(v, Result[q])
    BY <2>2, <2>3, PlainIsJudged
  <2>5. QED
    BY <2>2, <2>4 DEF MayBeBacked
<1>2. IInv => NoInventedNumber
  BY <1>1 DEF NoInventedNumber
<1>3. QED
  BY <1>2, Invariant, PTL

(* No false alarm: a plain number that stands for a value of the result    *)
(* however it is read, rounded without a tie or not at all, is never       *)
(* objected to.                                                            *)
THEOREM NothingIsLost == Spec => []NoFalseAlarm
<1>1. ASSUME IInv, NEW q \in Query, NEW l \in nar[q].unverified, Plain(l),
             l \in SurelyBacked[q]
      PROVE  FALSE
  <2>1. l \notin NotObjectedTo[q]
    BY <1>1 DEF IInv, CallOK, Served
  <2>2. l \in UNION Wording /\ \A v \in Meanings(l) : PlainlyInResult(v, Result[q])
    BY <1>1 DEF SurelyBacked
  <2>3. Plain(l) /\ LiteralOK(l) /\ ResultOK(Result[q])
    BY <1>1, <2>2, VerifiedNarrativeAssumption
  <2>4. FindUnverified({l}, Result[q]) = {}
    BY <2>2, <2>3, PlainIsJudged
  <2>5. QED
    BY <2>1, <2>2, <2>4 DEF NotObjectedTo
<1>2. IInv => NoFalseAlarm
  BY <1>1 DEF NoFalseAlarm
<1>3. QED
  BY <1>2, Invariant, PTL

(* However many texts are written, no more are paid for than are allowed.  *)
THEOREM NarrativeType == Spec => []Nar!TypeOK
<1>1. IInv => Nar!TypeOK
  BY DEF IInv, CallOK, Call, Nar!TypeOK
<1>2. QED
  BY <1>1, Invariant, PTL
=============================================================================
