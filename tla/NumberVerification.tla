------------------------- MODULE NumberVerification -------------------------
(***************************************************************************)
(* nlq/number_extraction.py: which numbers a text states and whether the   *)
(* result backs them.  A number is kept as it is written: what touches it  *)
(* on the left, its groups of digits, the separators between them and the  *)
(* word after it.  Values are in thousandths; Top stands for any value     *)
(* that large.  Groups after the first have at most three digits.          *)
(***************************************************************************)
EXTENDS Integers, Sequences, SequencesExt

CONSTANT
  Top     \* bound: values from here on are not told apart

ASSUME NumberVerificationAssumption == Top \in Nat \ {0}

Times(v, k) == IF v >= Top \div k THEN Top ELSE v * k

Unit == 1000

(* What the next word may be: milMillones stands for the two words "mil    *)
(* millones", milWord for a longer word that begins with mil, as           *)
(* "miligramos" or "militares", millonWord for one that begins with        *)
(* millon, as "millonario", millonesAccented for the misspelt plural with  *)
(* an accent; none for no word or any other.                               *)
Suffix == {"none", "percent", "mil", "millones", "milMillones", "million",
           "milWord", "millonWord", "millonesAccented"}

Separator == {"dot", "comma"}

(* glued: a letter comes before, as in Q500.  A group of n digits that     *)
(* reads v is [n |-> n, v |-> v].                                          *)
Shape(l) ==
  /\ l.glued \in BOOLEAN /\ l.suffix \in Suffix
  /\ l.groups \in Seq([n : Nat, v : Nat]) /\ l.groups # <<>>
  /\ l.seps \in Seq(Separator) /\ Len(l.seps) = Len(l.groups) - 1

Fits(g, most) == g.n \in 1..most /\ g.v \in 0..10 ^ g.n - 1

LiteralOK(l) ==
  /\ Shape(l)
  /\ \A i \in DOMAIN l.groups : Fits(l.groups[i], IF i = 1 THEN 9 ELSE 3)

(* A result: its numeric cells, the digits within its other cells, and how *)
(* many rows it has.                                                       *)
ResultOK(r) ==
  /\ r.cells \cup r.digits \cup {r.rows} \subseteq 0..Top - 1000
  /\ r.rows % Unit = 0

Concat(groups) == FoldLeft(LAMBDA v, g : v * 10 ^ g.n + g.v, 0, groups)

(* Digits after a decimal separator.                                       *)
Decimals(g) == g.v * 10 ^ (3 - g.n)

(* ---------------------------- What the code reads ---------------------- *)

(* _NUMBER_RE: groups of three after a first one of one to three digits,   *)
(* then decimals; otherwise a number with at most one separator.  What     *)
(* follows a match that stopped early starts with a separator, and is      *)
(* never matched itself.                                                   *)
MatchedGroups(l) ==
  LET n == Len(l.groups)
      Thousand(i) == i \in 2..n /\ l.groups[i].n = 3
  IN  IF l.groups[1].n <= 3 /\ Thousand(2)
      THEN LET last == CHOOSE i \in 2..n :
                         (\A j \in 2..i : Thousand(j)) /\ ~Thousand(i + 1)
           IN  IF last < n THEN last + 1 ELSE last
      ELSE IF n = 1 THEN 1 ELSE 2

(* A slip: the table of multipliers lacks the plural "millones".           *)
MultiplierSingular(suffix) ==
  IF suffix \in {"mil", "milMillones", "milWord"} THEN 1000
  ELSE IF suffix = "millonWord" THEN 1000000 ELSE 1

(* The suffix of _NUMBER_RE ends at no word boundary: a longer word counts *)
(* as the one it begins with.                                              *)
Multiplier(suffix) ==
  IF suffix \in {"mil", "milMillones", "milWord"} THEN 1000
  ELSE IF suffix \in {"millones", "millonWord"} THEN 1000000 ELSE 1

(* _normalise_numeric_literal, of the first k groups: with both separators *)
(* the last is the decimal one; with one of them, three digits at the end  *)
(* make thousands.  What float() refuses has no value.                     *)
Normalised(l, k) ==
  LET Whole(i) == Concat(SubSeq(l.groups, 1, i))
      OneSeparator == \A i \in 1..k - 1 : l.seps[i] = l.seps[k - 1]
      WithDecimals == {Whole(k - 1) * Unit + Decimals(l.groups[k])}
  IN  IF k = 1 \/ (OneSeparator /\ l.groups[k].n = 3) THEN {Times(Whole(k), Unit)}
      ELSE IF IF OneSeparator THEN k = 2
              ELSE \A i \in 1..k - 2 : l.seps[i] # l.seps[k - 1]
           THEN WithDecimals ELSE {}

(* The values the code takes a number for, with the multiplier: one, or    *)
(* none.                                                                   *)
Readings(l) ==
  LET k == MatchedGroups(l)
      suffix == IF k = Len(l.groups) THEN l.suffix ELSE "none"
  IN  {Times(v, Multiplier(suffix)) : v \in Normalised(l, k)}

(* round(): to the even neighbour at a tie.                                *)
Round(v, unit) ==
  LET q == v \div unit
      r == 2 * (v % unit)
  IN  unit * (IF r > unit \/ (r = unit /\ q % 2 = 1) THEN q + 1 ELSE q)

(* A slip: only the numeric cells count.                                   *)
AllowedNumeric(r) ==
  (UNION {{v, Round(v, 1000), Round(v, 100), Round(v, 10)} : v \in r.cells}) \cup {r.rows}

(* allowed_values_from_rows, and row_count.                                *)
Allowed(r) ==
  (UNION {{v, Round(v, 1000), Round(v, 100), Round(v, 10)} : v \in r.cells \cup r.digits})
    \cup {r.rows}

Tolerance == 10

Near(v, w) == v - w \in -Tolerance..Tolerance

(* find_unverified_numbers: what it does not match, and what it cannot     *)
(* read, it does not object to.                                            *)
FindUnverified(numbers, r) ==
  {l \in numbers :
     ~l.glued /\ \E v \in Readings(l) : \A a \in Allowed(r) : ~Near(v, a)}

(* ---------------------------- What a reader reads ---------------------- *)

(* l is written as the convention with that decimal separator has it.      *)
WellWritten(l, decimal) ==
  LET n == Len(l.groups)
      thousands == {i \in 1..n - 1 : l.seps[i] # decimal}
  IN  /\ \A i \in 1..n - 2 : i \in thousands
      /\ \A i \in thousands : l.groups[i + 1].n = 3
      /\ thousands # {} => l.groups[1].n <= 3 /\ l.groups[1].v > 0

Factor(suffix) ==
  IF suffix = "mil" THEN 1000
  ELSE IF suffix \in {"millones", "million", "millonesAccented"} THEN 1000000
  ELSE IF suffix = "milMillones" THEN 1000000000 ELSE 1

ValueAs(l, decimal) ==
  LET n == Len(l.groups)
  IN  Times(IF n > 1 /\ l.seps[n - 1] = decimal
            THEN Concat(Front(l.groups)) * Unit + Decimals(l.groups[n])
            ELSE Times(Concat(l.groups), Unit),
            Factor(l.suffix))

(* What the number may mean: one value, or two, "1.234" being either.      *)
Meanings(l) == {ValueAs(l, decimal) : decimal \in {d \in Separator : WellWritten(l, d)}}

(* The nearest multiples of unit: two at a tie, where either is written.   *)
Rounded(v, unit) ==
  {n \in {unit * (v \div unit), unit * (v \div unit + 1)} : 2 * (n - v) \in -unit..unit}

Stated(r) == r.cells \cup r.digits \cup {r.rows}

(* v is a value of the result, or one rounded to at most two decimals,     *)
(* give or take a hundredth.                                               *)
InResult(v, r) ==
  \E w \in Stated(r), unit \in {1, 10, 100, 1000} : \E n \in Rounded(w, unit) : Near(v, n)

(* The same, with no tie to break.                                         *)
PlainlyInResult(v, r) ==
  \E w \in Stated(r), unit \in {1, 10, 100, 1000} :
    \E n \in Rounded(w, unit) : Rounded(w, unit) = {n} /\ Near(v, n)

(* Numbers as most Spanish prose writes them: thousands grouped or not,    *)
(* one or two decimals, and before no word that begins with mil or millon  *)
(* but these themselves.                                                   *)
Plain(l) ==
  LET n == Len(l.groups)
  IN  /\ ~l.glued
      /\ l.suffix \in {"none", "percent", "mil", "millones"}
      /\ \E d \in Separator : WellWritten(l, d)
      /\ (n = 2 /\ l.groups[2].n = 3) => l.groups[1].n <= 3 /\ l.groups[1].v > 0
      /\ (n > 2 /\ l.groups[n].n = 3) => l.seps[n - 1] = l.seps[n - 2]
=============================================================================
