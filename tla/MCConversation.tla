--------------------------- MODULE MCConversation ---------------------------
(* Two countries, two days that are two periods, turns with and without a  *)
(* name, a period or a change of subject, and for each rule a statement    *)
(* that breaks it.  LooseSql is let through though it answers otherwise    *)
(* than asked: the properties do not speak of it, for the reason each      *)
(* names.  RenamingSql gives an amount another name.                       *)
EXTENDS Conversation

MCDate == 0..1

Cr == CHOOSE c \in Country : TRUE

Asking(named, changes) ==
  [named |-> named, allCountries |-> FALSE, changesPeriod |-> changes, saysPeriod |-> changes,
   saysExcludedStatus |-> FALSE, currencies |-> {}, supplierTotal |-> FALSE,
   singleWinner |-> FALSE]

FollowUp == Asking({}, FALSE)

Topping(currencies) ==
  [FollowUp EXCEPT !.supplierTotal = TRUE, !.singleWinner = TRUE, !.currencies = currencies]

Crc == CHOOSE c \in Currency : TRUE

MCQuestion ==
  {Asking(named, changes) : named \in {{}, Country \ {Cr}}, changes \in BOOLEAN}
    \cup {[FollowUp EXCEPT !.allCountries = TRUE], Topping({}), Topping({Crc})}

Amount == Column({}, "awarded_amount", "awarded_amount")

Statement(inner, outer) ==
  [form |-> "select", forbidden |-> FALSE, inner |-> inner, outer |-> outer, cte |-> "none",
   search |-> "plain", joined |-> FALSE, named |-> TRUE, each |-> FALSE, currencies |-> {},
   ordered |-> TRUE, limit |-> NoLimit, offset |-> 0]

Both == {"v_process", "v_awards"}

InCountry(cs) == {CountryIs(cs, "v_process")}

On(day, column, from) == {DateWithin(column, from, day, day + 1)}

Flat(cs, dates) == Statement(Nothing, Select(Both, {Amount}, {InCountry(cs)} \cup dates))

(* A derived table, with a condition within it and one around it.          *)
Nested(cs, within, around, views) ==
  Statement(Select({"v_awards"}, {Amount}, within),
            Select(views, {Amount}, around \cup IF views = {} THEN {} ELSE {InCountry(cs)}))

DatedSql ==
  {Flat(cs, {On(day, column, "views")}) :
     cs \in (SUBSET Country) \ {{}}, day \in Date, column \in {"award_date"}}
  \cup {Flat(Country, {On(0, "publication_date", "views")})}
  \cup {Flat(Country, dates) : dates \in
          {{}, {On(0, "award_date", "views") \cup {Anything}},
           {{DateWithin("award_date", "views", 0, NoLimit)}},
           {On(0, "award_date", "views"), On(1, "publication_date", "views")}}}
  \cup {Nested({Cr}, {On(0, "award_date", "views")}, {}, {}),
        Nested({Cr}, {}, {On(0, "award_date", "inner")}, {}),
        Nested({Cr}, {On(0, "award_date", "views")}, {}, {"v_process"}),
        Nested({Cr}, {On(0, "award_date", "views")}, {}, Both)}

Totals1 == "v_supplier_award_totals"

Total(each, currencies, limit) ==
  [Statement(Nothing, Select({Totals1},
     {Column({}, "total_awarded_amount", "total_awarded_amount")}, {{CountryIs({Cr}, Totals1)}}))
     EXCEPT !.each = each, !.currencies = currencies, !.limit = limit]

Winners == Total(TRUE, {}, 1)

TotalSql ==
  {Total(each, currencies, limit) :
     each \in BOOLEAN, currencies \in {{}, {Crc}}, limit \in {NoLimit, 1}}
    \cup {[Winners EXCEPT !.ordered = FALSE], [Winners EXCEPT !.named = FALSE],
          [Winners EXCEPT !.joined = TRUE]}

Whole == Flat({Cr}, {})

Shows(column) == [Whole EXCEPT !.outer.shows = {column}]

Within(column) ==
  Statement(Select(Both, {column}, {InCountry({Cr})}),
            Select({}, {Column({}, column.as, column.as)}, {}))

BrokenSql ==
  {[Whole EXCEPT !.form = "unparsable"], [Whole EXCEPT !.form = "several"],
   [Whole EXCEPT !.forbidden = TRUE], [Whole EXCEPT !.search = "wrapped"],
   [Whole EXCEPT !.outer.views = {"v_coverage"}],
   [Whole EXCEPT !.outer.views = Both \cup {"v_items"}],
   [Whole EXCEPT !.outer.where = {}],
   [Whole EXCEPT !.outer.where = {{[CountryIs({}, "v_process") EXCEPT !.form = "subquery"]}}],
   Shows(Column({"sum"}, "awarded_amount", "total")),
   Shows(Column({"round", "div"}, "awarded_amount", "usd")),
   Within(Column({"sum"}, "awarded_amount", "total"))}

Two == {"v_process", "v_suppliers"}

TwoViews(where) == [Whole EXCEPT !.outer.views = Two, !.outer.where = where]

AllowedSql ==
  {Shows(Column({"max"}, "awarded_amount", "largest")),
   Within(Column({"max"}, "awarded_amount", "awarded_amount")),
   TwoViews({InCountry({Cr}), {CountryIs({Cr}, "v_suppliers")}})}

(* The supplier of any country beside a process of the one that is asked;  *)
(* a country that a column or a NOT may let in; no condition at all on a   *)
(* view with the name of the CTE.                                          *)
OtherCountries ==
  {TwoViews({InCountry({Cr})}),
   [Whole EXCEPT !.outer.where = {{[CountryIs({}, "v_process") EXCEPT !.form = "otherwise"]}}],
   [Whole EXCEPT !.outer.where = {InCountry({Cr}) \cup {Anything}}],
   [Statement(Select({"v_process"}, {}, {}), Nothing) EXCEPT !.cte = "v_process"]}

OtherAmounts == {Shows(Column({op}, "awarded_amount", "amount")) : op \in {"round", "mod", "neg"}}

HiddenWinners == {[Winners EXCEPT !.offset = 1]}

OtherCurrency == Total(FALSE, Currency \ {Crc}, 1)

LooseSql == OtherCountries \cup OtherAmounts \cup HiddenWinners \cup {OtherCurrency}

PlainSql == DatedSql \cup TotalSql \cup BrokenSql \cup AllowedSql

MCSql == PlainSql \cup LooseSql

ASSUME PlainIsPlain ==
  /\ \A s \in MCSql : MoneyKeepsItsName(s)
  /\ \A s \in DatedSql \cup TotalSql \cup AllowedSql :
       CountriesStandAlone(s) /\ ~HidesAView(s) /\ OperatesAsNamed(s) /\ s.offset = 0

ASSUME LooseIsLetThrough ==
  /\ \A s \in LooseSql \ (HiddenWinners \cup {OtherCurrency}) :
       Validate(s, FollowUp, {Cr}) = "valid"
  /\ \A s \in HiddenWinners : Validate(s, Topping({}), {Cr}) = "valid"
  /\ Validate(OtherCurrency, Topping({Crc}), {Cr}) = "valid"
  /\ \A s \in OtherCountries : \E view \in CountryScopedViews :
       Reads(s, view, [country |-> CHOOSE c \in Country : c # Cr,
                       column |-> "award_date", date |-> 0])
  /\ \A s \in OtherAmounts : ~ShowsStoredMoney(s)

(* SELECT sum(m) AS total FROM (SELECT awarded_amount AS m ...) t          *)
RenamingSql ==
  {Statement(Select(Both, {Column({}, "awarded_amount", as)}, {InCountry(cs)}),
             Select({}, {Column(ops, as, "total")}, {})) :
     cs \in (SUBSET Country) \ {{}}, as \in {"awarded_amount", "m"}, ops \in {{}, {"sum"}}}
=============================================================================
