-------------------------- MODULE MCZeroDiagnosis --------------------------
(* Queries over processes, with and without a text searched for in one or  *)
(* two columns, over processes and awards, over a dated and an undated     *)
(* entity, over an undated one alone and over none of them; with every     *)
(* filter where the period matters, and up to two year numbers.            *)
EXTENDS ZeroDiagnosis

MCDate == 2024..2025

UpToTwo == UNION {[1..n -> MCDate] : n \in 0..2}

MCFilter ==
  LET Bound == MCDate \cup {Null} IN
  {f \in [low : Bound, high : Bound, open : BOOLEAN, asDates : BOOLEAN, numbers : UpToTwo] :
    /\ f \in Filter
    /\ f.asDates => f.numbers = <<>>}

NoFilter ==
  [low |-> Null, high |-> Null, open |-> FALSE, asDates |-> TRUE, numbers |-> <<>>]

(* A text is searched for beside a period or beside none.                  *)
MCAsked ==
  {q \in [countries : (SUBSET Country) \ {{}},
          entities : {{}, {"procesos"}, {"procesos", "adjudicaciones"},
                      {"procesos", "proveedores"}, {"compradores"}},
          filter : MCFilter, predicates : SUBSET (Column \X Term)] :
    /\ {"procesos"} # q.entities => q.predicates = {}
    /\ "procesos" \notin q.entities => q.filter = NoFilter
    /\ Cardinality(q.predicates) = 2 => q.filter = NoFilter}
=============================================================================
