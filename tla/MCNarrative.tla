---------------------------- MODULE MCNarrative ----------------------------
(* Numbers of one to three groups under every separator and suffix, with   *)
(* one to four digits first, and a text with a plain one of them, alone or *)
(* next to the number of rows or to a number that is misread.  The first   *)
(* result has amounts that only thousands or millions tell apart; the      *)
(* second, decimals.                                                       *)
EXTENDS VerifiedNarrative

Digits(n, v) == [n |-> n, v |-> v]

First == {Digits(1, 1), Digits(2, 12), Digits(4, 1500), Digits(1, 0)}
Further == {Digits(3, 500), Digits(1, 5), Digits(2, 25)}

Literal ==
  UNION {[glued : BOOLEAN,
          groups : {<<g>> \o h : g \in First, h \in [1..n -> Further]},
          seps : [1..n -> Separator],
          suffix : Suffix] : n \in 0..2}

One == [glued |-> FALSE, groups |-> <<Digits(1, 1)>>, seps |-> <<>>, suffix |-> "none"]

Misread == [One EXCEPT !.groups = <<Digits(2, 12)>>, !.suffix = "milWord"]

MCWording ==
  {{}} \cup UNION {{{l}, {l, One}, {l, Misread}} : l \in {k \in Literal : Plain(k)}}

MCResult ==
  [q \in Query |->
     IF q = "amounts"
     THEN [cells |-> {1500500, 1500000000}, digits |-> {12000, 2025000}, rows |-> 1000]
     ELSE [cells |-> {12246, 1500}, digits |-> {}, rows |-> 12000]]

(* Why only plain numbers are spoken of: "12 miligramos" is read as 12000, *)
(* so it is objected to where a cell says 12 and let through where one     *)
(* says 12000.                                                             *)
ASSUME LongerWordsAreMisread ==
  LET Cell(v) == [cells |-> {v}, digits |-> {}, rows |-> 1000]
  IN  /\ ~Plain(Misread)
      /\ FindUnverified({Misread}, Cell(12000)) = {Misread}
      /\ FindUnverified({Misread}, Cell(12000000)) = {}
      /\ \A v \in Meanings(Misread) :
           InResult(v, Cell(12000)) /\ ~InResult(v, Cell(12000000))
=============================================================================
