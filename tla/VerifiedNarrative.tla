------------------------- MODULE VerifiedNarrative -------------------------
(***************************************************************************)
(* The narrative with the verification of its numbers: what                *)
(* find_unverified_numbers says of each text is what generate_narrative    *)
(* acts on.  Each request has a result of its own.                         *)
(***************************************************************************)
EXTENDS NumberVerification

CONSTANTS
  Query,         \* requests
  MaxAttempts,   \* max_attempts
  Wording,       \* texts the model may write, each the numbers in it
  Result         \* [Query -> the result it narrates]

ASSUME VerifiedNarrativeAssumption ==
  /\ \A q \in Query : ResultOK(Result[q])
  /\ \A numbers \in Wording : \A l \in numbers : LiteralOK(l)

VARIABLE nar

NotObjectedTo ==
  [q \in Query |-> {l \in UNION Wording : FindUnverified({l}, Result[q]) = {}}]

Nar == INSTANCE Narrative WITH Backed <- NotObjectedTo

ASSUME NarrativeAssumption == Nar!NarrativeParameters

Spec == Nar!Spec
-----------------------------------------------------------------------------
(* The numbers that mean a value of the result in one of the ways numbers  *)
(* are written, and those that do in every way.                            *)
MayBeBacked ==
  [q \in Query |-> {l \in UNION Wording : \E v \in Meanings(l) : InResult(v, Result[q])}]

SurelyBacked ==
  [q \in Query |->
     {l \in UNION Wording : \A v \in Meanings(l) : PlainlyInResult(v, Result[q])}]

(* "Todo numero proviene de SQL ejecutado" (main.py): every number of the  *)
(* text a user is served that is written plainly means a value of the      *)
(* result, whatever other numbers stand beside it.                         *)
NoInventedNumber ==
  \A q \in Query : {l \in nar[q].text.numbers : Plain(l)} \subseteq MayBeBacked[q]

(* A text is not thrown away for a plainly written number that is in the   *)
(* result, rounded or not, however it is read.                             *)
NoFalseAlarm ==
  \A q \in Query : {l \in nar[q].unverified : Plain(l)} \cap SurelyBacked[q] = {}

(* narrative_verified tells the truth: only the template can be            *)
(* unverified, numbers are objected to only then, and there always is a    *)
(* text.                                                                   *)
VerifiedTellsTheText == Nar!VerifiedTellsTheText
=============================================================================
