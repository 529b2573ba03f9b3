----------------------------- MODULE Narrative -----------------------------
(***************************************************************************)
(* nlq/narrative.py:generate_narrative.  The rows are already with the     *)
(* user; what is decided here is the sentence that goes with them.  An     *)
(* empty result, or one with a coverage explanation, is explained without  *)
(* the model, and so is a list of leaders by currency.  Otherwise the      *)
(* model writes, and a text with a number that the result does not back is *)
(* sent back to it, at most MaxAttempts texts in all; whatever goes wrong, *)
(* a fixed template takes its place.                                       *)
(*                                                                         *)
(* Of a text only its origin and the numbers it states are kept.           *)
(***************************************************************************)
EXTENDS Integers

CONSTANTS
  Query,         \* requests, each with one narrative
  MaxAttempts,   \* max_attempts
  Wording,       \* texts the model may write, each the set of numbers it states
  Backed         \* [Query -> the numbers find_unverified_numbers lets through]

(* For the modules that use this one to assume.                            *)
NarrativeParameters == MaxAttempts \in Nat \ {0}

Figure == UNION Wording

VARIABLE
  nar      \* the local state of each call

vars == <<nar>>

(* What generate_narrative is told of the result.                          *)
Facts == [zero : BOOLEAN, reason : BOOLEAN, leaders : BOOLEAN, truncated : BOOLEAN]

Text == [from : {"none", "template", "reason", "leaders", "model"},
         numbers : SUBSET Figure]

NoText == [from |-> "none", numbers |-> {}]

Template == [from |-> "template", numbers |-> {}]

Init ==
  nar = [q \in Query |->
           [status |-> "idle", attempt |-> 1, usage |-> 0, text |-> NoText,
            verified |-> FALSE, unverified |-> {}]]

Return(q, text, verified, unverified, completions) ==
  nar' = [nar EXCEPT ![q].status = "returned", ![q].text = text,
                     ![q].verified = verified, ![q].unverified = unverified,
                     ![q].usage = @ + completions]

(* The result explains itself: no call to the model.                       *)
BeginExplained(q, f) ==
  /\ nar[q].status = "idle"
  /\ f.zero \/ f.reason
  /\ Return(q, IF f.reason THEN [from |-> "reason", numbers |-> {}] ELSE Template,
            TRUE, {}, 0)

(* _currency_leaders_summary has one row per currency to tell.             *)
BeginLeaders(q, f) ==
  /\ nar[q].status = "idle"
  /\ ~f.zero /\ ~f.reason
  /\ f.leaders /\ ~f.truncated
  /\ Return(q, [from |-> "leaders", numbers |-> {}], TRUE, {}, 0)

BeginWriting(q, f) ==
  /\ nar[q].status = "idle"
  /\ ~f.zero /\ ~f.reason
  /\ ~(f.leaders /\ ~f.truncated)
  /\ nar' = [nar EXCEPT ![q].status = "writing"]

Begin(q, f) == BeginExplained(q, f) \/ BeginLeaders(q, f) \/ BeginWriting(q, f)

Writing(q) == nar[q].status = "writing"

FindUnverified(q, numbers) == numbers \ Backed[q]

TextPasses(q, numbers) ==
  /\ Writing(q)
  /\ FindUnverified(q, numbers) = {}
  /\ Return(q, [from |-> "model", numbers |-> numbers], TRUE, {}, 1)

(* The numbers that cannot be backed go back to the model; the last time   *)
(* the template is served and they are reported.                           *)
TextFails(q, numbers) ==
  /\ Writing(q)
  /\ FindUnverified(q, numbers) # {}
  /\ IF nar[q].attempt = MaxAttempts
     THEN Return(q, Template, FALSE, FindUnverified(q, numbers), 1)
     ELSE nar' = [nar EXCEPT ![q].attempt = @ + 1, ![q].usage = @ + 1]

(* A slip: an empty text has no number to object to.                       *)
TextEmptyPasses(q) == Writing(q) /\ Return(q, NoText, TRUE, {}, 1)

(* A blank text has no number to object to, and is not served.             *)
TextEmpty(q) == Writing(q) /\ Return(q, Template, FALSE, {}, 1)

ModelFails(q) == Writing(q) /\ Return(q, Template, FALSE, {}, 0)

(* Anything else that is raised goes through to the pipeline.              *)
Crash(q) == Writing(q) /\ nar' = [nar EXCEPT ![q].status = "crashed"]

(* The task is cancelled while it waits for the model.                     *)
Abandon(q) == Writing(q) /\ nar' = [nar EXCEPT ![q].status = "abandoned"]

Reply(q) ==
  \/ Writing(q) /\ \E numbers \in Wording : TextPasses(q, numbers) \/ TextFails(q, numbers)
  \/ TextEmpty(q)
  \/ ModelFails(q)
  \/ Crash(q)

Next ==
  \E q \in Query :
    \/ \E f \in Facts : Begin(q, f)
    \/ Reply(q)
    \/ Abandon(q)

Spec == Init /\ [][Next]_vars
-----------------------------------------------------------------------------
Returned(q) == nar[q].status = "returned"

TypeOK ==
  nar \in [Query -> [status : {"idle", "writing", "returned", "crashed", "abandoned"},
                     attempt : 1..MaxAttempts, usage : 0..MaxAttempts, text : Text,
                     verified : BOOLEAN, unverified : SUBSET Figure]]

(* narrative_verified tells the truth: only the template can be            *)
(* unverified, numbers are objected to only then, and there always is a    *)
(* text.                                                                   *)
VerifiedTellsTheText ==
  \A q \in Query : Returned(q) =>
    /\ nar[q].text.from # "none"
    /\ ~nar[q].verified => nar[q].text.from = "template"
    /\ nar[q].unverified # {} => ~nar[q].verified
=============================================================================
