------------------------------ MODULE AuditLog ------------------------------
(***************************************************************************)
(* What the audit promises the pipeline (write_audit_log, _persist_audit): *)
(* the record of a request, parent row and attempts together, is in the    *)
(* log whole or not at all, at most once whatever is retried, and for good *)
(* once the caller has been told so.  A caller that is told the write      *)
(* failed learns nothing about the log: a COMMIT whose answer was lost may *)
(* still take effect.                                                      *)
(***************************************************************************)
CONSTANTS
  Query,     \* requests, each with its query_id
  Entry,     \* what a request may leave in the log
  NoEntry    \* nothing in the log

VARIABLES
  entry,     \* what each request asked to record
  log,       \* analytics.query_log with its query_attempt rows, by query_id
  reply      \* what the caller knows

vars == <<entry, log, reply>>

Init ==
  /\ entry = [q \in Query |-> NoEntry]
  /\ log = [q \in Query |-> NoEntry]
  /\ reply = [q \in Query |-> "idle"]

Submit(q, e) ==
  /\ reply[q] = "idle"
  /\ entry' = [entry EXCEPT ![q] = e]
  /\ reply' = [reply EXCEPT ![q] = "pending"]
  /\ UNCHANGED log

(* The transaction takes effect.  The caller may have given up by then.    *)
Record(q) ==
  /\ reply[q] # "idle"
  /\ log[q] = NoEntry
  /\ log' = [log EXCEPT ![q] = entry[q]]
  /\ UNCHANGED <<entry, reply>>

Answer(q, r) ==
  /\ reply[q] = "pending"
  /\ reply' = [reply EXCEPT ![q] = r]
  /\ UNCHANGED <<entry, log>>

Acknowledge(q) == log[q] # NoEntry /\ Answer(q, "written")

GiveUp(q) == Answer(q, "failed")

(* The process dies with the write under way.                              *)
Kill(q) == Answer(q, "killed")

Next ==
  \E q \in Query :
    \/ \E e \in Entry : Submit(q, e)
    \/ Record(q)
    \/ Acknowledge(q)
    \/ GiveUp(q)
    \/ Kill(q)

Fairness == \A q \in Query : WF_vars(Acknowledge(q) \/ GiveUp(q))

Spec == Init /\ [][Next]_vars /\ Fairness
-----------------------------------------------------------------------------
(* Shape of the state; the invariants below say what matters of it.        *)
TypeOK ==
  /\ entry \in [Query -> Entry \cup {NoEntry}]
  /\ log \in [Query -> Entry \cup {NoEntry}]
  /\ reply \in [Query -> {"idle", "pending", "written", "failed", "killed"}]

(* The log never holds anything but what the request asked to record, and  *)
(* an acknowledged record is there.                                        *)
LogIsHonest ==
  \A q \in Query :
    /\ log[q] \in {NoEntry, entry[q]}
    /\ reply[q] = "written" => log[q] = entry[q]

(* Once recorded, an entry is neither replaced nor removed.                *)
LogIsFinal == [][\A q \in Query : log[q] # NoEntry => log'[q] = log[q]]_vars
=============================================================================
