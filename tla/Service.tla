------------------------------ MODULE Service ------------------------------
(***************************************************************************)
(* The life of the process and the requests that share its connections.    *)
(* main.lifespan opens the three pools (db/pool.py) and loads the          *)
(* dictionary; on SIGTERM uvicorn stops accepting and waits, without limit *)
(* (no --timeout-graceful-shutdown), for the responses that are open; then *)
(* the lifespan waits for the audits it finds at work before it closes the *)
(* pools.                                                                  *)
(*                                                                         *)
(* A client that disconnects from a stream has its run cancelled, unless   *)
(* an event was just being sent to it: then the generator is dropped where *)
(* it is, nobody is told, and the run goes on unknown to uvicorn.          *)
(*                                                                         *)
(* A request is known by the connections it asks for, one at a time        *)
(* (db/executor.py, db/log_executor.py: `async with pool.connection()`);   *)
(* what it does between them, the calls to the model included, is a step.  *)
(* A pool of psycopg_pool hands connections out in the order they were     *)
(* asked for, refuses a waiter beyond max_waiting and times the others     *)
(* out; growing, reconnecting and recycling are within Grant.              *)
(*                                                                         *)
(* The formulas of the specification bear the name of the component, so    *)
(* that it may stand beside RateLimiter.                                   *)
(***************************************************************************)
EXTENDS Naturals, Sequences, FiniteSets, SequencesExt

CONSTANTS
  Job,         \* requests
  MaxSize,     \* [Pool -> connections]
  MaxWaiting   \* [Pool -> waiters]; psycopg_pool takes 0 for no limit

Pool == {"read", "log", "web"}

ASSUME ServiceAssumption ==
  MaxSize \in [Pool -> Nat \ {0}] /\ MaxWaiting \in [Pool -> Nat \ {0}]

VARIABLES
  phase,    \* of the process
  open,     \* [Pool -> BOOLEAN]
  queue,    \* [Pool -> Seq(Job)]: who waits for a connection
  held,     \* [Pool -> SUBSET Job]: who has one
  job,      \* [Job -> what it asks for still, and where its client is]
  awaited   \* the audits wait_for_audit_tasks found at work

serviceVars == <<phase, open, queue, held, job, awaited>>

(* What each endpoint asks for: POST /query reads the budgets, runs the    *)
(* SQL, charges, and ends with its audit; the catalogue of procedures and  *)
(* the entities read; GET /coverage has a pool of its own.                 *)
Route == {<<"log", "read", "log", "audit">>, <<"read">>, <<"web">>}

PoolOf(use) == IF use = "audit" THEN "log" ELSE use

(* A client that is connected has a response uvicorn waits for.  One that  *)
(* left has had it, or had its run cancelled; a dropped run goes on.       *)
Absent == [uses |-> <<>>, at |-> "absent", tries |-> 0, client |-> "connected"]

Ended(r) == [uses |-> <<>>, at |-> "done", tries |-> 0,
             client |-> IF r.client = "connected" THEN "connected" ELSE "left"]

(* Cancelled, or ended with the process.                                   *)
Over == [uses |-> <<>>, at |-> "done", tries |-> 0, client |-> "left"]

Auditing(r) == r.uses # <<>> /\ Head(r.uses) = "audit" /\ r.at # "done"

ServiceInit ==
  /\ phase = "starting"
  /\ open = [p \in Pool |-> FALSE]
  /\ queue = [p \in Pool |-> <<>>]
  /\ held = [p \in Pool |-> {}]
  /\ job = [j \in Job |-> Absent]
  /\ awaited = {}

Running == phase \notin {"stopped", "killed"}

(* The queue after j has left it, if it was there.                         *)
Without(q, j) ==
  IF j \in ToSet(q) THEN RemoveAt(q, CHOOSE i \in DOMAIN q : q[i] = j) ELSE q

(* A slip: the audit is tried again for as long as it fails.               *)
FailedForEver(r) ==
  IF Auditing(r) THEN [r EXCEPT !.at = "working"]
  ELSE IF "audit" \in ToSet(r.uses)
       THEN [r EXCEPT !.uses = <<"audit">>, !.at = "working"]
       ELSE Ended(r)

(* After an error of the database or of the pool: the audit is tried three *)
(* times, a query goes to its audit, any other request answers 5xx.        *)
Failed(r) ==
  IF Auditing(r)
  THEN IF r.tries < 2 THEN [r EXCEPT !.tries = @ + 1, !.at = "working"] ELSE Ended(r)
  ELSE IF "audit" \in ToSet(r.uses)
       THEN [r EXCEPT !.uses = <<"audit">>, !.at = "working"]
       ELSE Ended(r)

Succeeded(r) ==
  IF Len(r.uses) = 1 THEN Ended(r)
  ELSE [r EXCEPT !.uses = Tail(@), !.at = "working"]

(* The pools, and the dictionary, read once.                               *)
Startup ==
  /\ phase = "starting"
  /\ open' = [p \in Pool |-> TRUE]
  /\ phase' \in {"serving", "drained"}
  /\ UNCHANGED <<queue, held, job, awaited>>

Arrive(j) ==
  /\ phase = "serving" /\ job[j].at = "absent"
  /\ \E uses \in Route : job' = [job EXCEPT ![j] = [@ EXCEPT !.uses = uses, !.at = "working"]]
  /\ UNCHANGED <<phase, open, queue, held, awaited>>

Ask(j) ==
  /\ Running /\ job[j].at = "working"
  /\ LET p == PoolOf(Head(job[j].uses)) IN
       IF open[p] /\ Len(queue[p]) < MaxWaiting[p]
       THEN /\ queue' = [queue EXCEPT ![p] = Append(@, j)]
            /\ job' = [job EXCEPT ![j].at = "waiting"]
       ELSE /\ job' = [job EXCEPT ![j] = Failed(@)]
            /\ UNCHANGED queue
  /\ UNCHANGED <<phase, open, held, awaited>>

Grant(p) ==
  /\ Running /\ open[p]
  /\ queue[p] # <<>> /\ Cardinality(held[p]) < MaxSize[p]
  /\ held' = [held EXCEPT ![p] = @ \cup {Head(queue[p])}]
  /\ queue' = [queue EXCEPT ![p] = Tail(@)]
  /\ job' = [job EXCEPT ![Head(queue[p])].at = "holding"]
  /\ UNCHANGED <<phase, open, awaited>>

(* pool_timeout_s.                                                         *)
TimeOut(j) ==
  /\ Running /\ job[j].at = "waiting"
  /\ queue' = [p \in Pool |-> Without(queue[p], j)]
  /\ job' = [job EXCEPT ![j] = Failed(@)]
  /\ UNCHANGED <<phase, open, held, awaited>>

Release(j) == held' = [p \in Pool |-> held[p] \ {j}]

(* The statement ends, by itself or by its statement_timeout; an error     *)
(* that is not transient ends an audit.                                    *)
Use(j) ==
  /\ Running /\ job[j].at = "holding"
  /\ Release(j)
  /\ \/ job' = [job EXCEPT ![j] = Succeeded(@)]
     \/ job' = [job EXCEPT ![j] = Failed(@)]
     \/ Auditing(job[j]) /\ job' = [job EXCEPT ![j] = Ended(@)]
  /\ UNCHANGED <<phase, open, queue, awaited>>

(* A slip: the connection of a cancelled run stays with it.                *)
LeaveHolding(j) ==
  /\ Running /\ job[j].client = "connected" /\ "audit" \in ToSet(job[j].uses)
  /\ IF Auditing(job[j])
     THEN job' = [job EXCEPT ![j].client = "left"] /\ UNCHANGED <<queue, held>>
     ELSE /\ job' = [job EXCEPT ![j] = Over]
          /\ queue' = [p \in Pool |-> Without(queue[p], j)]
          /\ UNCHANGED held
  /\ UNCHANGED <<phase, open, awaited>>

(* The client of a stream disconnects: the run is cancelled, the audit it  *)
(* may have begun is shielded and goes on alone.                           *)
Leave(j) ==
  /\ Running /\ job[j].client = "connected" /\ "audit" \in ToSet(job[j].uses)
  /\ IF Auditing(job[j])
     THEN job' = [job EXCEPT ![j].client = "left"] /\ UNCHANGED <<queue, held>>
     ELSE /\ job' = [job EXCEPT ![j] = Over]
          /\ queue' = [p \in Pool |-> Without(queue[p], j)]
          /\ Release(j)
  /\ UNCHANGED <<phase, open, awaited>>

(* It disconnects while an event is being sent: nothing reaches the run.   *)
Drop(j) ==
  /\ Running /\ job[j].client = "connected" /\ "audit" \in ToSet(job[j].uses)
  /\ job' = [job EXCEPT ![j].client = "dropped"]
  /\ UNCHANGED <<phase, open, queue, held, awaited>>

(* The work is done and the response open: its client has yet to read it.  *)
Unread(j) == job[j].at = "done" /\ job[j].client = "connected"

(* The client has read the response, or closed the connection.             *)
Deliver(j) ==
  /\ Running /\ Unread(j)
  /\ job' = [job EXCEPT ![j].client = "left"]
  /\ UNCHANGED <<phase, open, queue, held, awaited>>

(* SIGTERM: uvicorn stops accepting and waits for the requests it serves.  *)
Terminate ==
  /\ phase = "serving"
  /\ phase' = "draining"
  /\ UNCHANGED <<open, queue, held, job, awaited>>

Drained ==
  /\ phase = "draining"
  /\ \A j \in Job : job[j].client = "connected" => job[j].at = "absent"
  /\ phase' = "drained"
  /\ UNCHANGED <<open, queue, held, job, awaited>>

(* A slip: the audits left behind are not waited for.                      *)
FindNoAuditTasks ==
  /\ phase = "drained"
  /\ phase' = "auditing"
  /\ UNCHANGED <<open, queue, held, job, awaited>>

(* The tasks that are in _audit_tasks at this moment, and no later ones.   *)
FindAuditTasks ==
  /\ phase = "drained"
  /\ phase' = "auditing"
  /\ awaited' = {j \in Job : Auditing(job[j])}
  /\ UNCHANGED <<open, queue, held, job>>

WaitForAuditTasks ==
  /\ phase = "auditing"
  /\ \A j \in awaited : ~Auditing(job[j])
  /\ phase' = "closing"
  /\ UNCHANGED <<open, queue, held, job, awaited>>

(* pool.close: who waits gets PoolClosed, the connections out close when   *)
(* they come back.                                                         *)
ClosePool(p) ==
  /\ phase = "closing" /\ open[p]
  /\ p = "log" => ~open["read"]
  /\ p = "web" => ~open["log"]
  /\ open' = [open EXCEPT ![p] = FALSE]
  /\ job' = [j \in Job |-> IF j \in ToSet(queue[p]) THEN Failed(job[j]) ELSE job[j]]
  /\ queue' = [queue EXCEPT ![p] = <<>>]
  /\ UNCHANGED <<phase, held, awaited>>

(* Nothing outlives the process.                                           *)
EndAll ==
  /\ open' = [p \in Pool |-> FALSE]
  /\ queue' = [p \in Pool |-> <<>>]
  /\ held' = [p \in Pool |-> {}]
  /\ job' = [j \in Job |-> Over]
  /\ UNCHANGED awaited

(* The lifespan is over; what is left of dropped runs ends with the loop.  *)
Exit ==
  /\ phase = "closing" /\ ~open["web"]
  /\ phase' = "stopped"
  /\ EndAll

(* SIGKILL, stop_grace_period after a SIGTERM or at any time.              *)
Kill ==
  /\ Running
  /\ phase' = "killed"
  /\ EndAll

ServiceNext ==
  \/ Startup \/ Terminate \/ Drained \/ FindAuditTasks \/ WaitForAuditTasks
  \/ Exit \/ Kill
  \/ \E p \in Pool : Grant(p) \/ ClosePool(p)
  \/ \E j \in Job : Arrive(j) \/ Ask(j) \/ TimeOut(j) \/ Use(j)
                   \/ Leave(j) \/ Drop(j) \/ Deliver(j)

(* The event loop runs what is ready; statement_timeout ends what the      *)
(* database does and pool_timeout_s what waits.  Nobody has to arrive,     *)
(* leave, read its response or stop the process.                           *)
Fairness ==
  /\ WF_serviceVars(Startup) /\ WF_serviceVars(Drained) /\ WF_serviceVars(Exit)
  /\ WF_serviceVars(FindAuditTasks) /\ WF_serviceVars(WaitForAuditTasks)
  /\ \A p \in Pool : WF_serviceVars(Grant(p)) /\ WF_serviceVars(ClosePool(p))
  /\ \A j \in Job : WF_serviceVars(Ask(j)) /\ WF_serviceVars(Use(j)) /\ WF_serviceVars(TimeOut(j))

ServiceSpec == ServiceInit /\ [][ServiceNext]_serviceVars /\ Fairness
-----------------------------------------------------------------------------
(* An audit that began is not refused by a pool the shutdown closed,       *)
(* though its request was cancelled and uvicorn no longer knows of it      *)
(* ("las tareas pendientes se esperan tambien al apagar", pipeline.py):    *)
(* only that of a dropped run can be, and only if it began after the one   *)
(* look wait_for_audit_tasks takes.                                        *)
AuditsEndBeforeThePool ==
  phase = "closing" =>
    \A j \in Job : Auditing(job[j]) => job[j].client = "dropped" /\ j \notin awaited

(* Cancelled, timed out or failed, a request gives its connection and its  *)
(* place in the queue back; a pool never hands out more than it has.       *)
ConnectionsReturn ==
  \A p \in Pool :
    /\ Cardinality(held[p]) <= MaxSize[p]
    /\ Len(queue[p]) <= MaxWaiting[p] /\ IsInjective(queue[p])
    /\ \A j \in held[p] : job[j].at = "holding" /\ PoolOf(Head(job[j].uses)) = p
    /\ \A j \in ToSet(queue[p]) : job[j].at = "waiting" /\ PoolOf(Head(job[j].uses)) = p

(* Every request comes to an end, audit included, whatever the others hold *)
(* and whatever its client does; and a SIGTERM ends the process, unless a  *)
(* client leaves a response unread for ever: the requests drain, the       *)
(* audits end by themselves and the pools close.                           *)
EverythingEnds ==
  /\ \A j \in Job : job[j].at = "working" ~> job[j].at = "done"
  /\ (\A j \in Job : []<>~Unread(j)) => (phase = "draining" ~> ~Running)
=============================================================================
