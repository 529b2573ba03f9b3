---------------------------- MODULE QueryStream ----------------------------
(***************************************************************************)
(* POST /query/stream (main.py:_stream_query_events): a task of its own    *)
(* runs the query and puts its events into an unbounded queue; the         *)
(* response's generator takes them out one at a time and sends them.  The  *)
(* end of the task, however it ends, is the sentinel that ends the stream. *)
(*                                                                         *)
(* The queue is the part of events not taken yet.  A client that leaves    *)
(* while the generator waits on the queue has the run cancelled: the       *)
(* cancellation of the response reaches it through  await task.  One that  *)
(* leaves while an event is being sent does not: the generator stays where *)
(* it is until it is finalised, and then only awaits the task.             *)
(***************************************************************************)
EXTENDS RunQuery

VARIABLES
  taken,     \* how many events the generator has taken from the queue
  reader     \* where the generator is

streamVars == <<vars, taken, reader>>

StreamInit ==
  /\ Init
  /\ taken = [q \in Query |-> 0]
  /\ reader = [q \in Query |-> "get"]

ToReader(q, l) == reader' = [reader EXCEPT ![q] = l]

(* A slip: the sentinel is put after a run that answered, not in finally.  *)
SentinelOnSuccess(q) == pc[q] = "returned" /\ outcome[q] \in Answered

(* runner() has put the sentinel.                                          *)
Sentinel(q) == pc[q] \in {"returned", "cancelled"}

(* A slip: the next event is assumed to be there.                          *)
TakeUnseen(q) ==
  /\ reader[q] = "get"
  /\ taken' = [taken EXCEPT ![q] = @ + 1]
  /\ ToReader(q, "send")
  /\ UNCHANGED vars

(* await queue.get() has an event.                                         *)
Take(q) ==
  /\ reader[q] = "get"
  /\ taken[q] < Len(events[q])
  /\ taken' = [taken EXCEPT ![q] = @ + 1]
  /\ ToReader(q, "send")
  /\ UNCHANGED vars

(* yield _format_sse(...): the client got it.                              *)
Send(q) ==
  /\ reader[q] = "send"
  /\ ToReader(q, "get")
  /\ UNCHANGED <<vars, taken>>

(* A slip: the generator looks at the task and not at the queue.           *)
CloseWhenTaskEnds(q) ==
  /\ reader[q] = "get"
  /\ Sentinel(q)
  /\ ToReader(q, "closed")
  /\ UNCHANGED <<vars, taken>>

(* The sentinel comes out after everything put before it.                  *)
Close(q) ==
  /\ reader[q] = "get"
  /\ Sentinel(q)
  /\ taken[q] = Len(events[q])
  /\ ToReader(q, "closed")
  /\ UNCHANGED <<vars, taken>>

(* The client disconnects.                                                 *)
Leave(q) ==
  /\ \/ reader[q] = "get" /\ ToReader(q, "cancelling")
     \/ reader[q] = "send" /\ ToReader(q, "dropped")
  /\ UNCHANGED <<vars, taken>>

(* finally: await task, cancelled again: the run is.                       *)
CancelRun(q) ==
  /\ reader[q] = "cancelling"
  /\ Cancel(q)
  /\ ToReader(q, "gone")
  /\ UNCHANGED taken

(* A slip: the queue is bounded, and a run waits for a place in it.        *)
ServeWithRoom(q) ==
  /\ Len(events[q]) < taken[q] + 4
  /\ Start(q) \/ RunStep(q) \/ AuditCommits(q) \/ AuditEndsAlone(q)
  /\ UNCHANGED <<taken, reader>>

(* The service's own steps never look at the reader.                       *)
Serve(q) ==
  /\ Start(q) \/ RunStep(q) \/ AuditCommits(q) \/ AuditEndsAlone(q)
  /\ UNCHANGED <<taken, reader>>

StreamNext ==
  \/ \E q \in Query :
       Serve(q) \/ Take(q) \/ Send(q) \/ Close(q) \/ Leave(q) \/ CancelRun(q)
  \/ NewDay /\ UNCHANGED <<taken, reader>>

(* The awaits of a run end whatever the client does; nothing is asked of   *)
(* the client.                                                             *)
RunFairness ==
  \A q \in Query : WF_streamVars((RunStep(q) \/ AuditEndsAlone(q)) /\ Serve(q))

StreamSpec == StreamInit /\ [][StreamNext]_streamVars /\ RunFairness

(* A client that stays reads what it is sent.                              *)
ClientReads ==
  \A q \in Query : WF_streamVars(Take(q)) /\ WF_streamVars(Send(q)) /\ WF_streamVars(Close(q))
-----------------------------------------------------------------------------
Left(q) == reader[q] \in {"cancelling", "gone", "dropped"}

(* The run is well formed in the company of its reader, and the reader never *)
(* ahead of the run.                                                       *)
StreamTypeOK ==
  /\ TypeOK
  /\ reader \in [Query -> {"get", "send", "closed", "cancelling", "gone", "dropped"}]
  /\ \A q \in Query : taken[q] \in 0..Len(events[q])

(* A stream that ends by itself has delivered everything, done last: the   *)
(* sentinel never overtakes an event, and only a client that left misses   *)
(* the end.                                                                *)
StreamEndsWithDone ==
  \A q \in Query : reader[q] = "closed" =>
    /\ taken[q] = Len(events[q])
    /\ LastEvent(q) = [event |-> "done", outcome |-> outcome[q]]

(* "nunca bloquea al pipeline por un consumidor lento" (StreamCallback): a *)
(* run ends even if its client never takes an event.                       *)
SlowClientsHoldNothing ==
  \A q \in Query : pc[q] = "budget" ~> pc[q] \in {"returned", "cancelled"}

(* Whoever stays and reads sees the stream end.                            *)
PatientClientsAreServed ==
  ClientReads =>
    \A q \in Query : pc[q] = "budget" ~> (reader[q] = "closed" \/ Left(q))

(* "Una desconexion del usuario no cancela la escritura" (_persist_audit): *)
(* an audit that has begun ends in the log or in an error of its own, also *)
(* when its run is cancelled.                                              *)
AuditOutlivesTheClient ==
  \A q \in Query : reply[q] = "pending" ~> reply[q] \in {"written", "failed"}
=============================================================================
