------------------------------- MODULE Outbox -------------------------------
(***************************************************************************)
(* The durable webhook outbox: publishers record events and their          *)
(* recipients in one SQLite transaction (EventService, SqliteEventLog-     *)
(* Repository), one worker sends them (EventService._run), HTTP clients    *)
(* create and delete endpoints meanwhile, and the process may stop or      *)
(* crash and start again on the same database.                             *)
(*                                                                         *)
(* Events are numbered as they are committed and endpoints as they are     *)
(* created, so deliveries.id orders rows by event, then by endpoint.  An   *)
(* action is the code between two awaits; a SQLite call commits at one     *)
(* step and its caller goes on at another.  The alarm projection of        *)
(* record() is not part of this module.                                    *)
(***************************************************************************)
EXTENDS Integers, Sequences, FiniteSets

CONSTANTS NE,           \* endpoints 1..NE, in order of creation
          NV,           \* bound: events 1..NV, in order of recording
          Kinds,        \* event types
          Filters,      \* the event_types of the requests for an endpoint
          Publishers,   \* tasks inside InProcessEventPublisher.publish
          Stoppable,    \* those of them a scenario stop may cancel
          Limit,        \* pending_deliveries(limit=4)
          MaxAttempts,  \* five in the code
          MaxFaults,    \* bound: SQLite failures
          MaxCrashes    \* bound: crashes and cancelled workers

Endpoints == 1..NE
Events == 1..NV
Rows == Events \X Endpoints

ASSUME OutboxAssumption ==
  /\ NE \in Nat /\ NV \in Nat
  /\ Filters \subseteq SUBSET Kinds
  /\ Stoppable \subseteq Publishers
  /\ Limit \in Nat \ {0}
  /\ MaxAttempts \in Nat \ {0}
  /\ MaxFaults \in Nat /\ MaxCrashes \in Nat

VARIABLES
  endpoint,  \* rows of endpoints: not created yet, live, or deleted
  filter,    \* endpoints.event_types
  count,     \* events recorded so far
  stored,    \* rows of events
  flag,      \* events.delivered
  row,       \* rows of deliveries
  pub,       \* where each publisher is in _handle_domain_event
  targets,   \* the recipients it read
  worker,    \* where EventService._run is
  busy,      \* its last query found something
  failed,    \* a _send of its batch raised
  flight,    \* the _send of each endpoint
  wake,      \* EventService._wake
  stopping,  \* EventService._stopping
  error,     \* EventService.error is not None
  tried,     \* history: the events posted to each endpoint, in order
  accepted,  \* history: the rows some post of which got a 2xx
  faults, crashes

endpoints == <<endpoint, filter>>
store == <<count, stored, flag, row>>
publishing == <<pub, targets>>
signals == <<wake, stopping, error>>
history == <<tried, accepted>>
bounds == <<faults, crashes>>
vars == <<endpoints, store, publishing, worker, busy, failed, flight, signals,
          history, bounds>>

NoRow == [state |-> "none", attempts |-> 0, due |-> FALSE]
NewRow == [state |-> "pending", attempts |-> 0, due |-> TRUE]
NoSend == [at |-> "none", event |-> 0, ok |-> FALSE]

Live == {ep \in Endpoints : endpoint[ep] = "live"}
Pending(e, ep) == row[<<e, ep>>].state = "pending"
NobodySends == \A ep \in Endpoints : flight[ep].at = "none"

\* HTTP requests, scenarios and telemetry run while the lifespan is up.
Serving == worker # "down" /\ ~stopping

\* Container.start clears old alarms, one publish after the other, and starts the
\* worker then.
Starting == worker \in {"down", "stopped"} /\ \A p \in Publishers : pub[p] = "idle"

UseFault == faults > 0 /\ faults' = faults - 1
UseCrash == crashes > 0 /\ crashes' = crashes - 1

-----------------------------------------------------------------------------
(* Endpoints: POST and DELETE /api/endpoints. *)

\* No event_types in the request means every type there is.
CreateEndpoint(ep, kinds) ==
  /\ Serving
  /\ endpoint[ep] = "new"
  /\ \A other \in 1..(ep - 1) : endpoint[other] # "new"
  /\ endpoint' = [endpoint EXCEPT ![ep] = "live"]
  /\ filter' = [filter EXCEPT ![ep] = IF kinds = {} THEN Kinds ELSE kinds]
  /\ UNCHANGED <<store, publishing, worker, busy, failed, flight, signals,
                 history, bounds>>

\* The rows go with it: deliveries REFERENCES endpoints ON DELETE CASCADE.
DeleteEndpoint(ep) ==
  /\ Serving
  /\ endpoint[ep] = "live"
  /\ endpoint' = [endpoint EXCEPT ![ep] = "deleted"]
  /\ row' = [r \in Rows |-> IF r[2] = ep THEN NoRow ELSE row[r]]
  /\ UNCHANGED <<filter, count, stored, flag, publishing, worker, busy, failed,
                 flight, signals, history, bounds>>

-----------------------------------------------------------------------------
(* _handle_domain_event: read the recipients, record, wake the worker. *)

Publishing == {p \in Publishers : pub[p] \in {"list", "record"}}

Publish(p) ==
  /\ Serving \/ Starting
  /\ pub[p] = "idle"
  /\ count + Cardinality(Publishing) < NV
  /\ pub' = [pub EXCEPT ![p] = "list"]
  /\ UNCHANGED <<endpoints, store, targets, worker, busy, failed, flight,
                 signals, history, bounds>>

\* The event has some type; empty event_types (kept from a migrated database)
\* select every type.
ListTargets(p) ==
  /\ pub[p] = "list"
  /\ \E kind \in Kinds :
       targets' = [targets EXCEPT ![p] =
                     {ep \in Live : filter[ep] = {} \/ kind \in filter[ep]}]
  /\ pub' = [pub EXCEPT ![p] = "record"]
  /\ UNCHANGED <<endpoints, store, worker, busy, failed, flight, signals,
                 history, bounds>>

\* Event and deliveries commit together, or nothing does: a recipient that is
\* gone by now breaks the foreign key and the error reaches the publisher.
Record(p) ==
  /\ pub[p] = "record"
  /\ IF targets[p] \subseteq Live
     THEN /\ count' = count + 1
          /\ stored' = stored \cup {count'}
          /\ row' = [r \in Rows |-> IF r[1] = count' /\ r[2] \in targets[p]
                                    THEN NewRow ELSE row[r]]
          /\ pub' = [pub EXCEPT ![p] = "wake"]
     ELSE /\ pub' = [pub EXCEPT ![p] = "idle"]
          /\ UNCHANGED <<count, stored, row>>
  /\ targets' = [targets EXCEPT ![p] = {}]
  /\ UNCHANGED <<endpoints, flag, worker, busy, failed, flight,
                 signals, history, bounds>>

SetWake(p) ==
  /\ pub[p] = "wake"
  /\ pub' = [pub EXCEPT ![p] = "idle"]
  /\ wake' = TRUE
  /\ UNCHANGED <<endpoints, store, targets, worker, busy, failed, flight,
                 stopping, error, history, bounds>>

PublishFails(p) ==
  /\ pub[p] \in {"list", "record"}
  /\ UseFault
  /\ pub' = [pub EXCEPT ![p] = "idle"]
  /\ targets' = [targets EXCEPT ![p] = {}]
  /\ UNCHANGED <<endpoints, store, worker, busy, failed, flight,
                 signals, history, crashes>>

\* At "wake" the commit is done and only the cancellation is seen.
CancelPublish(p) ==
  /\ p \in Stoppable
  /\ pub[p] # "idle"
  /\ pub' = [pub EXCEPT ![p] = "idle"]
  /\ targets' = [targets EXCEPT ![p] = {}]
  /\ UNCHANGED <<endpoints, store, worker, busy, failed, flight,
                 signals, history, bounds>>

-----------------------------------------------------------------------------
(* The worker: clear the flag, query, send a batch, prune, sleep. *)

Before(r, s) == r[1] < s[1] \/ (r[1] = s[1] /\ r[2] < s[2])

\* Mutant: later rows of an endpoint do not wait for earlier ones.
AnyDueRow ==
  {r \in Rows : Pending(r[1], r[2]) /\ row[r].due /\ r[2] \in Live
                  /\ \A s \in Rows : s[2] = r[2] /\ Pending(s[1], s[2])
                                       /\ row[s].due => r[1] <= s[1]}

\* Due rows that no earlier pending row of their endpoint precedes.
DueHeads ==
  {r \in Rows : Pending(r[1], r[2]) /\ row[r].due /\ r[2] \in Live
                  /\ \A e \in Events : Pending(e, r[2]) => r[1] <= e}

\* ORDER BY d.id LIMIT: at most one row of each endpoint.
Batch ==
  {r \in DueHeads : Cardinality({s \in DueHeads : Before(s, r)}) < Limit}

\* Back to the head of the loop.
NextCycle ==
  IF stopping THEN worker' = "stopped" /\ UNCHANGED wake
              ELSE worker' = "query" /\ wake' = FALSE

Query ==
  /\ worker = "query"
  /\ busy' = (Batch # {})
  /\ flight' = [ep \in Endpoints |->
                  IF \E r \in Batch : r[2] = ep
                  THEN [at |-> "post", ok |-> FALSE,
                        event |-> (CHOOSE r \in Batch : r[2] = ep)[1]]
                  ELSE NoSend]
  /\ worker' = IF Batch = {} THEN "prune" ELSE "batch"
  /\ UNCHANGED <<endpoints, store, publishing, failed, signals, history, bounds>>

\* The post of WebhookDeliveryAdapter.deliver and its answer.
Post(ep) ==
  LET r == <<flight[ep].event, ep>> IN
  /\ flight[ep].at = "post"
  /\ tried' = [tried EXCEPT ![ep] = Append(@, flight[ep].event)]
  /\ \E ok \in BOOLEAN :
       /\ flight' = [flight EXCEPT ![ep].at = "read", ![ep].ok = ok]
       /\ accepted' = IF ok THEN accepted \cup {r} ELSE accepted
  /\ UNCHANGED <<endpoints, store, publishing, worker, busy, failed, signals,
                 bounds>>

\* finish_delivery: the SELECT ...
FinishRead(ep) ==
  LET r == <<flight[ep].event, ep>> IN
  /\ flight[ep].at = "read"
  /\ flight' = IF row[r].state = "none" THEN [flight EXCEPT ![ep] = NoSend]
               ELSE [flight EXCEPT ![ep].at = "update"]
  /\ UNCHANGED <<endpoints, store, publishing, worker, busy, failed, signals,
                 history, bounds>>

\* Mutant: a delivery is never given up.
FinishedNever(o, ok) ==
  [attempts |-> o.attempts + 1,
   due |-> FALSE,
   state |-> IF ok THEN "delivered" ELSE "pending"]

\* Mutant: an attempt is not counted.
FinishedUncounted(o, ok) ==
  [o EXCEPT !.due = FALSE,
            !.state = IF ok THEN "delivered"
                      ELSE IF o.attempts + 1 >= MaxAttempts THEN "failed"
                      ELSE "pending"]

\* A row after one more attempt; a pending one waits for its back-off.
Finished(o, ok) ==
  [attempts |-> o.attempts + 1,
   due |-> FALSE,
   state |-> IF ok THEN "delivered"
             ELSE IF o.attempts + 1 >= MaxAttempts THEN "failed"
             ELSE "pending"]

\* Mutant: the flag looks at the rows as they were.
AllDeliveredBefore(e, rows) ==
  \A ep \in Endpoints : row[<<e, ep>>].state \in {"none", "delivered"}

\* NOT EXISTS (SELECT 1 FROM deliveries WHERE ... state != 'delivered')
AllDelivered(e, rows) ==
  \A ep \in Endpoints : rows[<<e, ep>>].state \in {"none", "delivered"}

\* ... and the transaction of its UPDATEs, which finds the row gone if the
\* endpoint was deleted in between.
FinishWrite(ep) ==
  LET e == flight[ep].event
      r == <<e, ep>> IN
  /\ flight[ep].at = "update"
  /\ row' = IF row[r].state = "none" THEN row
            ELSE [row EXCEPT ![r] = Finished(row[r], flight[ep].ok)]
  /\ flag' = IF e \in stored THEN [flag EXCEPT ![e] = AllDelivered(e, row')]
                             ELSE flag
  /\ flight' = [flight EXCEPT ![ep] = NoSend]
  /\ UNCHANGED <<endpoints, count, stored, publishing, worker, busy, failed,
                 signals, history, bounds>>

SendFails(ep) ==
  /\ flight[ep].at \in {"read", "update"}
  /\ UseFault
  /\ failed' = TRUE
  /\ flight' = [flight EXCEPT ![ep] = NoSend]
  /\ UNCHANGED <<endpoints, store, publishing, worker, busy, signals, history,
                 crashes>>

\* gather returns; a _send that raised makes the whole cycle an error.
BatchDone ==
  /\ worker = "batch"
  /\ NobodySends
  /\ failed' = FALSE
  /\ worker' = IF failed THEN "sleep" ELSE "prune"
  /\ error' = (error \/ failed)
  /\ UNCHANGED <<endpoints, store, publishing, busy, flight, wake, stopping,
                 history, bounds>>

\* Mutant: retention does not look for pending deliveries.
PrunableAll == stored

Prunable == {e \in stored : \A ep \in Endpoints : ~Pending(e, ep)}

\* Mutant: the flag is cleared before the wait, not before the query.
PruneThenClear(old) ==
  /\ worker = "prune"
  /\ old \subseteq Prunable
  /\ stored' = stored \ old
  /\ flag' = [e \in Events |-> e \notin old /\ flag[e]]
  /\ row' = [r \in Rows |-> IF r[1] \in old THEN NoRow ELSE row[r]]
  /\ error' = FALSE
  /\ IF busy THEN NextCycle ELSE worker' = "sleep" /\ wake' = FALSE
  /\ UNCHANGED <<endpoints, count, publishing, busy, failed, flight, stopping,
                 history, bounds>>

\* Retention deletes old events, if it is time, and the cycle ends well.
Prune(old) ==
  /\ worker = "prune"
  /\ old \subseteq Prunable
  /\ stored' = stored \ old
  /\ flag' = [e \in Events |-> e \notin old /\ flag[e]]
  /\ row' = [r \in Rows |-> IF r[1] \in old THEN NoRow ELSE row[r]]
  /\ error' = FALSE
  /\ IF busy THEN NextCycle ELSE worker' = "sleep" /\ UNCHANGED wake
  /\ UNCHANGED <<endpoints, count, publishing, busy, failed, flight, stopping,
                 history, bounds>>

\* The query or the pruning fails.
CycleFails ==
  /\ worker \in {"query", "prune"}
  /\ UseFault
  /\ worker' = "sleep"
  /\ error' = TRUE
  /\ UNCHANGED <<endpoints, store, publishing, busy, failed, flight, wake,
                 stopping, history, crashes>>

\* Mutant: only the flag ends the wait.
AwakeOnSignal ==
  /\ worker = "sleep"
  /\ wake
  /\ NextCycle
  /\ UNCHANGED <<endpoints, store, publishing, busy, failed, flight, stopping,
                 error, history, bounds>>

\* The flag is set, or half a second is over.
Awake ==
  /\ worker = "sleep"
  /\ NextCycle
  /\ UNCHANGED <<endpoints, store, publishing, busy, failed, flight, stopping,
                 error, history, bounds>>

\* The back-off of a row is over: next_attempt <= now.
BackoffEnds(r) ==
  /\ row[r].state = "pending"
  /\ ~row[r].due
  /\ row' = [row EXCEPT ![r].due = TRUE]
  /\ UNCHANGED <<endpoints, count, stored, flag, publishing, worker, busy,
                 failed, flight, signals, history, bounds>>

-----------------------------------------------------------------------------
(* The process: start, orderly stop, crash. *)

Start ==
  /\ Starting
  /\ worker' = "query"
  /\ wake' = FALSE /\ stopping' = FALSE /\ error' = FALSE
  /\ UNCHANGED <<endpoints, store, publishing, busy, failed, flight, history,
                 bounds>>

\* Container.close has stopped the scenarios and telemetry before.
Stop ==
  /\ Serving
  /\ \A p \in Publishers : pub[p] = "idle"
  /\ stopping' = TRUE
  /\ wake' = TRUE
  /\ UNCHANGED <<endpoints, store, publishing, worker, busy, failed, flight,
                 error, history, bounds>>

\* The worker's attempts in progress are lost with it.
LoseWork ==
  /\ UseCrash
  /\ flight' = [ep \in Endpoints |-> NoSend]
  /\ failed' = FALSE
  /\ UNCHANGED <<endpoints, store, busy, history, faults>>

\* Fifteen seconds are over and the worker is cancelled.
StopTimeout ==
  /\ stopping
  /\ worker # "stopped"
  /\ worker' = "stopped"
  /\ LoseWork
  /\ UNCHANGED <<publishing, signals>>

Crash ==
  /\ worker # "down" \/ ~Starting
  /\ worker' = "down"
  /\ pub' = [p \in Publishers |-> "idle"]
  /\ wake' = FALSE /\ stopping' = FALSE /\ error' = FALSE
  /\ targets' = [p \in Publishers |-> {}]
  /\ LoseWork

Init ==
  /\ endpoint = [ep \in Endpoints |-> "new"]
  /\ filter = [ep \in Endpoints |-> {}]
  /\ count = 0
  /\ stored = {}
  /\ flag = [e \in Events |-> FALSE]
  /\ row = [r \in Rows |-> NoRow]
  /\ pub = [p \in Publishers |-> "idle"]
  /\ targets = [p \in Publishers |-> {}]
  /\ worker = "down"
  /\ busy = FALSE /\ failed = FALSE
  /\ flight = [ep \in Endpoints |-> NoSend]
  /\ wake = FALSE /\ stopping = FALSE /\ error = FALSE
  /\ tried = [ep \in Endpoints |-> <<>>]
  /\ accepted = {}
  /\ faults = MaxFaults
  /\ crashes = MaxCrashes

WorkerStep ==
  \/ Query \/ BatchDone \/ Awake
  \/ \E old \in SUBSET Events : Prune(old)
  \/ \E ep \in Endpoints : Post(ep) \/ FinishRead(ep) \/ FinishWrite(ep)

PublisherStep(p) == ListTargets(p) \/ Record(p) \/ SetWake(p)

Next ==
  \/ WorkerStep \/ CycleFails
  \/ \E ep \in Endpoints : SendFails(ep) \/ DeleteEndpoint(ep)
  \/ \E ep \in Endpoints, kinds \in Filters : CreateEndpoint(ep, kinds)
  \/ \E p \in Publishers : Publish(p)
  \/ \E p \in Publishers :
       PublisherStep(p) \/ PublishFails(p) \/ CancelPublish(p)
  \/ \E r \in Rows : BackoffEnds(r)
  \/ Start \/ Stop \/ StopTimeout \/ Crash

Spec == Init /\ [][Next]_vars

(***************************************************************************)
(* The event loop runs the worker and the publishers, posts time out after *)
(* ten seconds, and back-offs end.  Nobody has to publish, stop or restart *)
(* anything.                                                               *)
(***************************************************************************)
Fairness ==
  /\ WF_vars(WorkerStep)
  /\ \A p \in Publishers : WF_vars(PublisherStep(p))
  /\ \A r \in Rows : WF_vars(BackoffEnds(r))

FairSpec == Spec /\ Fairness
=============================================================================
