---------------------------- MODULE OutboxQueue ----------------------------
(***************************************************************************)
(* What the outbox promises to a webhook receiver (docs/webhooks.md,       *)
(* "Delivery contract"): one queue of events per endpoint, served from its *)
(* head, one event at a time; an event may be sent more than once, but     *)
(* never after the event that follows it.                                  *)
(*                                                                         *)
(* A queue is the set of its events, which are numbered as they were       *)
(* recorded; an event taken out may still be sent when its endpoint goes.  *)
(***************************************************************************)
EXTENDS Naturals, Sequences

CONSTANTS Endpoints, Events

VARIABLES queue,  \* the events waiting for each endpoint
          taken,  \* the event being served for each endpoint, 0 if none
          sent    \* the events sent to each endpoint, in order

vars == <<queue, taken, sent>>

Init ==
  /\ queue = [ep \in Endpoints |-> {}]
  /\ taken = [ep \in Endpoints |-> 0]
  /\ sent = [ep \in Endpoints |-> <<>>]

\* A new event goes to the end of the queues of its recipients.
Accept(e, targets) ==
  /\ \A ep \in Endpoints :
       \A f \in queue[ep] \cup {taken[ep]} : f < e
  /\ \A ep \in Endpoints : \A i \in DOMAIN sent[ep] : sent[ep][i] < e
  /\ queue' = [ep \in Endpoints |->
                 IF ep \in targets THEN queue[ep] \cup {e} ELSE queue[ep]]
  /\ UNCHANGED <<taken, sent>>

IsHead(e, ep) == e \in queue[ep] /\ \A f \in queue[ep] : e <= f

\* The worker takes the heads of some queues at once.
Take(eps) ==
  /\ \A ep \in Endpoints : taken[ep] = 0
  /\ taken' \in [Endpoints -> Events \cup {0}]
  /\ \A ep \in Endpoints :
       IF ep \in eps THEN IsHead(taken'[ep], ep) ELSE taken'[ep] = 0
  /\ UNCHANGED <<queue, sent>>

Send(ep) ==
  /\ taken[ep] # 0
  /\ sent' = [sent EXCEPT ![ep] = Append(@, taken[ep])]
  /\ UNCHANGED <<queue, taken>>

\* Delivered, or given up.
Settle(ep) ==
  /\ taken[ep] # 0
  /\ queue' = [queue EXCEPT ![ep] = @ \ {taken[ep]}]
  /\ taken' = [taken EXCEPT ![ep] = 0]
  /\ UNCHANGED sent

\* To be tried again: a failure, a stop, a crash.
PutBack(eps) ==
  /\ taken' = [ep \in Endpoints |-> IF ep \in eps THEN 0 ELSE taken[ep]]
  /\ UNCHANGED <<queue, sent>>

\* The endpoint is deleted.
Drop(ep) ==
  /\ queue' = [queue EXCEPT ![ep] = {}]
  /\ UNCHANGED <<taken, sent>>

Next ==
  \/ \E e \in Events, targets \in SUBSET Endpoints : Accept(e, targets)
  \/ \E eps \in SUBSET Endpoints : Take(eps) \/ PutBack(eps)
  \/ \E ep \in Endpoints : Send(ep) \/ Settle(ep) \/ Drop(ep)

Spec == Init /\ [][Next]_vars
=============================================================================
