-------------------------- MODULE OutboxProperties --------------------------
(***************************************************************************)
(* What the webhook outbox has to guarantee, stated over its model.        *)
(***************************************************************************)
EXTENDS Outbox

RowType == [state : {"none", "pending", "delivered", "failed"},
            attempts : 0..MaxAttempts, due : BOOLEAN]

Flight == [at : {"none", "post", "read", "update"}, event : 0..NV, ok : BOOLEAN]

(***************************************************************************)
(* Every variable has its type: the SQLite rows, the worker's and the      *)
(* publishers' places, and no delivery attempted more than five times.     *)
(***************************************************************************)
TypeOK ==
  /\ endpoint \in [Endpoints -> {"new", "live", "deleted"}]
  /\ filter \in [Endpoints -> SUBSET Kinds]
  /\ count \in 0..NV
  /\ stored \subseteq 1..count
  /\ flag \in [Events -> BOOLEAN]
  /\ row \in [Rows -> RowType]
  /\ pub \in [Publishers -> {"idle", "list", "record", "wake"}]
  /\ targets \in [Publishers -> SUBSET Endpoints]
  /\ worker \in {"down", "query", "batch", "prune", "sleep", "stopped"}
  /\ flight \in [Endpoints -> Flight]
  /\ {busy, failed, wake, stopping, error} \subseteq BOOLEAN
  /\ tried \in [Endpoints -> Seq(Events)]
  /\ accepted \subseteq Rows
  /\ faults \in 0..MaxFaults
  /\ crashes \in 0..MaxCrashes

\* How often r was posted, and whether a post of it is being accounted for.
Tries(r) == Cardinality({i \in DOMAIN tried[r[2]] : tried[r[2]][i] = r[1]})

InHand(r) ==
  IF flight[r[2]].event = r[1] /\ flight[r[2]].at \in {"read", "update"}
  THEN 1 ELSE 0

(***************************************************************************)
(* "five attempts maximum" (docs/webhooks.md): every counted attempt was   *)
(* really posted, and a post is left out of the count only by a crash, a   *)
(* cancelled worker or a SQLite failure (finish_delivery counts after the  *)
(* post).  A delivery that failed was posted five times.                   *)
(***************************************************************************)
AttemptsAreCounted ==
  \A r \in Rows : row[r].state # "none" =>
    /\ row[r].attempts <= Tries(r)
    /\ Tries(r) <= row[r].attempts + InHand(r)
                     + (MaxFaults - faults) + (MaxCrashes - crashes)
    /\ row[r].state = "failed" => row[r].attempts = MaxAttempts

(***************************************************************************)
(* "Pending work survives restart", "pending events retained": a pending   *)
(* delivery and its event disappear only with the endpoint; it becomes     *)
(* delivered only when the receiver has answered 2xx.                      *)
(***************************************************************************)
PendingIsKept ==
  [][\A r \in Rows : row[r].state = "pending" =>
       \/ row'[r].state = "pending" /\ r[1] \in stored'
       \/ row'[r].state = "delivered" /\ r \in accepted
       \/ row'[r].state = "failed" /\ row'[r].attempts = MaxAttempts
       \/ endpoint'[r[2]] = "deleted"]_vars

(***************************************************************************)
(* events.delivered against the rows: set only while every remaining       *)
(* delivery succeeded, and set by the last one to succeed although several *)
(* finish_delivery calls of one batch run at once.                         *)
(***************************************************************************)
FlagFollowsRows ==
  \A e \in stored :
    /\ flag[e] => AllDelivered(e, row)
    /\ /\ \A ep \in Endpoints : endpoint[ep] # "deleted"
       /\ \E ep \in Endpoints : row[<<e, ep>>].state # "none"
       /\ AllDelivered(e, row)
       => flag[e]

(***************************************************************************)
(* "`delivered` flag: False without recipients; true only after all        *)
(* recipients succeed" (docs/webhooks.md:81): some receiver has answered   *)
(* 2xx to a delivery of an event that is flagged.                          *)
(***************************************************************************)
DeliveredWasAccepted ==
  \A e \in Events : flag[e] => \E ep \in Endpoints : <<e, ep>> \in accepted

(***************************************************************************)
(* The worker clears its flag before it looks, so it never sleeps on a new *)
(* delivery it was told of: asleep, not signalled and without an error, it *)
(* has left no untried head of a queue but one whose publisher has still   *)
(* to signal.                                                              *)
(***************************************************************************)
NoMissedWake ==
  worker = "sleep" /\ ~wake /\ ~error
    /\ (\A p \in Publishers : pub[p] # "wake")
  => \A r \in DueHeads : row[r].attempts > 0

(***************************************************************************)
(* "bounded best-effort delivery": while the process lives, every delivery *)
(* succeeds, fails for good or goes with its endpoint, however many other  *)
(* endpoints keep failing (four at a time, oldest first, with back-off).   *)
(***************************************************************************)
EveryDeliverySettles ==
  \A r \in Rows :
    row[r].state = "pending"
      ~> row[r].state # "pending" \/ worker \in {"down", "stopped"}

-----------------------------------------------------------------------------
(* What a receiver is promised: a queue of events per endpoint. *)
Queue == INSTANCE OutboxQueue WITH
  queue <- [ep \in Endpoints |-> {e \in Events : Pending(e, ep)}],
  taken <- [ep \in Endpoints |->
              IF flight[ep].at = "none" THEN 0 ELSE flight[ep].event],
  sent <- tried

(***************************************************************************)
(* The outbox implements OutboxQueue: each endpoint gets its events in     *)
(* order, one at a time, the next one only after success or exhaustion,    *)
(* across failures, crashes and restarts.                                  *)
(***************************************************************************)
QueueSpec == Queue!Spec
=============================================================================
