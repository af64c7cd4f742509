-------------------------- MODULE DeviceProperties --------------------------
(***************************************************************************)
(* What DeviceService has to guarantee, stated over its model.             *)
(***************************************************************************)
EXTENDS DeviceService

Event == [old : Values, new : Values]

Frame == [val : MaybeValue, prio : Priorities, prev : MaybeValue,
          was : MaybeValue, rev : Nat \cup {NoRev}, idx : 1..(NP + 1),
          got : MaybeValue, exc : {"none", "error", "cancel"},
          final : BOOLEAN, stopped : BOOLEAN]

NetworkType ==
  /\ obj \in [Keys -> Object]
  /\ author \in [Keys -> Tasks \cup {None}]
  /\ app \in [Devices -> BOOLEAN]
  /\ sock \in [Devices -> BOOLEAN]

MemoryType ==
  /\ status \in [Devices -> Statuses]
  /\ snap \in [Keys -> Values]
  /\ owners \in [Keys -> Overrides \cup {None}]

StoreType ==
  /\ rowValue \in [Keys -> Values]
  /\ rowStatus \in [Devices -> Statuses]
  /\ event \in [Keys -> Event]

LocksType ==
  /\ holder \in [Devices -> Tasks \cup {None}]
  /\ waiters \in [Devices -> Seq(Tasks)]

ControlType ==
  /\ turn \in Tasks \cup {None}
  /\ pc \in [Tasks -> Labels]

LocalsType ==
  /\ call \in [Tasks -> Calls]
  /\ key \in [Tasks -> Keys]
  /\ frame \in [Tasks -> Frame]

BoundsType ==
  /\ inputs \in 0..MaxInputs
  /\ faults \in 0..MaxFaults

(***************************************************************************)
(* Every variable has its type: the fields of device_service.py, the rows  *)
(* it writes, and the locals of its operations.                            *)
(***************************************************************************)
TypeOK ==
  /\ NetworkType
  /\ MemoryType
  /\ StoreType
  /\ LocksType
  /\ ControlType
  /\ LocalsType
  /\ BoundsType

\* t takes this step: every step of a task moves its pc.
Acts(t) == pc'[t] # pc[t]

(***************************************************************************)
(* "One explicit owner per point; other application scenarios yield": no   *)
(* task changes an object another task's override owns (write_point's      *)
(* held_by test against override's three separate lock acquisitions).      *)
(***************************************************************************)
OwnerExclusive ==
  [][\A t \in Tasks, k \in Keys :
       Acts(t) /\ obj'[k] # obj[k] => owners[k] \in {None, t}]_vars

(***************************************************************************)
(* "later writes at that slot are preserved, even at the same value": when *)
(* an override gives its place back it replaces only its own command.      *)
(***************************************************************************)
LaterCommandKept ==
  [][\A t \in Overrides :
       LET k == key[t] IN
       call[t] = "restore" /\ Acts(t) /\ obj'[k] # obj[k] => author[k] = t]_vars

(***************************************************************************)
(* "One hold, then restore": a command of an override stands only while    *)
(* that override owns the point; whoever ends it, by timeout, stop or      *)
(* error, takes the command back before letting the point go.              *)
(***************************************************************************)
NoResidue ==
  \A k \in Keys : author[k] \in Overrides => owners[k] = author[k]

(***************************************************************************)
(* "Stop point overrides before taking their device offline": the          *)
(* application of a device goes down only when none of its points is owned.*)
(***************************************************************************)
NeverOfflineWhileOwned ==
  [][\A k \in Keys : app[k[1]] /\ ~app'[k[1]] => owners[k] = None]_vars

(***************************************************************************)
(* "Keep the old in-memory value until both persistence and event          *)
(* recording succeed": the snapshot moves only to a value whose row and    *)
(* whose event, from the old value to the new, are already durable.        *)
(***************************************************************************)
SnapshotIsRecorded ==
  [][\A k \in Keys : snap'[k] # snap[k] =>
       /\ event'[k] = [old |-> snap[k], new |-> snap'[k]]
       /\ rowValue'[k] = snap'[k]]_vars

(***************************************************************************)
(* A device the service calls online serves the network, and one it calls  *)
(* offline holds no socket, whenever no task is inside its lock.           *)
(***************************************************************************)
StatusIsTrue ==
  \A d \in Devices : holder[d] = None =>
    /\ status[d] = "online" => app[d] /\ sock[d]
    /\ status[d] = "offline" => ~app[d] /\ ~sock[d]

(***************************************************************************)
(* A scenario task told to stop comes to its end, cleanup included: "Await *)
(* cancellation and cleanup" of the stop endpoint returns.                 *)
(***************************************************************************)
StopCompletes ==
  \A t \in Scenarios : frame[t].stopped ~> pc[t] = "idle"

(***************************************************************************)
(* Whatever clients, scenarios and failures do, once they are quiet the    *)
(* snapshot of every online device is its effective values, each the last  *)
(* one recorded ("the old snapshot remains so synchronization can retry"). *)
(***************************************************************************)
SnapshotCatchesUp ==
  <>[](\A k \in Keys : status[k[1]] = "online" => snap[k] = Effective(k))

(***************************************************************************)
(* "Previous priority-8 slot, or simulated input source": what an override *)
(* will give back is what its command replaced.                            *)
(***************************************************************************)
GivesBackWhatItReplaced ==
  \A t \in Overrides : frame[t].rev # NoRev => frame[t].prev = frame[t].was

(***************************************************************************)
(* "Only changed effective values emit events": each recorded change of a  *)
(* point starts from the value its previous event reported, so no change   *)
(* is reported twice and none is left out.                                 *)
(***************************************************************************)
EventsAreAChain ==
  [][\A k \in Keys : snap'[k] # snap[k] => event[k].new = snap[k]]_vars

-----------------------------------------------------------------------------
(***************************************************************************)
(* The inductive invariant behind the safety properties.                   *)
(***************************************************************************)

\* The calls of an override, and those after its reservation was granted.
OverrideCalls == {"reserve", "force", "restore"}
Overriding == {"force", "restore"}

TransitionLabels == {"stopping", "closing", "starting", "statusRow",
                     "statusRecord", "errorRow", "fault", "leave"}

\* Each kind of task makes its own calls, and each call has its labels.
KindInv ==
  \A t \in Tasks :
    /\ call[t] \in {"read", "write"} => t \in Apis \cup Hvacs
    /\ call[t] \in OverrideCalls => t \in Overrides
    /\ call[t] \in {"offline", "online"} => t \in Offlines
    /\ pc[t] \in TransitionLabels \cup {"finally", "down", "up"}
         => call[t] \in {"offline", "online"}
    /\ pc[t] = "hold" => call[t] = "force"
    /\ pc[t] = "starting" => call[t] = "online"
    /\ pc[t] \in {"scan", "persist", "record"}
         => call[t] \notin {"none", "reserve", "online"}
    /\ pc[t] = "done" => call[t] \notin {"none", "reserve", "online"}
    /\ pc[t] = "idle" <=> call[t] = "none"

\* The locals an operation relies on have been set, with values of the point.
ArgsInv ==
  \A t \in Tasks :
    /\ pc[t] \in {"persist", "record"} =>
         frame[t].idx <= NP /\ frame[t].got \in Values
    /\ call[t] = "write" => IsCommandable(key[t]) \/ frame[t].val \in Values
    /\ call[t] \in OverrideCalls => frame[t].val \in Values
    /\ call[t] \in Overriding =>
         IsCommandable(key[t]) \/ frame[t].prev \in Values
    /\ \/ call[t] = "restore"
       \/ call[t] = "force" /\ pc[t] \in {"scan", "persist", "record", "done", "hold"}
       => frame[t].rev # NoRev

\* A device's lock is held by the one task that is inside it.
LockInv ==
  /\ \A t \in Tasks : pc[t] \in InsideLabels => holder[key[t][1]] = t
  /\ \A d \in Devices : holder[d] # None =>
       /\ key[holder[d]][1] = d
       /\ pc[holder[d]] \in InsideLabels \cup {"raise"}

\* A point's owner is the override that is working on it.
OwnerInv ==
  /\ \A k \in Keys : owners[k] # None =>
       key[owners[k]] = k /\ call[owners[k]] \in Overriding
  /\ \A t \in Tasks : call[t] \in Overriding => owners[key[t]] = t

\* Past its test, a transition keeps owners away from its device.
TransitionInv ==
  \A t \in Tasks :
    call[t] \in {"offline", "online"} /\ pc[t] \in InsideLabels \ {"locked", "leave"}
      => \A p \in Points : owners[<<key[t][1], p>>] = None

\* A device some point of which is owned has its application up.
OwnedInv ==
  \A k \in Keys : owners[k] # None => app[k[1]]

(***************************************************************************)
(* The lock of a device is held by the one task inside it, the owner of a  *)
(* point is the override at work on it, and no transition past its test    *)
(* meets an owner (_locks, _owners, set_device_status together).           *)
(***************************************************************************)
LeaseInv ==
  TypeOK /\ KindInv /\ ArgsInv /\ LockInv /\ OwnerInv /\ TransitionInv
    /\ OwnedInv

\* The revision an override saved is its own command's, or none yet.
RevisionInv ==
  \A t \in Tasks :
    LET k == key[t] IN
    /\ call[t] = "reserve" => frame[t].rev = NoRev
    /\ call[t] \in Overriding => frame[t].rev <= obj[k].rev
    /\ call[t] \in Overriding /\ frame[t].rev = obj[k].rev => author[k] = t

\* A command of an override stands: the override owns the point, has not lost
\* it to a later command, and has still to get the lock that takes it back.
ResidueInv ==
  \A k \in Keys, t \in Overrides : author[k] = t =>
    /\ owners[k] = t
    /\ frame[t].rev = obj[k].rev
    /\ call[t] = "restore" => pc[t] \in {"lock", "waiting", "locked"}

\* Between the row and the event nobody else writes the row.
RecordedInv ==
  \A t \in Tasks : pc[t] = "record" => rowValue[Scanned(t)] = frame[t].got

(***************************************************************************)
(* The revision an override saved tells its own command from a later one,  *)
(* its command stands only while it can still take it back, and the row it *)
(* wrote waits for its event (override, _refresh).                         *)
(***************************************************************************)
CommandInv == RevisionInv /\ ResidueInv /\ RecordedInv

-----------------------------------------------------------------------------
(* What exclusive control of a point promises, and this service keeps. *)
Lease == INSTANCE PointLease WITH
  Clients <- Tasks, lease <- owners, serving <- app

(***************************************************************************)
(* The service implements PointLease: owners are leases, applications what *)
(* serves, and no task commands a point another one owns.                  *)
(***************************************************************************)
LeaseSpec == Lease!Spec

(***************************************************************************)
(* It also keeps the promise that every lease ends: the finally blocks of  *)
(* override pop the owner whichever way the override ends.                 *)
(***************************************************************************)
LeaseFairSpec == Lease!FairSpec
=============================================================================
