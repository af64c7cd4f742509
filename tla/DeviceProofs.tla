---------------------------- MODULE DeviceProofs ----------------------------
(***************************************************************************)
(* The safety properties of DeviceService, from LeaseInv, for every        *)
(* instance: exclusive ownership, no transition under an owner, that the   *)
(* service implements PointLease, and what a status says of the sockets.   *)
(***************************************************************************)
EXTENDS DeviceLeaseProofs

-----------------------------------------------------------------------------
(* Which steps touch the objects, the owners and the applications. *)

leaseVars == <<obj, author, app, owners>>

Quiet(t) ==
  \/ RequestLock(t) \/ TakeLock(t) \/ EnterRead(t) \/ Scan(t) \/ Persist(t)
  \/ Record(t) \/ HoldEnds(t) \/ EnterOffline(t) \/ CloseApp(t)
  \/ EndStop(t) \/ EndStart(t) \/ Fault(t) \/ WriteStatusRow(t)
  \/ RecordStatus(t) \/ EndCall(t) \/ EndTransition(t) \/ SleepEnds(t)
  \/ Finally(t) \/ RefreshFails(t) \/ StatusStoreFails(t)
  \/ CancelWaiting(t) \/ CancelSleep(t) \/ CancelStore(t)

Active(t) ==
  \/ EnterWrite(t) \/ Reserve(t) \/ ForceValue(t) \/ Restore(t)
  \/ BeginStop(t) \/ EnterOnline(t) \/ EndOverride(t) \/ Unwind(t)
  \/ StartFails(t) \/ CancelTransport(t)

\* Locking, scanning, recording, closing and waiting change none of them.
LEMMA QuietStep ==
  ASSUME NEW t \in Tasks, Quiet(t)
  PROVE  UNCHANGED leaseVars
<1>1. CASE RequestLock(t)
  BY <1>1 DEF RequestLock, leaseVars, network, memory
<1>2. CASE TakeLock(t)
  BY <1>2 DEF TakeLock, leaseVars, network, memory
<1>3. CASE EnterRead(t)
  BY <1>3 DEF EnterRead, leaseVars, network, memory
<1>4. CASE Scan(t)
  BY <1>4 DEF Scan, leaseVars, network, memory
<1>5. CASE Persist(t)
  BY <1>5 DEF Persist, leaseVars, network, memory
<1>6. CASE Record(t)
  BY <1>6 DEF Record, leaseVars, network
<1>7. CASE HoldEnds(t)
  BY <1>7 DEF HoldEnds, leaseVars, network, memory
<1>8. CASE EnterOffline(t)
  BY <1>8 DEF EnterOffline, leaseVars, network, memory
<1>9. CASE CloseApp(t)
  BY <1>9 DEF CloseApp, leaseVars, memory
<1>10. CASE EndStop(t)
  BY <1>10 DEF EndStop, leaseVars, network
<1>11. CASE EndStart(t)
  BY <1>11 DEF EndStart, leaseVars, network
<1>12. CASE Fault(t)
  BY <1>12 DEF Fault, leaseVars, network
<1>13. CASE WriteStatusRow(t)
  BY <1>13 DEF WriteStatusRow, leaseVars, network, memory
<1>14. CASE RecordStatus(t)
  BY <1>14 DEF RecordStatus, leaseVars, network, memory
<1>15. CASE EndCall(t)
  BY <1>15 DEF EndCall, leaseVars, network, memory
<1>16. CASE EndTransition(t)
  BY <1>16 DEF EndTransition, leaseVars, network, memory
<1>17. CASE SleepEnds(t)
  BY <1>17 DEF SleepEnds, leaseVars, network, memory
<1>18. CASE Finally(t)
  BY <1>18 DEF Finally, leaseVars, network, memory
<1>19. CASE RefreshFails(t)
  BY <1>19 DEF RefreshFails, leaseVars, network, memory
<1>20. CASE StatusStoreFails(t)
  BY <1>20 DEF StatusStoreFails, leaseVars, network, memory
<1>21. CASE CancelWaiting(t)
  BY <1>21 DEF CancelWaiting, leaseVars, network, memory
<1>22. CASE CancelSleep(t)
  BY <1>22 DEF CancelSleep, leaseVars, network, memory
<1>23. CASE CancelStore(t)
  BY <1>23 DEF CancelStore, leaseVars, network, memory
<1> QED BY <1>1, <1>2, <1>3, <1>4, <1>5, <1>6, <1>7, <1>8, <1>9, <1>10,
   <1>11, <1>12, <1>13, <1>14, <1>15, <1>16, <1>17, <1>18, <1>19, <1>20,
   <1>21, <1>22, <1>23 DEF Quiet

\* Requests only begin operations.
LEMMA RequestStep ==
  ASSUME Request \/ \E t \in Syncs : StartSync(t)
  PROVE  UNCHANGED <<leaseVars, locks>>
  BY DEF Request, StartRead, StartWrite, HvacWrite, StartOverride, StartOffline,
     StartSync, Begin, network, memory, leaseVars

\* So every step leaves them alone, is an active step of a task, or a client's.
LEMMA StepKinds ==
  ASSUME [Next]_vars
  PROVE  \/ UNCHANGED leaseVars
         \/ \E t \in Tasks : Active(t)
         \/ \E k \in Keys : NativeWrite(k)
<1>1. CASE UNCHANGED vars
  BY <1>1 DEF vars, network, memory, leaseVars
<1>2. ASSUME NEW t \in Tasks, TaskStep(t) \/ Fails(t) \/ Cancel(t)
      PROVE  Active(t) \/ UNCHANGED leaseVars
  <2>1. Active(t) \/ Quiet(t)
    BY <1>2 DEF TaskStep, Fails, Cancel, Active, Quiet
  <2> QED BY <2>1, QuietStep
<1> QED BY <1>1, <1>2, RequestStep DEF Next

-----------------------------------------------------------------------------
(* Each active step is a step of PointLease. *)

\* A command to an owned point comes from its owner.
LEMMA CommandMaps ==
  ASSUME LeaseInv, NEW t \in Tasks, NEW o, NEW w \in {t, None},
         owners[key[t]] \in {None, t}, SetObject(t, o, w),
         UNCHANGED <<app, owners>>
  PROVE  [Lease!Next]_(Lease!vars)
<1>1. key[t] \in Devices \X Points
  BY DEF LeaseInv, TypeOK, LocalsType, Keys
<1>2. CASE author' = [author EXCEPT ![key[t]] = w]
  <2>1. Lease!Command(t, key[t], w)
    BY <1>2 DEF Lease!Command
  <2> QED BY <2>1, <1>1 DEF Lease!Next, Lease!Keys
<1>3. CASE UNCHANGED author
  BY <1>3 DEF Lease!vars
<1> QED BY <1>2, <1>3 DEF SetObject

\* An application goes down only with no point of its device owned.
LEMMA CloseMaps ==
  ASSUME LeaseInv, NEW t \in Tasks, app' = [app EXCEPT ![key[t][1]] = FALSE],
         call[t] \in {"offline", "online"},
         pc[t] \in InsideLabels \ {"locked", "leave"},
         UNCHANGED <<author, owners>>
  PROVE  [Lease!Next]_(Lease!vars)
<1>1. \A p \in Points : owners[<<key[t][1], p>>] = None
  BY DEF LeaseInv, TransitionInv
<1>2. key[t][1] \in Devices
  BY DEF LeaseInv, TypeOK, LocalsType, Keys
<1>3. Lease!Close(key[t][1])
  BY <1>1 DEF Lease!Close
<1> QED BY <1>2, <1>3 DEF Lease!Next

\* An override that ends frees the point it owns.
LEMMA FreeMaps ==
  ASSUME LeaseInv, NEW t \in Tasks, call[t] \in Overriding, FreePoint(t),
         UNCHANGED <<app, author>>
  PROVE  [Lease!Next]_(Lease!vars)
<1>1. owners[key[t]] = t
  BY DEF LeaseInv, OwnerInv
<1>2. key[t] \in Devices \X Points
  BY DEF LeaseInv, TypeOK, LocalsType, Keys
<1>3. Lease!Free(t, key[t])
  BY <1>1 DEF Lease!Free, FreePoint
<1> QED BY <1>2, <1>3 DEF Lease!Next, Lease!Keys

\* write_point refuses, or lets the hvac scenario yield, when another owns.
LEMMA EnterWriteMaps ==
  ASSUME LeaseInv, NEW t \in Tasks, EnterWrite(t)
  PROVE  [Lease!Next]_(Lease!vars)
<1>1. UNCHANGED <<app, owners>>
  BY DEF EnterWrite, memory
<1>2. CASE UNCHANGED <<obj, author>>
  BY <1>1, <1>2 DEF Lease!vars
<1>3. CASE /\ ~HeldByOther(t)
           /\ SetObject(t, Written(t, frame[t].prio, frame[t].val), t)
  BY <1>1, <1>3, CommandMaps DEF HeldByOther
<1> QED BY <1>2, <1>3 DEF EnterWrite

\* The reservation takes a free point of a device that serves.
LEMMA ReserveMaps ==
  ASSUME LeaseInv, NEW t \in Tasks, Reserve(t)
  PROVE  [Lease!Next]_(Lease!vars)
<1>1. UNCHANGED <<app, author>>
  BY DEF Reserve, network
<1>2. CASE UNCHANGED owners
  BY <1>1, <1>2 DEF Lease!vars
<1>3. CASE ~ UNCHANGED owners
  <2>1. Lease!Acquire(t, key[t])
    BY <1>1, <1>3 DEF Reserve, Lease!Acquire
  <2>2. key[t] \in Devices \X Points
    BY DEF LeaseInv, TypeOK, LocalsType, Keys
  <2> QED BY <2>1, <2>2 DEF Lease!Next, Lease!Keys
<1> QED BY <1>2, <1>3

\* The forced write and the restoration are commands of the owner.
LEMMA OverrideMaps ==
  ASSUME LeaseInv, NEW t \in Tasks, ForceValue(t) \/ Restore(t)
  PROVE  [Lease!Next]_(Lease!vars)
<1>1. UNCHANGED <<app, owners>>
  BY DEF ForceValue, Restore, memory
<1>2. owners[key[t]] \in {None, t}
  BY DEF ForceValue, Restore, Enters, LeaseInv, OwnerInv, Overriding
<1>3. CASE UNCHANGED <<obj, author>>
  BY <1>1, <1>3 DEF Lease!vars
<1>4. CASE \E v : SetObject(t, Written(t, ControlPriority, v), t)
  BY <1>1, <1>2, <1>4, CommandMaps
<1>5. CASE \E v : SetObject(t, Written(t, ControlPriority, v), None)
  BY <1>1, <1>2, <1>5, CommandMaps
<1> QED BY <1>3, <1>4, <1>5 DEF ForceValue, Restore

\* The last step of an override frees its point, whichever way it ends.
LEMMA EndMaps ==
  ASSUME LeaseInv, NEW t \in Tasks, EndOverride(t) \/ Unwind(t)
  PROVE  [Lease!Next]_(Lease!vars)
<1>1. UNCHANGED <<app, author>>
  BY DEF EndOverride, Unwind, network
<1>2. CASE UNCHANGED owners
  BY <1>1, <1>2 DEF Lease!vars
<1>3. CASE call[t] \in Overriding /\ FreePoint(t)
  BY <1>1, <1>3, FreeMaps
<1> QED BY <1>2, <1>3 DEF EndOverride, Unwind, Overriding

\* set_device_status opens and closes applications.
LEMMA TransitionMaps ==
  ASSUME LeaseInv, NEW t \in Tasks,
         BeginStop(t) \/ EnterOnline(t) \/ StartFails(t) \/ CancelTransport(t)
  PROVE  [Lease!Next]_(Lease!vars)
<1>1. UNCHANGED <<author, owners>>
  BY DEF BeginStop, EnterOnline, StartFails, CancelTransport, AbortStart, network,
     memory
<1>2. CASE UNCHANGED app
  BY <1>1, <1>2 DEF Lease!vars
<1>3. CASE BeginStop(t) /\ app' = [app EXCEPT ![key[t][1]] = FALSE]
  BY <1>1, <1>3, CloseMaps DEF BeginStop, Running, InsideLabels
<1>4. CASE EnterOnline(t) /\ app' = [app EXCEPT ![key[t][1]] = TRUE]
  <2>1. Lease!Open(key[t][1])
    BY <1>1, <1>4 DEF Lease!Open
  <2>2. key[t][1] \in Devices
    BY DEF LeaseInv, TypeOK, LocalsType, Keys
  <2> QED BY <2>1, <2>2 DEF Lease!Next
<1>5. CASE pc[t] = "starting" /\ app' = [app EXCEPT ![key[t][1]] = FALSE]
  <2>1. call[t] = "online" /\ pc[t] \in InsideLabels \ {"locked", "leave"}
    BY <1>5 DEF LeaseInv, KindInv, InsideLabels, AwaitLabels
  <2> QED BY <1>1, <1>5, <2>1, CloseMaps
<1> QED BY <1>2, <1>3, <1>4, <1>5 DEF BeginStop, EnterOnline, StartFails,
           CancelTransport, AbortStart, Resumes, network

\* A client's command puts nobody's command in the place.
LEMMA NativeMaps ==
  ASSUME LeaseInv, NEW k \in Keys, NativeWrite(k)
  PROVE  [Lease!Next]_(Lease!vars)
<1>1. UNCHANGED <<app, owners>>
  BY DEF NativeWrite, memory
<1>2. CASE UNCHANGED author
  BY <1>1, <1>2 DEF Lease!vars
<1>3. CASE author' = [author EXCEPT ![k] = None]
  <2>1. Lease!Outside(k)
    BY <1>1, <1>3 DEF Lease!Outside
  <2> QED BY <2>1 DEF Lease!Next, Lease!Keys, Keys
<1> QED BY <1>2, <1>3 DEF NativeWrite

(***************************************************************************)
(* The service implements the abstract lease: with _owners as the lease    *)
(* and the BACnet applications as what serves, every step of device_service*)
(* is a step of PointLease or changes nothing it speaks of.                *)
(***************************************************************************)
THEOREM ImplementsLease == Spec => LeaseSpec
<1>1. Init => Lease!Init
  BY DEF Init, Lease!Init, Lease!Keys, Keys
<1>2. LeaseInv /\ [Next]_vars => [Lease!Next]_(Lease!vars)
  <2> SUFFICES ASSUME LeaseInv, [Next]_vars
               PROVE  [Lease!Next]_(Lease!vars)
    OBVIOUS
  <2>1. CASE UNCHANGED leaseVars
    BY <2>1 DEF leaseVars, Lease!vars
  <2>2. CASE \E t \in Tasks : Active(t)
    BY <2>2, EnterWriteMaps, ReserveMaps, OverrideMaps, EndMaps, TransitionMaps
    DEF Active
  <2>3. CASE \E k \in Keys : NativeWrite(k)
    BY <2>3, NativeMaps
  <2> QED BY <2>1, <2>2, <2>3, StepKinds
<1> QED BY <1>1, <1>2, LeaseInvariant, PTL DEF Spec, LeaseSpec, Lease!Spec

-----------------------------------------------------------------------------
(* Two action properties. *)

(***************************************************************************)
(* No application goes down while a point of its device is owned: the test *)
(* of set_device_status and the reservation run under the same lock.       *)
(***************************************************************************)
THEOREM OfflineExcluded == Spec => NeverOfflineWhileOwned
<1> DEFINE Stays == \A k \in Keys : app[k[1]] /\ ~app'[k[1]] => owners[k] = None
<1>1. LeaseInv /\ LeaseInv' /\ [Next]_vars => Stays
  <2> SUFFICES ASSUME LeaseInv, LeaseInv', [Next]_vars, NEW k \in Keys,
                      app[k[1]], ~app'[k[1]]
               PROVE  owners[k] = None
    OBVIOUS
  <2>1. owners'[k] = None
    BY DEF LeaseInv, OwnedInv
  <2>2. UNCHANGED owners
    <3>1. ASSUME NEW t \in Tasks, Active(t)
          PROVE  UNCHANGED owners
      BY <3>1 DEF Active, EnterWrite, Reserve, ForceValue, Restore, BeginStop,
         EnterOnline, EndOverride, Unwind, StartFails, CancelTransport, AbortStart,
         memory, network
    <3>2. ASSUME NEW j \in Keys, NativeWrite(j)
          PROVE  UNCHANGED owners
      BY <3>2 DEF NativeWrite, memory
    <3> QED BY <3>1, <3>2, StepKinds DEF leaseVars
  <2> QED BY <2>1, <2>2
<1> QED BY <1>1, LeaseInvariant, PTL DEF Spec, NeverOfflineWhileOwned

(***************************************************************************)
(* No task of the application changes the object of a point that another   *)
(* task's override owns (held_by in write_point).                          *)
(***************************************************************************)
THEOREM OwnershipExclusive == Spec => OwnerExclusive
<1> DEFINE Exclusive == \A t \in Tasks, k \in Keys :
                          Acts(t) /\ obj'[k] # obj[k] => owners[k] \in {None, t}
<1>1. LeaseInv /\ [Next]_vars => Exclusive
  <2> SUFFICES ASSUME LeaseInv, [Next]_vars, NEW t \in Tasks, NEW k \in Keys,
                      Acts(t), obj'[k] # obj[k]
               PROVE  owners[k] \in {None, t}
    OBVIOUS
  <2>1. CASE UNCHANGED leaseVars
    BY <2>1 DEF leaseVars
  <2>2. CASE \E j \in Keys : NativeWrite(j)
    BY <2>2 DEF NativeWrite, control, Acts
  <2>3. ASSUME NEW u \in Tasks, Active(u)
        PROVE  owners[k] \in {None, t}
    <3>1. EnterWrite(u) \/ ForceValue(u) \/ Restore(u)
      BY <2>3 DEF Active, Reserve, BeginStop, EnterOnline, EndOverride, Unwind,
         StartFails, CancelTransport, AbortStart, network
    <3>2. u = t
      BY <3>1 DEF EnterWrite, ForceValue, Restore, Continue, Acts, LeaseInv, TypeOK,
         ControlType
    <3>3. k = key[t]
      BY <3>1, <3>2 DEF EnterWrite, ForceValue, Restore, SetObject, LeaseInv, TypeOK,
         NetworkType
    <3>4. CASE EnterWrite(t)
      BY <3>3, <3>4 DEF EnterWrite, HeldByOther
    <3>5. CASE ForceValue(t) \/ Restore(t)
      BY <3>3, <3>5 DEF ForceValue, Restore, Enters, LeaseInv, OwnerInv, Overriding
    <3> QED BY <3>1, <3>2, <3>4, <3>5
  <2> QED BY <2>1, <2>2, <2>3, StepKinds
<1> QED BY <1>1, LeaseInvariant, PTL DEF Spec, OwnerExclusive

-----------------------------------------------------------------------------
(* Who moves, and what is written. *)

\* A step is its task's: nobody else moves, only Persist leads to record, and
\* only Record moves a snapshot.
LEMMA OwnStep ==
  ASSUME LeaseInv, NEW t \in Tasks, TaskStep(t) \/ Fails(t) \/ Cancel(t)
  PROVE  /\ \A u \in Tasks \ {t} : /\ pc'[u] = pc[u] /\ key'[u] = key[u]
                                  /\ frame'[u] = frame[u] /\ call'[u] = call[u]
         /\ pc'[t] = "record" => Persist(t)
         /\ \/ UNCHANGED rowValue
            \/ /\ pc[t] = "persist"
               /\ rowValue' = [rowValue EXCEPT ![Scanned(t)] = frame[t].got]
         /\ UNCHANGED snap \/ Record(t)
         /\ \/ UNCHANGED event \/ Record(t)
            \/ CancelStore(t) /\ pc[t] = "record"
<1>1. CASE RequestLock(t)
  BY <1>1 DEF RequestLock, Running, Continue, Suspend, memory, store,
     locals, LeaseInv, TypeOK, LocalsType, ControlType
<1>2. CASE TakeLock(t)
  BY <1>2 DEF TakeLock, Resumes, Continue, memory, store, locals, LeaseInv,
     TypeOK, LocalsType, ControlType
<1>3. CASE EnterRead(t)
  BY <1>3 DEF EnterRead, Enters, Running, Continue, memory, store, locals,
     LeaseInv, TypeOK, LocalsType, ControlType
<1>4. CASE EnterWrite(t)
  BY <1>4 DEF EnterWrite, Enters, Running, Continue, memory, store, locals,
     LeaseInv, TypeOK, LocalsType, ControlType
<1>5. CASE Scan(t)
  BY <1>5 DEF Scan, Running, Continue, Throw, Suspend, memory, store,
     LeaseInv, TypeOK, LocalsType, ControlType
<1>6. CASE Persist(t)
  BY <1>6 DEF Persist, Resumes, Suspend, memory, locals, LeaseInv, TypeOK,
     LocalsType, ControlType
<1>7. CASE Record(t)
  BY <1>7 DEF Record, Resumes, Continue, LeaseInv, TypeOK, LocalsType,
     ControlType
<1>8. CASE Reserve(t)
  BY <1>8 DEF Reserve, Enters, Running, Continue, locals, Proceed, store,
     LeaseInv, TypeOK, LocalsType, ControlType
<1>9. CASE ForceValue(t)
  BY <1>9 DEF ForceValue, Enters, Running, Continue, memory, store,
     LeaseInv, TypeOK, LocalsType, ControlType
<1>10. CASE HoldEnds(t)
  BY <1>10 DEF HoldEnds, Resumes, Proceed, Continue, memory, store,
     LeaseInv, TypeOK, LocalsType, ControlType
<1>11. CASE Restore(t)
  BY <1>11 DEF Restore, Enters, Running, Continue, memory, store, LeaseInv,
     TypeOK, LocalsType, ControlType
<1>12. CASE EnterOffline(t)
  BY <1>12 DEF EnterOffline, Enters, Running, Continue, memory, store,
     LeaseInv, TypeOK, LocalsType, ControlType
<1>13. CASE BeginStop(t)
  BY <1>13 DEF BeginStop, Running, Suspend, store, locals, LeaseInv, TypeOK,
     LocalsType, ControlType
<1>14. CASE CloseApp(t)
  BY <1>14 DEF CloseApp, Resumes, Suspend, memory, store, locals, LeaseInv,
     TypeOK, LocalsType, ControlType
<1>15. CASE EndStop(t)
  BY <1>15 DEF EndStop, Resumes, Suspend, Continue, store, locals, LeaseInv,
     TypeOK, LocalsType, ControlType
<1>16. CASE EnterOnline(t)
  BY <1>16 DEF EnterOnline, Enters, Running, Continue, Suspend, store,
     locals, LeaseInv, TypeOK, LocalsType, ControlType
<1>17. CASE EndStart(t)
  BY <1>17 DEF EndStart, Resumes, Suspend, store, locals, LeaseInv, TypeOK,
     LocalsType, ControlType
<1>18. CASE Fault(t)
  BY <1>18 DEF Fault, Running, Suspend, store, locals, LeaseInv, TypeOK,
     LocalsType, ControlType
<1>19. CASE WriteStatusRow(t)
  BY <1>19 DEF WriteStatusRow, Resumes, Suspend, Continue, memory, locals,
     LeaseInv, TypeOK, LocalsType, ControlType
<1>20. CASE RecordStatus(t)
  BY <1>20 DEF RecordStatus, Resumes, Continue, memory, store, locals,
     LeaseInv, TypeOK, LocalsType, ControlType
<1>21. CASE EndCall(t)
  BY <1>21 DEF EndCall, Running, Suspend, locals, Continue, Finish, memory,
     store, LeaseInv, TypeOK, LocalsType, ControlType
<1>22. CASE EndOverride(t)
  BY <1>22 DEF EndOverride, Running, Finish, Suspend, store, LeaseInv,
     TypeOK, LocalsType, ControlType
<1>23. CASE EndTransition(t)
  BY <1>23 DEF EndTransition, Running, Finish, Suspend, locals, memory,
     store, LeaseInv, TypeOK, LocalsType, ControlType
<1>24. CASE SleepEnds(t)
  BY <1>24 DEF SleepEnds, Resumes, Proceed, Continue, memory, store,
     LeaseInv, TypeOK, LocalsType, ControlType
<1>25. CASE Unwind(t)
  BY <1>25 DEF Unwind, Running, Finish, Suspend, Proceed, Continue, locals,
     store, LeaseInv, TypeOK, LocalsType, ControlType
<1>26. CASE Finally(t)
  BY <1>26 DEF Finally, Running, Proceed, Continue, Finish, Suspend, memory,
     store, LeaseInv, TypeOK, LocalsType, ControlType
<1>27. CASE RefreshFails(t)
  BY <1>27 DEF RefreshFails, Resumes, Throw, Continue, memory, store,
     locals, LeaseInv, TypeOK, LocalsType, ControlType
<1>28. CASE StartFails(t)
  BY <1>28 DEF StartFails, Resumes, AbortStart, Suspend, memory, store,
     LeaseInv, TypeOK, LocalsType, ControlType
<1>29. CASE StatusStoreFails(t)
  BY <1>29 DEF StatusStoreFails, Resumes, Continue, memory, store, locals,
     LeaseInv, TypeOK, LocalsType, ControlType
<1>30. CASE CancelWaiting(t)
  BY <1>30 DEF CancelWaiting, Continue, MarkStopped, memory, store,
     LeaseInv, TypeOK, LocalsType, ControlType
<1>31. CASE CancelSleep(t)
  BY <1>31 DEF CancelSleep, SleepLabels, Proceed, Continue, MarkStopped,
     memory, store, LeaseInv, TypeOK, LocalsType, ControlType
<1>32. CASE CancelStore(t)
  BY <1>32 DEF CancelStore, store, Continue, MarkStopped, memory, LeaseInv,
     TypeOK, LocalsType, ControlType
<1>33. CASE CancelTransport(t)
  BY <1>33 DEF CancelTransport, Continue, MarkStopped, memory, store,
     AbortStart, Suspend, LeaseInv, TypeOK, LocalsType, ControlType
<1> QED BY <1>1, <1>2, <1>3, <1>4, <1>5, <1>6, <1>7, <1>8, <1>9, <1>10,
   <1>11, <1>12, <1>13, <1>14, <1>15, <1>16, <1>17, <1>18, <1>19, <1>20,
   <1>21, <1>22, <1>23, <1>24, <1>25, <1>26, <1>27, <1>28, <1>29, <1>30,
   <1>31, <1>32, <1>33 DEF TaskStep, Fails, Cancel

\* A request, a client or nobody moves no task to record and writes no row.
LEMMA OtherStep ==
  ASSUME LeaseInv,
         \/ Request \/ \E t \in Syncs : StartSync(t)
         \/ \E k \in Keys : NativeWrite(k)
         \/ UNCHANGED vars
  PROVE  /\ UNCHANGED <<rowValue, snap, event>>
         /\ \A u \in Tasks : pc'[u] = "record" =>
              pc[u] = "record" /\ key'[u] = key[u] /\ frame'[u] = frame[u]
<1>1. CASE (\E k \in Keys : NativeWrite(k)) \/ UNCHANGED vars
  BY <1>1 DEF NativeWrite, vars, control, locals, store, memory
<1>2. ASSUME NEW t \in Tasks, NEW c, NEW k, NEW f, Begin(t, c, k, f)
      PROVE  /\ UNCHANGED <<rowValue, snap, event>>
             /\ \A u \in Tasks : pc'[u] = "record" =>
                  pc[u] = "record" /\ key'[u] = key[u] /\ frame'[u] = frame[u]
  BY <1>2 DEF Begin, Continue, store, memory, LeaseInv, TypeOK, ControlType,
     LocalsType
<1> QED BY <1>1, <1>2 DEF Request, StartRead, StartWrite, HvacWrite,
        StartOverride, StartOffline, StartSync, Tasks, Scenarios

-----------------------------------------------------------------------------
(* Status, application and socket of a device. *)

\* The status of a device says what its application and socket do.
Settled(d) ==
  /\ app[d] <=> sock[d]
  /\ status[d] = "online" => app[d]
  /\ status[d] = "offline" => ~app[d]

\* Between dropping the application, the answer of the transport, and the status.
Unsettled == {"stopping", "closing", "starting", "fault"}

\* What a transition under way has done so far.
TransportOf(t) ==
  LET d == key[t][1] IN
  /\ pc[t] \in {"stopping", "closing"} => ~app[d]
  /\ pc[t] = "closing" => ~sock[d]
  /\ pc[t] = "starting" => app[d] /\ sock[d]
  /\ pc[t] = "fault" => (app[d] <=> sock[d])
  /\ pc[t] \in {"stopping", "closing", "starting"} /\ call[t] = "online"
       => status[d] # "online"

\* Nobody but a transition under way leaves a device unsettled.
StatusInv ==
  /\ \A t \in Tasks : TransportOf(t)
  /\ \A d \in Devices :
       (\A t \in Tasks : pc[t] \in Unsettled => key[t][1] # d) => Settled(d)

\* One transition at a time: the others are outside the lock.
LEMMA AloneInside ==
  ASSUME LeaseInv, StatusInv, NEW t \in Tasks, pc[t] \in InsideLabels
  PROVE  /\ \A u \in Tasks \ {t} : pc[u] \in Unsettled => key[u][1] # key[t][1]
         /\ pc[t] \notin Unsettled => Settled(key[t][1])
<1>1. \A u \in Tasks \ {t} : pc[u] \in Unsettled => key[u][1] # key[t][1]
  BY DEF LeaseInv, LockInv, Unsettled, InsideLabels, AwaitLabels
<1>2. key[t][1] \in Devices
  BY DEF LeaseInv, TypeOK, LocalsType, Keys
<1> QED BY <1>1, <1>2 DEF StatusInv

\* A step that touches no device and begins or ends no work on its sockets.
LEMMA CalmKeeps ==
  ASSUME StatusInv, UNCHANGED <<app, sock, status>>,
         \A u \in Tasks : pc[u] \in Unsettled \/ pc'[u] \in Unsettled =>
           pc'[u] = pc[u] /\ key'[u] = key[u] /\ call'[u] = call[u]
  PROVE  StatusInv'
<1>1. ASSUME NEW u \in Tasks PROVE TransportOf(u)'
  <2>1. CASE pc'[u] \in Unsettled
    BY <2>1 DEF StatusInv, TransportOf
  <2>2. CASE pc'[u] \notin Unsettled
    BY <2>2 DEF TransportOf, Unsettled
  <2> QED BY <2>1, <2>2
<1>2. ASSUME NEW d \in Devices, \A u \in Tasks : pc'[u] \in Unsettled => key'[u][1] # d
      PROVE  Settled(d)'
  <2>1. \A u \in Tasks : pc[u] \in Unsettled => key[u][1] # d
    BY <1>2
  <2> QED BY <2>1 DEF StatusInv, Settled
<1> QED BY <1>1, <1>2 DEF StatusInv

\* A step of a transition concerns its own device and leaves it settled, or
\* itself under way.
LEMMA TransitionKeeps ==
  ASSUME LeaseInv, StatusInv, NEW t \in Tasks, pc[t] \in InsideLabels,
         key'[t] = key[t],
         \A u \in Tasks \ {t} :
           pc'[u] = pc[u] /\ key'[u] = key[u] /\ call'[u] = call[u],
         \A d \in Devices \ {key[t][1]} :
           app'[d] = app[d] /\ sock'[d] = sock[d] /\ status'[d] = status[d],
         TransportOf(t)', pc'[t] \in Unsettled \/ Settled(key[t][1])'
  PROVE  StatusInv'
<1>1. ASSUME NEW u \in Tasks PROVE TransportOf(u)'
  <2>1. CASE u # t /\ pc[u] \in Unsettled
    <3>1. key[u][1] \in Devices \ {key[t][1]}
      BY <2>1, AloneInside DEF LeaseInv, TypeOK, LocalsType, Keys
    <3> QED BY <2>1, <3>1 DEF StatusInv, TransportOf
  <2>2. CASE u # t /\ pc[u] \notin Unsettled
    BY <2>2 DEF TransportOf, Unsettled
  <2> QED BY <2>1, <2>2
<1>2. ASSUME NEW d \in Devices, \A u \in Tasks : pc'[u] \in Unsettled => key'[u][1] # d
      PROVE  Settled(d)'
  <2>1. CASE d = key[t][1]
    BY <1>2, <2>1
  <2>2. CASE d # key[t][1]
    <3>1. \A u \in Tasks : pc[u] \in Unsettled => key[u][1] # d
      BY <1>2, <2>2
    <3> QED BY <2>2, <3>1 DEF StatusInv, Settled
  <2> QED BY <2>1, <2>2
<1> QED BY <1>1, <1>2 DEF StatusInv

\* Steps at other labels of an operation.
Calm(t) ==
  \/ RequestLock(t) \/ TakeLock(t) \/ EnterRead(t) \/ EnterWrite(t)
  \/ Persist(t) \/ Record(t) \/ Reserve(t) \/ ForceValue(t) \/ HoldEnds(t)
  \/ Restore(t) \/ EnterOffline(t) \/ WriteStatusRow(t) \/ RecordStatus(t)
  \/ EndCall(t) \/ EndOverride(t) \/ EndTransition(t) \/ SleepEnds(t)
  \/ Unwind(t) \/ Finally(t) \/ StatusStoreFails(t) \/ CancelWaiting(t)
  \/ CancelSleep(t) \/ CancelStore(t) \/ CancelTransport(t)

LEMMA CalmSteps ==
  ASSUME LeaseInv, "transition" \in Shielded, NEW t \in Tasks, Calm(t)
  PROVE  /\ UNCHANGED <<app, sock, status>>
         /\ pc[t] \notin Unsettled /\ pc'[t] \notin Unsettled
<1>0. pc \in [Tasks -> Labels]
  BY DEF LeaseInv, TypeOK, ControlType
<1>1. CASE RequestLock(t)
  BY <1>0, <1>1 DEF RequestLock, Running, Continue, Suspend, network, memory, Unsettled
<1>2. CASE TakeLock(t)
  BY <1>0, <1>2 DEF TakeLock, Resumes, Continue, network, memory, Unsettled
<1>3. CASE EnterRead(t)
  BY <1>0, <1>3 DEF EnterRead, Enters, Running, Continue, network, memory, Unsettled
<1>4. CASE EnterWrite(t)
  BY <1>0, <1>4 DEF EnterWrite, Enters, Running, Continue, memory, Unsettled
<1>5. CASE Persist(t)
  BY <1>0, <1>5 DEF Persist, Resumes, Suspend, network, memory, Unsettled
<1>6. CASE Record(t)
  BY <1>0, <1>6 DEF Record, Resumes, Continue, network, Unsettled
<1>7. CASE Reserve(t)
  BY <1>0, <1>7 DEF Reserve, Enters, Running, Continue, Proceed, network, Unsettled
<1>8. CASE ForceValue(t)
  BY <1>0, <1>8 DEF ForceValue, Enters, Running, Continue, memory, Unsettled
<1>9. CASE HoldEnds(t)
  BY <1>0, <1>9 DEF HoldEnds, Resumes, Proceed, Continue, network, memory, Unsettled
<1>10. CASE Restore(t)
  BY <1>0, <1>10 DEF Restore, Enters, Running, Continue, memory, Unsettled
<1>11. CASE EnterOffline(t)
  BY <1>0, <1>11 DEF EnterOffline, Enters, Running, Continue, network, memory, Unsettled
<1>12. CASE WriteStatusRow(t)
  BY <1>0, <1>12 DEF WriteStatusRow, Resumes, Suspend, Continue, network, memory,
     Unsettled
<1>13. CASE RecordStatus(t)
  BY <1>0, <1>13 DEF RecordStatus, Resumes, Continue, network, memory, Unsettled
<1>14. CASE EndCall(t)
  BY <1>0, <1>14 DEF EndCall, Running, Suspend, Continue, Finish, network, memory,
     Unsettled
<1>15. CASE EndOverride(t)
  BY <1>0, <1>15 DEF EndOverride, Running, Finish, Suspend, network, Unsettled
<1>16. CASE EndTransition(t)
  BY <1>0, <1>16 DEF EndTransition, Running, Finish, Suspend, network, memory, Unsettled
<1>17. CASE SleepEnds(t)
  BY <1>0, <1>17 DEF SleepEnds, Resumes, Proceed, Continue, network, memory, Unsettled
<1>18. CASE Unwind(t)
  BY <1>0, <1>18 DEF Unwind, Running, Finish, Suspend, Proceed, Continue, network,
     Unsettled
<1>19. CASE Finally(t)
  BY <1>0, <1>19 DEF Finally, Running, Proceed, Continue, Finish, Suspend, network,
     memory, Unsettled
<1>20. CASE StatusStoreFails(t)
  BY <1>0, <1>20 DEF StatusStoreFails, Resumes, Continue, network, memory, Unsettled
<1>21. CASE CancelWaiting(t)
  BY <1>0, <1>21 DEF CancelWaiting, Continue, network, memory, Unsettled
<1>22. CASE CancelSleep(t)
  BY <1>0, <1>22 DEF CancelSleep, SleepLabels, Proceed, Continue, network, memory,
     Unsettled
<1>23. CASE CancelStore(t)
  BY <1>0, <1>23 DEF CancelStore, Continue, network, memory, Unsettled
<1>24. CASE CancelTransport(t)
  BY <1>0, <1>24 DEF CancelTransport, Cancellable, Phase, Unsettled
<1> QED BY <1>1, <1>2, <1>3, <1>4, <1>5, <1>6, <1>7, <1>8, <1>9, <1>10, <1>11, <1>12,
   <1>13, <1>14, <1>15, <1>16, <1>17, <1>18, <1>19, <1>20, <1>21, <1>22, <1>23,
   <1>24 DEF Calm

\* The steps inside set_device_status, and those whose exception it catches.
LEMMA TransitionSteps ==
  ASSUME LeaseInv, StatusInv, NEW t \in Tasks,
         TaskStep(t) \/ Fails(t) \/ Cancel(t), ~ Calm(t)
  PROVE  StatusInv'
<1> DEFINE d == key[t][1]
<1>0. /\ pc \in [Tasks -> Labels] /\ call \in [Tasks -> Calls]
      /\ app \in [Devices -> BOOLEAN] /\ sock \in [Devices -> BOOLEAN]
      /\ status \in [Devices -> Statuses] /\ d \in Devices
      /\ pc[t] \in TransitionLabels => call[t] \in {"offline", "online"}
      /\ pc[t] = "starting" => call[t] = "online"
      /\ TransportOf(t)
  BY DEF LeaseInv, TypeOK, ControlType, LocalsType, NetworkType, MemoryType, Keys,
     KindInv, StatusInv
<1>01. \A u \in Tasks \ {t} :
         pc'[u] = pc[u] /\ key'[u] = key[u] /\ call'[u] = call[u]
  BY OwnStep
<1>02. pc[t] \in InsideLabels \ Unsettled => Settled(d)
  BY AloneInside
<1> DEFINE Mine == /\ pc[t] \in InsideLabels /\ key'[t] = key[t]
                   /\ \A x \in Devices \ {d} : /\ app'[x] = app[x] /\ sock'[x] = sock[x]
                                               /\ status'[x] = status[x]
                   /\ TransportOf(t)'
                   /\ pc'[t] \in Unsettled \/ Settled(d)'
<1>1. CASE Scan(t)
  <2>1. Mine
    BY <1>0, <1>02, <1>1 DEF Scan, Running, Continue, Throw, Suspend, network, memory,
       TransportOf, Settled,
       Unsettled, InsideLabels, AwaitLabels, TransitionLabels, Statuses, Calls
  <2> QED BY <1>01, <2>1, TransitionKeeps
<1>2. CASE RefreshFails(t)
  <2>1. Mine
    BY <1>0, <1>02, <1>2 DEF RefreshFails, Resumes, Throw, Continue, network, memory,
       locals, TransportOf, Settled,
       Unsettled, InsideLabels, AwaitLabels, TransitionLabels, Statuses, Calls
  <2> QED BY <1>01, <2>1, TransitionKeeps
<1>3. CASE BeginStop(t)
  <2>1. Mine
    BY <1>0, <1>02, <1>3 DEF BeginStop, Running, Suspend, locals, TransportOf, Settled,
       Unsettled, InsideLabels, AwaitLabels, TransitionLabels, Statuses, Calls
  <2> QED BY <1>01, <2>1, TransitionKeeps
<1>4. CASE CloseApp(t)
  <2>1. Mine
    BY <1>0, <1>02, <1>4 DEF CloseApp, Resumes, Suspend, memory, locals, TransportOf,
       Settled,
       Unsettled, InsideLabels, AwaitLabels, TransitionLabels, Statuses, Calls
  <2> QED BY <1>01, <2>1, TransitionKeeps
<1>5. CASE EndStop(t)
  <2>1. Mine
    BY <1>0, <1>02, <1>5 DEF EndStop, Resumes, Suspend, Continue, network, locals,
       TransportOf, Settled,
       Unsettled, InsideLabels, AwaitLabels, TransitionLabels, Statuses, Calls
  <2> QED BY <1>01, <2>1, TransitionKeeps
<1>6. CASE EnterOnline(t)
  <2>1. Mine
    BY <1>0, <1>02, <1>6 DEF EnterOnline, Enters, Running, Continue, Suspend, locals,
       TransportOf, Settled,
       Unsettled, InsideLabels, AwaitLabels, TransitionLabels, Statuses, Calls
  <2> QED BY <1>01, <2>1, TransitionKeeps
<1>7. CASE EndStart(t)
  <2>1. Mine
    BY <1>0, <1>02, <1>7 DEF EndStart, Resumes, Suspend, network, locals, TransportOf,
       Settled,
       Unsettled, InsideLabels, AwaitLabels, TransitionLabels, Statuses, Calls
  <2> QED BY <1>01, <2>1, TransitionKeeps
<1>8. CASE StartFails(t)
  <2>1. Mine
    BY <1>0, <1>02, <1>8 DEF StartFails, Resumes, AbortStart, Suspend, memory,
       TransportOf, Settled,
       Unsettled, InsideLabels, AwaitLabels, TransitionLabels, Statuses, Calls
  <2> QED BY <1>01, <2>1, TransitionKeeps
<1>9. CASE Fault(t)
  <2>1. Mine
    BY <1>0, <1>02, <1>9 DEF Fault, Running, Suspend, network, locals, TransportOf,
       Settled,
       Unsettled, InsideLabels, AwaitLabels, TransitionLabels, Statuses, Calls
  <2> QED BY <1>01, <2>1, TransitionKeeps
<1> QED BY <1>1, <1>2, <1>3, <1>4, <1>5, <1>6, <1>7, <1>8, <1>9 DEF Calm, TaskStep,
   Fails, Cancel

LEMMA StatusKeeps ==
  ASSUME LeaseInv, StatusInv, "transition" \in Shielded, [Next]_vars
  PROVE  StatusInv'
<1>0. pc \in [Tasks -> Labels] /\ key \in [Tasks -> Keys] /\ call \in [Tasks -> Calls]
  BY DEF LeaseInv, TypeOK, ControlType, LocalsType
<1>1. ASSUME NEW t \in Tasks, TaskStep(t) \/ Fails(t) \/ Cancel(t), Calm(t)
      PROVE  StatusInv'
  <2>1. \A u \in Tasks \ {t} :
          pc'[u] = pc[u] /\ key'[u] = key[u] /\ call'[u] = call[u]
    BY <1>1, OwnStep
  <2> QED BY <1>1, <2>1, CalmSteps, CalmKeeps
<1>2. ASSUME NEW t \in Tasks, NEW c, NEW k, NEW f, Begin(t, c, k, f)
      PROVE  StatusInv'
  <2>1. /\ UNCHANGED <<app, sock, status>> /\ pc[t] = "idle" /\ pc'[t] = "lock"
        /\ \A u \in Tasks \ {t} :
             pc'[u] = pc[u] /\ key'[u] = key[u] /\ call'[u] = call[u]
    BY <1>0, <1>2 DEF Begin, Continue, network, memory
  <2>2. {"idle", "lock"} \cap Unsettled = {}
    BY DEF Unsettled
  <2> QED BY <2>1, <2>2, CalmKeeps
<1>3. CASE (\E k \in Keys : NativeWrite(k)) \/ UNCHANGED vars
  BY <1>3, CalmKeeps DEF NativeWrite, vars, network, memory, control, locals
<1>4. CASE Request \/ \E t \in Syncs : StartSync(t)
  BY <1>2, <1>4 DEF Request, StartRead, StartWrite, HvacWrite, StartOverride,
     StartOffline, StartSync, Tasks, Scenarios
<1> QED BY <1>1, <1>3, <1>4, TransitionSteps DEF Next

(***************************************************************************)
(* If no stop interrupts a transition, a device online serves the network  *)
(* and one offline holds no socket whenever nobody is inside its lock,     *)
(* whatever fails (set_device_status, start_device, stop_device).  The run *)
(* VStatus shows that the condition is needed.                             *)
(***************************************************************************)
THEOREM StatusFollowsSockets ==
  ASSUME "transition" \in Shielded
  PROVE  Spec => []StatusIsTrue
<1>1. Init => StatusInv
  BY DEF Init, StatusInv, TransportOf, Settled, Unsettled
<1>2. LeaseInv /\ StatusInv /\ [Next]_vars => StatusInv'
  BY StatusKeeps
<1>3. LeaseInv /\ StatusInv => StatusIsTrue
  <2> SUFFICES ASSUME LeaseInv, StatusInv, NEW d \in Devices, holder[d] = None
               PROVE  Settled(d)
    BY DEF StatusIsTrue, Settled
  <2>1. \A t \in Tasks : pc[t] \in Unsettled => key[t][1] # d
    BY ServiceAssumption DEF LeaseInv, LockInv, Unsettled, InsideLabels, AwaitLabels
  <2> QED BY <2>1 DEF StatusInv
<1> QED BY <1>1, <1>2, <1>3, LeaseInvariant, PTL DEF Spec
=============================================================================
