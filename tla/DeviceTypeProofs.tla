-------------------------- MODULE DeviceTypeProofs --------------------------
(***************************************************************************)
(* Type correctness of DeviceService, for every instance.                  *)
(***************************************************************************)
EXTENDS DeviceProperties, WellFoundedInduction, TLAPS

\* build_local_object makes an object.
LEMMA NewObjectType ==
  ASSUME NEW v \in Values
  PROVE  NewObject(v) \in Object
  BY DEF Object, NewObject, MaybeValue

\* Counting a command keeps an object an object.
LEMMA CountType ==
  ASSUME NEW o \in Object
  PROVE  /\ CountCommand(o) \in Object
         /\ CountCommand(o).rev = o.rev + 1
  BY DEF Object, CountCommand

\* So does a command, or a relinquish, at a slot.
LEMMA CommandType ==
  ASSUME NEW o \in Object, NEW p \in Priorities, NEW w \in MaybeValue
  PROVE  Command(o, p, w) \in Object
  BY CountType DEF Command, Object

\* So does a move of the simulated input.
LEMMA SensorType ==
  ASSUME NEW o \in Object, NEW v \in Values
  PROVE  UpdateSensor(o, v) \in Object
  BY CountType DEF UpdateSensor, Object

\* So does a write of Out_Of_Service.
LEMMA OutOfServiceType ==
  ASSUME NEW o \in Object, NEW b \in BOOLEAN
  PROVE  SetOutOfService(o, b) \in Object
  BY DEF SetOutOfService, Object

\* Priority arbitration never yields Null.
LEMMA ArbitrateType ==
  ASSUME NEW o \in Object
  PROVE  Arbitrate(o) \in Values
<1>1. CASE Filled(o) = {}
  BY <1>1 DEF Arbitrate, Object
<1>2. CASE Filled(o) # {}
  <2>1. Filled(o) \subseteq Nat
    BY PointAssumption DEF Filled
  <2>2. PICK n \in Filled(o) : \A q \in Filled(o) : ~ (<<q, n>> \in OpToRel(<, Nat))
    BY <1>2, <2>1, NatLessThanWellFounded, WFMin
  <2>3. \A q \in Filled(o) : n <= q
    <3> SUFFICES ASSUME NEW q \in Filled(o), ~ (n <= q) PROVE FALSE
      OBVIOUS
    <3>1. q \in Nat /\ n \in Nat /\ q < n
      BY <2>1
    <3>2. <<q, n>> \in OpToRel(<, Nat)
      BY <3>1 DEF OpToRel
    <3> QED BY <2>2, <3>2
  <2>4. (CHOOSE p \in Filled(o) : \A q \in Filled(o) : p <= q) \in Filled(o)
    BY <2>3
  <2> QED BY <1>2, <2>4 DEF Arbitrate, Filled, Object, MaybeValue
<1> QED BY <1>1, <1>2
-----------------------------------------------------------------------------
(* One step of a helper keeps the types. *)

\* The updates of an operation's locals that the actions make.
LEMMA FrameUpdates ==
  ASSUME NEW f \in Frame
  PROVE  /\ \A i \in 1..(NP + 1) : [f EXCEPT !.idx = i] \in Frame
         /\ \A i \in 1..(NP + 1), v \in MaybeValue :
              [f EXCEPT !.idx = i, !.got = v] \in Frame
         /\ [f EXCEPT !.idx = 1] \in Frame
         /\ f.idx <= NP => [f EXCEPT !.idx = f.idx + 1] \in Frame
         /\ \A v \in MaybeValue : [f EXCEPT !.prev = v] \in Frame
         /\ \A r \in Nat, v \in MaybeValue :
              [f EXCEPT !.rev = r, !.was = v] \in Frame
         /\ [f EXCEPT !.stopped = TRUE] \in Frame
         /\ [f EXCEPT !.final = TRUE] \in Frame
         /\ \A c \in {"error", "cancel"} :
              [f EXCEPT !.exc = c, !.stopped = @ \/ c = "cancel"] \in Frame
<1>1. 1 \in 1..(NP + 1) /\ (f.idx <= NP => f.idx + 1 \in 1..(NP + 1))
  BY ServiceAssumption DEF Frame
<1>2. \A i \in 1..(NP + 1) : [f EXCEPT !.idx = i] \in Frame
  BY DEF Frame
<1>3. \A i \in 1..(NP + 1), v \in MaybeValue :
        [f EXCEPT !.idx = i, !.got = v] \in Frame
  BY DEF Frame
<1>4. \A r \in Nat, v \in MaybeValue : [f EXCEPT !.rev = r, !.was = v] \in Frame
  BY DEF Frame
<1>5. /\ \A v \in MaybeValue : [f EXCEPT !.prev = v] \in Frame
      /\ [f EXCEPT !.stopped = TRUE] \in Frame
      /\ [f EXCEPT !.final = TRUE] \in Frame
      /\ \A c \in {"error", "cancel"} :
           [f EXCEPT !.exc = c, !.stopped = @ \/ c = "cancel"] \in Frame
  BY DEF Frame
<1> QED BY <1>1, <1>2, <1>3, <1>4, <1>5

\* The locals an operation starts with.
LEMMA BlankType ==
  /\ Blank \in Frame
  /\ \A v \in MaybeValue : [Blank EXCEPT !.val = v] \in Frame
  /\ \A v \in MaybeValue, p \in Priorities :
       [Blank EXCEPT !.val = v, !.prio = p] \in Frame
<1>1. NoValue \in MaybeValue /\ DefaultPriority \in Priorities
      /\ NoRev \in Nat \cup {NoRev} /\ 1 \in 1..(NP + 1)
  BY PointAssumption, ServiceAssumption DEF MaybeValue
<1> HIDE DEF NoRev
<1> QED BY <1>1 DEF Blank, Frame

\* The target an idle task is shown with.
LEMMA HomeType == Home \in Keys
  BY ServiceAssumption DEF Home, Keys, Devices, Points

\* Running on, or suspending, at a label.
LEMMA SetControl ==
  ASSUME ControlType, NEW t \in Tasks, NEW l \in Labels,
         Continue(t, l) \/ Suspend(t, l)
  PROVE  ControlType'
  BY DEF ControlType, Continue, Suspend

\* Replacing one task's locals.
LEMMA SetFrame ==
  ASSUME LocalsType, NEW t \in Tasks, NEW g \in Frame,
         frame' = [frame EXCEPT ![t] = g], UNCHANGED <<call, key>>
  PROVE  LocalsType'
  BY DEF LocalsType

\* Replacing one task's operation.
LEMMA KeepFrame ==
  ASSUME LocalsType, NEW t \in Tasks, NEW c \in Calls,
         call' = [call EXCEPT ![t] = c], UNCHANGED <<key, frame>>
  PROVE  LocalsType'
  BY DEF LocalsType

\* Ending an operation.
LEMMA FinishType ==
  ASSUME ControlType, LocalsType, NEW t \in Tasks, Finish(t)
  PROVE  ControlType' /\ LocalsType'
<1>1. ControlType'
  BY SetControl DEF Finish, Labels
<1>2. LocalsType'
  BY BlankType, HomeType DEF Finish, LocalsType, Calls
<1> QED BY <1>1, <1>2

\* Going on to the next operation.
LEMMA ProceedType ==
  ASSUME ControlType, LocalsType, NEW t \in Tasks, NEW c \in Calls, Proceed(t, c),
         UNCHANGED frame
  PROVE  ControlType' /\ LocalsType'
<1>1. ControlType'
  BY SetControl DEF Proceed, Labels
<1>2. LocalsType'
  BY DEF Proceed, LocalsType
<1> QED BY <1>1, <1>2

\* Leaving the lock.
LEMMA ReleaseType ==
  ASSUME LocksType, NEW t \in Tasks, Release(t)
  PROVE  LocksType'
  BY DEF LocksType, Release

\* An effective value is a value: what _refresh compares and persists.
LEMMA EffectiveType ==
  ASSUME NetworkType, NEW k \in Keys
  PROVE  Effective(k) \in Values
  BY ArbitrateType DEF NetworkType, Effective, PresentValue, Object

\* What an override saves; for an input it is never Null.
LEMMA ControlValueType ==
  ASSUME NEW o \in Object, NEW c \in BOOLEAN
  PROVE  /\ ControlValue(c, o) \in MaybeValue
         /\ ~c => ControlValue(c, o) \in Values
  BY PointAssumption DEF ControlValue, Object, MaybeValue

\* What the engine writes for a task is again an object.
LEMMA WrittenType ==
  ASSUME TypeOK, NEW t \in Tasks, NEW p \in Priorities, NEW v \in MaybeValue,
         IsCommandable(key[t]) \/ v \in Values
  PROVE  Written(t, p, v) \in Object
  BY CommandType, SensorType DEF Written, EngineWrite, TypeOK, NetworkType, LocalsType

\* A task's command to its point keeps the network's types.
LEMMA SetObjectType ==
  ASSUME TypeOK, NEW t \in Tasks, NEW o \in Object, NEW by \in Tasks \cup {None},
         SetObject(t, o, by), UNCHANGED <<app, sock>>
  PROVE  NetworkType'
<1>1. key[t] \in Keys
  BY DEF TypeOK, LocalsType
<1>2. obj' \in [Keys -> Object]
  BY <1>1 DEF SetObject, TypeOK, NetworkType
<1>3. author' \in [Keys -> Tasks \cup {None}]
  BY <1>1 DEF SetObject, TypeOK, NetworkType
<1> QED BY <1>2, <1>3 DEF TypeOK, NetworkType

\* The same for the point a task works on.
LEMMA HeldValueType ==
  ASSUME TypeOK, NEW t \in Tasks
  PROVE  ControlValue(IsCommandable(key[t]), obj[key[t]]) \in MaybeValue
<1>1. obj[key[t]] \in Object
  BY DEF TypeOK, NetworkType, LocalsType
<1>2. IsCommandable(key[t]) \in BOOLEAN
  BY DEF IsCommandable
<1> QED BY <1>1, <1>2, ControlValueType

\* A BACnet client's write leaves an object.
LEMMA NativeWriteObject ==
  ASSUME NEW o \in Object, NEW c \in BOOLEAN, NEW w \in NativeWrites(c, o)
  PROVE  w \in Object
<1>1. CASE c
  <2>1. \A v \in Values : [o EXCEPT !.default = v] \in Object
    BY DEF Object
  <2> QED BY <1>1, <2>1, CommandType DEF NativeWrites
<1>2. CASE ~c
  <2>1. \A v \in Values : [o EXCEPT !.shown = v] \in Object
    BY DEF Object
  <2> QED BY <1>2, <2>1, OutOfServiceType DEF NativeWrites
<1> QED BY <1>1, <1>2

\* The point _refresh is at is a point.
LEMMA ScannedType ==
  ASSUME TypeOK, NEW t \in Tasks, frame[t].idx <= NP
  PROVE  Scanned(t) \in Keys
  BY DEF Scanned, TypeOK, LocalsType, Frame, Keys, Points

\* Taking a cancelled task out of the queue.
LEMMA RemoveType ==
  ASSUME NEW S, NEW s \in Seq(S), NEW i \in DOMAIN s
  PROVE  SubSeq(s, 1, i - 1) \o SubSeq(s, i + 1, Len(s)) \in Seq(S)
  OBVIOUS

\* Taking the first task out of the queue.
LEMMA TailType ==
  ASSUME NEW S, NEW s \in Seq(S), s # <<>>
  PROVE  Tail(s) \in Seq(S)
  OBVIOUS

\* One failure less.
LEMMA UseFaultType ==
  ASSUME BoundsType, UseFault
  PROVE  faults' \in 0..MaxFaults
  BY ServiceAssumption DEF BoundsType, UseFault

\* What an action leaves alone keeps its type.
LEMMA KeepTypes ==
  ASSUME TypeOK
  PROVE  /\ UNCHANGED network => NetworkType'
         /\ UNCHANGED memory => MemoryType'
         /\ UNCHANGED store => StoreType'
         /\ UNCHANGED locks => LocksType'
         /\ UNCHANGED control => ControlType'
         /\ UNCHANGED locals => LocalsType'
         /\ UNCHANGED bounds => BoundsType'
  BY DEF TypeOK, network, memory, store, locks, control, locals, bounds,
     NetworkType, MemoryType, StoreType, LocksType, ControlType, LocalsType,
     BoundsType

\* Beginning an operation keeps every type.
LEMMA BeginType ==
  ASSUME TypeOK, NEW t \in Tasks, NEW c \in Calls, NEW k \in Keys,
         NEW f \in Frame, Begin(t, c, k, f), inputs' \in 0..MaxInputs
  PROVE  TypeOK'
<1>1. LocalsType'
  BY DEF Begin, TypeOK, LocalsType
<1>2. ControlType'
  BY SetControl DEF Begin, TypeOK, Labels
<1>3. BoundsType'
  BY DEF Begin, TypeOK, BoundsType
<1> QED BY <1>1, <1>2, <1>3, KeepTypes DEF TypeOK, Begin

-----------------------------------------------------------------------------
(* Every action keeps every type. *)

\* RequestLock keeps every type.
LEMMA RequestLockType ==
  ASSUME TypeOK, NEW t \in Tasks, RequestLock(t)
  PROVE  TypeOK'
<1>1. LocksType'
  <2>1. key[t][1] \in Devices
    BY DEF TypeOK, LocalsType, Keys
  <2>2. Append(waiters[key[t][1]], t) \in Seq(Tasks)
    BY <2>1 DEF TypeOK, LocksType
  <2> QED BY <2>1, <2>2 DEF RequestLock, TypeOK, LocksType
<1>2. ControlType'
  BY SetControl DEF RequestLock, TypeOK, Labels, InsideLabels, AwaitLabels,
     SleepLabels
<1> QED BY <1>1, <1>2, KeepTypes DEF TypeOK, RequestLock

\* TakeLock keeps every type.
LEMMA TakeLockType ==
  ASSUME TypeOK, NEW t \in Tasks, TakeLock(t)
  PROVE  TypeOK'
<1>1. LocksType'
  BY TailType DEF TakeLock, TypeOK, LocksType, LocalsType, Keys
<1>2. ControlType'
  BY SetControl DEF TakeLock, TypeOK, Labels, InsideLabels, AwaitLabels,
     SleepLabels
<1> QED BY <1>1, <1>2, KeepTypes DEF TypeOK, TakeLock

\* EnterRead keeps every type.
LEMMA EnterReadType ==
  ASSUME TypeOK, NEW t \in Tasks, EnterRead(t)
  PROVE  TypeOK'
<1>1. ControlType'
  BY SetControl DEF EnterRead, TypeOK, Labels, InsideLabels, AwaitLabels,
     SleepLabels
<1> QED BY <1>1, KeepTypes DEF TypeOK, EnterRead

\* EnterWrite keeps every type.
LEMMA EnterWriteType ==
  ASSUME TypeOK, ArgsInv, NEW t \in Tasks, EnterWrite(t)
  PROVE  TypeOK'
<1>1. NetworkType'
  <2>1. frame[t].val \in MaybeValue /\ frame[t].prio \in Priorities
        /\ (IsCommandable(key[t]) \/ frame[t].val \in Values)
    BY DEF EnterWrite, Enters, ArgsInv, TypeOK, LocalsType, Frame
  <2>2. Written(t, frame[t].prio, frame[t].val) \in Object
    BY <2>1, WrittenType
  <2>3. CASE UNCHANGED <<obj, author>>
    BY <2>3 DEF EnterWrite, TypeOK, NetworkType
  <2>4. CASE SetObject(t, Written(t, frame[t].prio, frame[t].val), t)
    BY <2>2, <2>4, SetObjectType DEF EnterWrite
  <2> QED BY <2>3, <2>4 DEF EnterWrite
<1>2. ControlType'
  BY SetControl DEF EnterWrite, TypeOK, Labels, InsideLabels, AwaitLabels,
     SleepLabels
<1> QED BY <1>1, <1>2, KeepTypes DEF TypeOK, EnterWrite

\* Scan keeps every type.
LEMMA ScanType ==
  ASSUME TypeOK, KindInv, NEW t \in Tasks, Scan(t)
  PROVE  TypeOK'
<1>1. LocalsType'
  <2>1. CASE UNCHANGED frame
    BY <2>1 DEF Scan, TypeOK, LocalsType
  <2>2. CASE ~ UNCHANGED frame
    <3>1. PICK i \in Changed(t) :
            frame' = [frame EXCEPT ![t].idx = i,
                                   ![t].got = Effective(<<key[t][1], i>>)]
      BY <2>2 DEF Scan
    <3>2. i \in 1..NP /\ <<key[t][1], i>> \in Keys
      BY DEF Changed, TypeOK, LocalsType, Frame, Keys, Points
    <3>3. Effective(<<key[t][1], i>>) \in MaybeValue
      BY <3>2, EffectiveType DEF TypeOK, MaybeValue
    <3> DEFINE g == [frame[t] EXCEPT !.idx = i,
                                     !.got = Effective(<<key[t][1], i>>)]
    <3>4. i \in 1..(NP + 1)
      BY <3>2, ServiceAssumption
    <3>6. frame[t] \in Frame
      BY DEF TypeOK, LocalsType
    <3>7. g \in Frame
      BY <3>3, <3>4, <3>6, FrameUpdates
    <3>5. frame' = [frame EXCEPT ![t] = g] /\ UNCHANGED <<call, key>>
      BY <3>1 DEF Scan, TypeOK, LocalsType
    <3> QED BY <3>7, <3>5, SetFrame DEF TypeOK
  <2> QED BY <2>1, <2>2
<1>2. ControlType'
  BY SetControl DEF Scan, TypeOK, Throw, Labels, InsideLabels, AwaitLabels,
     SleepLabels
<1> QED BY <1>1, <1>2, KeepTypes DEF TypeOK, Scan

\* Persist keeps every type.
LEMMA PersistType ==
  ASSUME TypeOK, ArgsInv, NEW t \in Tasks, Persist(t)
  PROVE  TypeOK'
<1>1. StoreType'
  BY ScannedType DEF Persist, TypeOK, StoreType, Resumes, ArgsInv
<1>2. ControlType'
  BY SetControl DEF Persist, TypeOK, Labels, InsideLabels, AwaitLabels,
     SleepLabels
<1> QED BY <1>1, <1>2, KeepTypes DEF TypeOK, Persist

\* Record keeps every type.
LEMMA RecordType ==
  ASSUME TypeOK, ArgsInv, NEW t \in Tasks, Record(t)
  PROVE  TypeOK'
<1>1. MemoryType'
  BY ScannedType DEF Record, TypeOK, MemoryType, Resumes, ArgsInv
<1>2. StoreType'
  BY ScannedType DEF Record, TypeOK, StoreType, Resumes, ArgsInv, Event,
     MemoryType
<1>3. LocalsType'
  <2>1. frame' = [frame EXCEPT ![t] = [frame[t] EXCEPT !.idx = frame[t].idx + 1]]
        /\ UNCHANGED <<call, key>>
    BY DEF Record, locals
  <2>2. [frame[t] EXCEPT !.idx = frame[t].idx + 1] \in Frame
    BY FrameUpdates DEF TypeOK, LocalsType, Record, Resumes, ArgsInv
  <2>3. LocalsType
    BY DEF TypeOK
  <2> QED BY <2>1, <2>2, <2>3, SetFrame
<1>4. ControlType'
  BY SetControl DEF Record, TypeOK, Labels, InsideLabels, AwaitLabels,
     SleepLabels
<1> QED BY <1>1, <1>2, <1>3, <1>4, KeepTypes DEF TypeOK, Record

\* RefreshFails keeps every type.
LEMMA RefreshFailsType ==
  ASSUME TypeOK, NEW t \in Tasks, RefreshFails(t)
  PROVE  TypeOK'
<1>1. ControlType'
  BY SetControl DEF RefreshFails, TypeOK, Throw, Labels, InsideLabels,
     AwaitLabels, SleepLabels
<1>2. BoundsType'
  BY UseFaultType DEF RefreshFails, TypeOK, BoundsType
<1> QED BY <1>1, <1>2, KeepTypes DEF TypeOK, RefreshFails

\* Reserve keeps every type.
LEMMA ReserveType ==
  ASSUME TypeOK, KindInv, NEW t \in Tasks, Reserve(t)
  PROVE  TypeOK'
<1>1. MemoryType'
  BY DEF Reserve, TypeOK, MemoryType, Enters, KindInv, OverrideCalls,
     Running, Release, LocalsType
<1>2. LocksType'
  BY ReleaseType, KeepTypes DEF Reserve, TypeOK, LocksType
<1>3. LocalsType'
  <2> DEFINE g == [frame[t] EXCEPT !.prev =
                     ControlValue(IsCommandable(key[t]), obj[key[t]])]
  <2>1. CASE UNCHANGED locals
    BY <2>1, KeepTypes
  <2>2. CASE ~ UNCHANGED locals
    <3>1. frame' = [frame EXCEPT ![t] = g]
      BY <2>2 DEF Reserve
    <3>2. ControlValue(IsCommandable(key[t]), obj[key[t]]) \in MaybeValue
      BY HeldValueType
    <3>3. g \in Frame
      BY <3>2, FrameUpdates DEF TypeOK, LocalsType
    <3>4. UNCHANGED key /\ call' = [call EXCEPT ![t] = "force"]
      BY <2>2 DEF Reserve, Proceed
    <3> QED BY <3>1, <3>3, <3>4 DEF TypeOK, LocalsType, Calls
  <2> QED BY <2>1, <2>2
<1>4. ControlType'
  BY SetControl DEF Reserve, TypeOK, Proceed, Labels, InsideLabels,
     AwaitLabels, SleepLabels
<1> QED BY <1>1, <1>2, <1>3, <1>4, KeepTypes DEF TypeOK, Reserve

\* ForceValue keeps every type.
LEMMA ForceValueType ==
  ASSUME TypeOK, ArgsInv, NEW t \in Tasks, ForceValue(t)
  PROVE  TypeOK'
<1>1. NetworkType'
  <2>1. frame[t].val \in Values /\ frame[t].val \in MaybeValue
    BY DEF ForceValue, Enters, ArgsInv, OverrideCalls, MaybeValue
  <2>2. Written(t, ControlPriority, frame[t].val) \in Object
    BY <2>1, WrittenType, PointAssumption
  <2>3. CASE UNCHANGED <<obj, author>>
    BY <2>3 DEF ForceValue, TypeOK, NetworkType
  <2>4. CASE SetObject(t, Written(t, ControlPriority, frame[t].val), t)
    BY <2>2, <2>4, SetObjectType DEF ForceValue
  <2> QED BY <2>3, <2>4 DEF ForceValue
<1>2. LocalsType'
  <2> DEFINE o == Written(t, ControlPriority, frame[t].val)
             w == ControlValue(IsCommandable(key[t]), obj[key[t]])
             g == [frame[t] EXCEPT !.rev = o.rev, !.was = w]
  <2>1. CASE UNCHANGED frame
    BY <2>1 DEF ForceValue, TypeOK, LocalsType
  <2>2. CASE ~ UNCHANGED frame
    <3>1. frame' = [frame EXCEPT ![t] = g] /\ UNCHANGED <<call, key>>
      BY <2>2 DEF ForceValue, TypeOK, LocalsType
    <3>2. frame[t].val \in Values /\ frame[t].val \in MaybeValue
      BY DEF ForceValue, Enters, ArgsInv, OverrideCalls, MaybeValue
    <3>3. o.rev \in Nat
      BY <3>2, WrittenType, PointAssumption DEF Object
    <3>4. w \in MaybeValue
      BY HeldValueType
    <3>5. g \in Frame
      BY <3>3, <3>4, FrameUpdates DEF TypeOK, LocalsType
    <3> QED BY <3>1, <3>5, SetFrame DEF TypeOK
  <2> QED BY <2>1, <2>2
<1>3. ControlType'
  BY SetControl DEF ForceValue, TypeOK, Labels, InsideLabels, AwaitLabels,
     SleepLabels
<1> QED BY <1>1, <1>2, <1>3, KeepTypes DEF TypeOK, ForceValue

\* HoldEnds keeps every type.
LEMMA HoldEndsType ==
  ASSUME TypeOK, NEW t \in Tasks, HoldEnds(t)
  PROVE  TypeOK'
<1>1. LocalsType'
  BY ProceedType DEF HoldEnds, TypeOK, LocalsType, ControlType, Calls
<1>2. ControlType'
  BY SetControl DEF HoldEnds, TypeOK, Proceed, Labels, InsideLabels,
     AwaitLabels, SleepLabels
<1> QED BY <1>1, <1>2, KeepTypes DEF TypeOK, HoldEnds

\* Restore keeps every type.
LEMMA RestoreType ==
  ASSUME TypeOK, ArgsInv, NEW t \in Tasks, Restore(t)
  PROVE  TypeOK'
<1>1. NetworkType'
  <2>1. frame[t].prev \in MaybeValue
        /\ (IsCommandable(key[t]) \/ frame[t].prev \in Values)
    BY DEF Restore, Enters, ArgsInv, OverrideCalls, Overriding, TypeOK, LocalsType, Frame
  <2>2. Written(t, ControlPriority, frame[t].prev) \in Object
    BY <2>1, WrittenType, PointAssumption
  <2>3. CASE UNCHANGED <<obj, author>>
    BY <2>3 DEF Restore, TypeOK, NetworkType
  <2>4. CASE SetObject(t, Written(t, ControlPriority, frame[t].prev), None)
    BY <2>2, <2>4, SetObjectType DEF Restore
  <2> QED BY <2>3, <2>4 DEF Restore
<1>2. LocalsType'
  <2>1. frame' = [frame EXCEPT ![t] = [frame[t] EXCEPT !.idx = 1]]
        /\ UNCHANGED <<call, key>>
    BY DEF Restore, locals
  <2>2. [frame[t] EXCEPT !.idx = 1] \in Frame
    BY FrameUpdates DEF TypeOK, LocalsType
  <2>3. LocalsType
    BY DEF TypeOK
  <2> QED BY <2>1, <2>2, <2>3, SetFrame
<1>3. ControlType'
  BY SetControl DEF Restore, TypeOK, Labels, InsideLabels, AwaitLabels,
     SleepLabels
<1> QED BY <1>1, <1>2, <1>3, KeepTypes DEF TypeOK, Restore

\* EnterOffline keeps every type.
LEMMA EnterOfflineType ==
  ASSUME TypeOK, NEW t \in Tasks, EnterOffline(t)
  PROVE  TypeOK'
<1>1. LocalsType'
  <2>1. frame' = [frame EXCEPT ![t] = [frame[t] EXCEPT !.idx = 1]]
        /\ UNCHANGED <<call, key>>
    BY DEF EnterOffline, locals
  <2>2. [frame[t] EXCEPT !.idx = 1] \in Frame
    BY FrameUpdates DEF TypeOK, LocalsType
  <2>3. LocalsType
    BY DEF TypeOK
  <2> QED BY <2>1, <2>2, <2>3, SetFrame
<1>2. ControlType'
  BY SetControl DEF EnterOffline, TypeOK, Labels, InsideLabels, AwaitLabels,
     SleepLabels
<1> QED BY <1>1, <1>2, KeepTypes DEF TypeOK, EnterOffline

\* BeginStop keeps every type.
LEMMA BeginStopType ==
  ASSUME TypeOK, NEW t \in Tasks, BeginStop(t)
  PROVE  TypeOK'
<1>1. NetworkType'
  BY DEF BeginStop, TypeOK, NetworkType
<1>2. MemoryType'
  BY DEF BeginStop, TypeOK, MemoryType, Statuses
<1>3. ControlType'
  BY SetControl DEF BeginStop, TypeOK, Labels, InsideLabels, AwaitLabels,
     SleepLabels
<1> QED BY <1>1, <1>2, <1>3, KeepTypes DEF TypeOK, BeginStop

\* CloseApp keeps every type.
LEMMA CloseAppType ==
  ASSUME TypeOK, NEW t \in Tasks, CloseApp(t)
  PROVE  TypeOK'
<1>1. NetworkType'
  BY DEF CloseApp, TypeOK, NetworkType
<1>2. ControlType'
  BY SetControl DEF CloseApp, TypeOK, Labels, InsideLabels, AwaitLabels,
     SleepLabels
<1> QED BY <1>1, <1>2, KeepTypes DEF TypeOK, CloseApp

\* EndStop keeps every type.
LEMMA EndStopType ==
  ASSUME TypeOK, NEW t \in Tasks, EndStop(t)
  PROVE  TypeOK'
<1>1. MemoryType'
  BY DEF EndStop, TypeOK, MemoryType, Statuses
<1>2. ControlType'
  BY SetControl DEF EndStop, TypeOK, Labels, InsideLabels, AwaitLabels,
     SleepLabels
<1> QED BY <1>1, <1>2, KeepTypes DEF TypeOK, EndStop

\* EnterOnline keeps every type.
LEMMA EnterOnlineType ==
  ASSUME TypeOK, NEW t \in Tasks, EnterOnline(t)
  PROVE  TypeOK'
<1>1. NetworkType'
  BY DEF EnterOnline, TypeOK, NetworkType
<1>2. MemoryType'
  BY DEF EnterOnline, TypeOK, MemoryType, Statuses
<1>3. ControlType'
  BY SetControl DEF EnterOnline, TypeOK, Labels, InsideLabels, AwaitLabels,
     SleepLabels
<1> QED BY <1>1, <1>2, <1>3, KeepTypes DEF TypeOK, EnterOnline

\* EndStart keeps every type.
LEMMA EndStartType ==
  ASSUME TypeOK, NEW t \in Tasks, EndStart(t)
  PROVE  TypeOK'
<1>1. MemoryType'
  BY DEF EndStart, TypeOK, MemoryType, Statuses
<1>2. ControlType'
  BY SetControl DEF EndStart, TypeOK, Labels, InsideLabels, AwaitLabels,
     SleepLabels
<1> QED BY <1>1, <1>2, KeepTypes DEF TypeOK, EndStart

\* StartFails keeps every type.
LEMMA StartFailsType ==
  ASSUME TypeOK, NEW t \in Tasks, StartFails(t)
  PROVE  TypeOK'
<1>1. NetworkType'
  BY DEF StartFails, TypeOK, NetworkType, AbortStart
<1>2. LocalsType'
  <2>1. frame' = [frame EXCEPT ![t] = [frame[t] EXCEPT !.exc = "error", !.stopped = @ \/ "error" = "cancel"]]
        /\ UNCHANGED <<call, key>>
    BY DEF StartFails, AbortStart, locals
  <2>2. [frame[t] EXCEPT !.exc = "error", !.stopped = @ \/ "error" = "cancel"] \in Frame
    BY FrameUpdates DEF TypeOK, LocalsType
  <2>3. LocalsType
    BY DEF TypeOK
  <2> QED BY <2>1, <2>2, <2>3, SetFrame
<1>3. ControlType'
  BY SetControl DEF StartFails, TypeOK, AbortStart, Labels, InsideLabels,
     AwaitLabels, SleepLabels
<1>4. BoundsType'
  BY UseFaultType DEF StartFails, TypeOK, BoundsType, AbortStart
<1>5. MemoryType'
  BY DEF StartFails, TypeOK, MemoryType, AbortStart, memory
<1>6. StoreType'
  BY DEF StartFails, TypeOK, StoreType, AbortStart, store
<1>7. LocksType'
  BY DEF StartFails, TypeOK, LocksType, AbortStart, locks
<1> QED BY <1>1, <1>2, <1>3, <1>4, <1>5, <1>6, <1>7, KeepTypes DEF TypeOK,
   StartFails

\* Fault keeps every type.
LEMMA FaultType ==
  ASSUME TypeOK, NEW t \in Tasks, Fault(t)
  PROVE  TypeOK'
<1>1. MemoryType'
  BY DEF Fault, TypeOK, MemoryType, Statuses
<1>2. ControlType'
  BY SetControl DEF Fault, TypeOK, Labels, InsideLabels, AwaitLabels,
     SleepLabels
<1> QED BY <1>1, <1>2, KeepTypes DEF TypeOK, Fault

\* WriteStatusRow keeps every type.
LEMMA WriteStatusRowType ==
  ASSUME TypeOK, NEW t \in Tasks, WriteStatusRow(t)
  PROVE  TypeOK'
<1>1. StoreType'
  BY DEF WriteStatusRow, TypeOK, StoreType, Statuses, MemoryType,
     LocalsType, Keys
<1>2. ControlType'
  BY SetControl DEF WriteStatusRow, TypeOK, Labels, InsideLabels,
     AwaitLabels, SleepLabels
<1> QED BY <1>1, <1>2, KeepTypes DEF TypeOK, WriteStatusRow

\* RecordStatus keeps every type.
LEMMA RecordStatusType ==
  ASSUME TypeOK, NEW t \in Tasks, RecordStatus(t)
  PROVE  TypeOK'
<1>1. ControlType'
  BY SetControl DEF RecordStatus, TypeOK, Labels, InsideLabels, AwaitLabels,
     SleepLabels
<1> QED BY <1>1, KeepTypes DEF TypeOK, RecordStatus

\* StatusStoreFails keeps every type.
LEMMA StatusStoreFailsType ==
  ASSUME TypeOK, NEW t \in Tasks, StatusStoreFails(t)
  PROVE  TypeOK'
<1>1. ControlType'
  BY SetControl DEF StatusStoreFails, TypeOK, Labels, InsideLabels,
     AwaitLabels, SleepLabels
<1>2. BoundsType'
  BY UseFaultType DEF StatusStoreFails, TypeOK, BoundsType
<1> QED BY <1>1, <1>2, KeepTypes DEF TypeOK, StatusStoreFails

\* EndCall keeps every type.
LEMMA EndCallType ==
  ASSUME TypeOK, NEW t \in Tasks, EndCall(t)
  PROVE  TypeOK'
<1>1. LocksType'
  BY ReleaseType DEF EndCall, TypeOK, LocksType
<1>2. LocalsType'
  <2>1. CASE UNCHANGED locals
    BY <2>1, KeepTypes
  <2>2. CASE Finish(t)
    BY <2>2, FinishType DEF TypeOK
  <2>3. CASE /\ key' = [key EXCEPT ![t] = <<key[t][1] + 1, 1>>]
             /\ frame' = [frame EXCEPT ![t].idx = 1]
             /\ UNCHANGED call
             /\ key[t][1] < ND
    <3>1. <<key[t][1] + 1, 1>> \in Keys
      BY <2>3, ServiceAssumption
      DEF TypeOK, LocalsType, Keys, Devices, Points
    <3>2. [frame[t] EXCEPT !.idx = 1] \in Frame
      BY FrameUpdates DEF TypeOK, LocalsType
    <3> QED BY <2>3, <3>1, <3>2 DEF TypeOK, LocalsType
  <2> QED BY <2>1, <2>2, <2>3 DEF EndCall
<1>3. ControlType'
  BY SetControl, FinishType DEF EndCall, TypeOK, Labels, InsideLabels,
     AwaitLabels, SleepLabels
<1> QED BY <1>1, <1>2, <1>3, KeepTypes DEF TypeOK, EndCall

\* EndOverride keeps every type.
LEMMA EndOverrideType ==
  ASSUME TypeOK, NEW t \in Tasks, EndOverride(t)
  PROVE  TypeOK'
<1>1. MemoryType'
  BY DEF EndOverride, TypeOK, MemoryType, FreePoint, LocalsType
<1>2. LocksType'
  BY ReleaseType DEF EndOverride, TypeOK, LocksType
<1>3. LocalsType'
  BY FinishType DEF EndOverride, TypeOK, LocalsType
<1>4. ControlType'
  BY FinishType DEF EndOverride, TypeOK, ControlType, Labels, InsideLabels,
     AwaitLabels, SleepLabels
<1> QED BY <1>1, <1>2, <1>3, <1>4, KeepTypes DEF TypeOK, EndOverride

\* EndTransition keeps every type.
LEMMA EndTransitionType ==
  ASSUME TypeOK, NEW t \in Tasks, EndTransition(t)
  PROVE  TypeOK'
<1>1. LocksType'
  BY ReleaseType DEF EndTransition, TypeOK, LocksType
<1>2. LocalsType'
  BY FinishType, KeepTypes DEF EndTransition, TypeOK, LocalsType,
     ControlType
<1>3. ControlType'
  BY SetControl, FinishType DEF EndTransition, TypeOK, Labels, InsideLabels,
     AwaitLabels, SleepLabels
<1> QED BY <1>1, <1>2, <1>3, KeepTypes DEF TypeOK, EndTransition

\* SleepEnds keeps every type.
LEMMA SleepEndsType ==
  ASSUME TypeOK, NEW t \in Tasks, SleepEnds(t)
  PROVE  TypeOK'
<1>1. LocalsType'
  BY ProceedType DEF SleepEnds, TypeOK, LocalsType, ControlType, Calls
<1>2. ControlType'
  BY SetControl DEF SleepEnds, TypeOK, Proceed, Labels, InsideLabels,
     AwaitLabels, SleepLabels
<1> QED BY <1>1, <1>2, KeepTypes DEF TypeOK, SleepEnds

\* Unwind keeps every type.
LEMMA UnwindType ==
  ASSUME TypeOK, NEW t \in Tasks, Unwind(t)
  PROVE  TypeOK'
<1>1. MemoryType'
  BY DEF Unwind, TypeOK, MemoryType, FreePoint, LocalsType
<1>2. LocksType'
  BY ReleaseType DEF Unwind, TypeOK, LocksType
<1>3. LocalsType'
  BY FinishType, ProceedType, KeepTypes DEF Unwind, TypeOK, LocalsType,
     Calls
<1>4. ControlType'
  BY SetControl, FinishType DEF Unwind, TypeOK, Proceed, Labels,
     InsideLabels, AwaitLabels, SleepLabels
<1> QED BY <1>1, <1>2, <1>3, <1>4, KeepTypes DEF TypeOK, Unwind

\* Finally keeps every type.
LEMMA FinallyType ==
  ASSUME TypeOK, NEW t \in Tasks, Finally(t)
  PROVE  TypeOK'
<1>1. LocalsType'
  <2>1. CASE Finish(t)
    BY <2>1, FinishType DEF TypeOK
  <2>2. CASE Proceed(t, "online") /\ frame' = [frame EXCEPT ![t].final = TRUE]
    <3>1. [frame[t] EXCEPT !.final = TRUE] \in Frame
      BY FrameUpdates DEF TypeOK, LocalsType
    <3> QED BY <2>2, <3>1 DEF Proceed, TypeOK, LocalsType, Calls
  <2> QED BY <2>1, <2>2 DEF Finally
<1>2. ControlType'
  BY SetControl, FinishType DEF Finally, TypeOK, Proceed, Labels,
     InsideLabels, AwaitLabels, SleepLabels
<1> QED BY <1>1, <1>2, KeepTypes DEF TypeOK, Finally

\* CancelWaiting keeps every type.
LEMMA CancelWaitingType ==
  ASSUME TypeOK, NEW t \in Tasks, CancelWaiting(t)
  PROVE  TypeOK'
<1>1. LocksType'
  <2>1. key[t][1] \in Devices
    BY DEF TypeOK, LocalsType, Keys
  <2>2. PICK i \in DOMAIN waiters[key[t][1]] :
          waiters' = [waiters EXCEPT ![key[t][1]] =
                        SubSeq(@, 1, i - 1) \o SubSeq(@, i + 1, Len(@))]
    BY DEF CancelWaiting
  <2>3. SubSeq(waiters[key[t][1]], 1, i - 1)
          \o SubSeq(waiters[key[t][1]], i + 1, Len(waiters[key[t][1]]))
          \in Seq(Tasks)
    BY <2>1, RemoveType DEF TypeOK, LocksType
  <2> QED BY <2>1, <2>2, <2>3 DEF CancelWaiting, TypeOK, LocksType
<1>2. LocalsType'
  <2>1. frame' = [frame EXCEPT ![t] = [frame[t] EXCEPT !.stopped = TRUE]]
        /\ UNCHANGED <<call, key>>
    BY DEF CancelWaiting, MarkStopped, locals
  <2>2. [frame[t] EXCEPT !.stopped = TRUE] \in Frame
    BY FrameUpdates DEF TypeOK, LocalsType
  <2>3. LocalsType
    BY DEF TypeOK
  <2> QED BY <2>1, <2>2, <2>3, SetFrame
<1>3. ControlType'
  BY SetControl DEF CancelWaiting, TypeOK, Labels, InsideLabels,
     AwaitLabels, SleepLabels
<1> QED BY <1>1, <1>2, <1>3, KeepTypes DEF TypeOK, CancelWaiting

\* CancelSleep keeps every type.
LEMMA CancelSleepType ==
  ASSUME TypeOK, NEW t \in Tasks, CancelSleep(t)
  PROVE  TypeOK'
<1>1. LocalsType'
  BY FrameUpdates DEF CancelSleep, TypeOK, LocalsType, MarkStopped, Proceed,
     Calls
<1>2. ControlType'
  BY SetControl DEF CancelSleep, TypeOK, Proceed, Labels, InsideLabels,
     AwaitLabels, SleepLabels
<1> QED BY <1>1, <1>2, KeepTypes DEF TypeOK, CancelSleep

\* CancelStore keeps every type.
LEMMA CancelStoreType ==
  ASSUME TypeOK, ArgsInv, NEW t \in Tasks, CancelStore(t)
  PROVE  TypeOK'
<1>1. StoreType'
  <2>1. CASE UNCHANGED store
    BY <2>1, KeepTypes
  <2>2. CASE pc[t] \in {"persist", "record"}
    <3>1. Scanned(t) \in Keys /\ frame[t].got \in Values
      BY <2>2, ScannedType DEF ArgsInv
    <3>2. snap[Scanned(t)] \in Values
      BY <3>1 DEF TypeOK, MemoryType
    <3> QED BY <2>2, <3>1, <3>2, KeepTypes
            DEF CancelStore, TypeOK, StoreType, Event
  <2>3. CASE ~ UNCHANGED store /\ pc[t] \notin {"persist", "record"}
    BY <2>3 DEF CancelStore, TypeOK, StoreType, MemoryType, LocalsType, Keys
  <2> QED BY <2>1, <2>2, <2>3
<1>2. LocalsType'
  <2>1. frame' = [frame EXCEPT ![t] = [frame[t] EXCEPT !.stopped = TRUE]]
        /\ UNCHANGED <<call, key>>
    BY DEF CancelStore, MarkStopped, locals
  <2>2. [frame[t] EXCEPT !.stopped = TRUE] \in Frame
    BY FrameUpdates DEF TypeOK, LocalsType
  <2>3. LocalsType
    BY DEF TypeOK
  <2> QED BY <2>1, <2>2, <2>3, SetFrame
<1>3. ControlType'
  BY SetControl DEF CancelStore, TypeOK, Labels, InsideLabels, AwaitLabels,
     SleepLabels
<1> QED BY <1>1, <1>2, <1>3, KeepTypes DEF TypeOK, CancelStore

\* CancelTransport keeps every type.
LEMMA CancelTransportType ==
  ASSUME TypeOK, NEW t \in Tasks, CancelTransport(t)
  PROVE  TypeOK'
<1>1. NetworkType'
  BY DEF CancelTransport, TypeOK, NetworkType, AbortStart, network,
     LocalsType, Keys
<1>2. LocalsType'
  <2>1. CASE MarkStopped(t) /\ UNCHANGED <<call, key>>
    <3>1. [frame[t] EXCEPT !.stopped = TRUE] \in Frame
      BY FrameUpdates DEF TypeOK, LocalsType
    <3>2. frame' = [frame EXCEPT ![t] = [frame[t] EXCEPT !.stopped = TRUE]]
      BY <2>1 DEF MarkStopped
    <3> QED BY <2>1, <3>1, <3>2, SetFrame DEF TypeOK
  <2>2. CASE AbortStart(t, "cancel")
    <3> DEFINE g == [frame[t] EXCEPT !.exc = "cancel",
                       !.stopped = @ \/ "cancel" = "cancel"]
    <3>1. g \in Frame
      BY FrameUpdates DEF TypeOK, LocalsType
    <3>2. frame' = [frame EXCEPT ![t] = g] /\ UNCHANGED <<call, key>>
      BY <2>2 DEF AbortStart
    <3> QED BY <3>1, <3>2, SetFrame DEF TypeOK
  <2> QED BY <2>1, <2>2 DEF CancelTransport
<1>3. ControlType'
  BY SetControl DEF CancelTransport, TypeOK, AbortStart, Labels,
     InsideLabels, AwaitLabels, SleepLabels
<1>4. MemoryType'
  BY DEF CancelTransport, TypeOK, MemoryType, AbortStart, memory
<1>5. StoreType'
  BY DEF CancelTransport, TypeOK, StoreType, AbortStart, store
<1>6. LocksType'
  BY DEF CancelTransport, TypeOK, LocksType, AbortStart, locks
<1>7. BoundsType'
  BY DEF CancelTransport, TypeOK, BoundsType, AbortStart
<1> QED BY <1>1, <1>2, <1>3, <1>4, <1>5, <1>6, <1>7, KeepTypes DEF TypeOK,
   CancelTransport

\* StartRead keeps every type.
LEMMA StartReadType ==
  ASSUME TypeOK, NEW t \in Apis, NEW d \in Devices, StartRead(t, d)
  PROVE  TypeOK'
<1>1. Blank \in Frame
  BY BlankType DEF MaybeValue
<1>2. <<d, 1>> \in Keys
  BY HomeType, ServiceAssumption DEF Keys, Points
<1>3. Begin(t, "read", <<d, 1>>, Blank)
  BY DEF StartRead
<1>4. inputs' \in 0..MaxInputs
  BY ServiceAssumption DEF StartRead, UseInput, TypeOK, BoundsType
<1>5. t \in Tasks /\ "read" \in Calls
  BY DEF Tasks, Calls
<1> QED BY <1>1, <1>2, <1>3, <1>4, <1>5, BeginType

\* StartWrite keeps every type.
LEMMA StartWriteType ==
  ASSUME TypeOK, NEW t \in Apis, NEW k \in Keys, NEW v \in MaybeValue, NEW p
     \in Priorities, StartWrite(t, k, v, p)
  PROVE  TypeOK'
<1>1. [Blank EXCEPT !.val = v, !.prio = p] \in Frame
  BY BlankType DEF MaybeValue
<1>2. k \in Keys
  BY HomeType, ServiceAssumption DEF Keys, Points
<1>3. Begin(t, "write", k, [Blank EXCEPT !.val = v, !.prio = p])
  BY DEF StartWrite
<1>4. inputs' \in 0..MaxInputs
  BY ServiceAssumption DEF StartWrite, UseInput, TypeOK, BoundsType
<1>5. t \in Tasks /\ "write" \in Calls
  BY DEF Tasks, Calls
<1> QED BY <1>1, <1>2, <1>3, <1>4, <1>5, BeginType

\* HvacWrite keeps every type.
LEMMA HvacWriteType ==
  ASSUME TypeOK, NEW t \in Hvacs, NEW k \in Keys, NEW v \in Values,
     HvacWrite(t, k, v)
  PROVE  TypeOK'
<1>1. [Blank EXCEPT !.val = v] \in Frame
  BY BlankType DEF MaybeValue
<1>2. k \in Keys
  BY HomeType, ServiceAssumption DEF Keys, Points
<1>3. Begin(t, "write", k, [Blank EXCEPT !.val = v])
  BY DEF HvacWrite
<1>4. inputs' \in 0..MaxInputs
  BY ServiceAssumption DEF HvacWrite, UseInput, TypeOK, BoundsType
<1>5. t \in Tasks /\ "write" \in Calls
  BY DEF Tasks, Calls
<1> QED BY <1>1, <1>2, <1>3, <1>4, <1>5, BeginType

\* StartOverride keeps every type.
LEMMA StartOverrideType ==
  ASSUME TypeOK, NEW t \in Overrides, NEW k \in Keys, NEW v \in Values,
     StartOverride(t, k, v)
  PROVE  TypeOK'
<1>1. [Blank EXCEPT !.val = v] \in Frame
  BY BlankType DEF MaybeValue
<1>2. k \in Keys
  BY HomeType, ServiceAssumption DEF Keys, Points
<1>3. Begin(t, "reserve", k, [Blank EXCEPT !.val = v])
  BY DEF StartOverride
<1>4. inputs' \in 0..MaxInputs
  BY ServiceAssumption DEF StartOverride, UseInput, TypeOK, BoundsType
<1>5. t \in Tasks /\ "reserve" \in Calls
  BY DEF Tasks, Calls
<1> QED BY <1>1, <1>2, <1>3, <1>4, <1>5, BeginType

\* StartOffline keeps every type.
LEMMA StartOfflineType ==
  ASSUME TypeOK, NEW t \in Offlines, NEW d \in Devices, StartOffline(t, d)
  PROVE  TypeOK'
<1>1. Blank \in Frame
  BY BlankType DEF MaybeValue
<1>2. <<d, 1>> \in Keys
  BY HomeType, ServiceAssumption DEF Keys, Points
<1>3. Begin(t, "offline", <<d, 1>>, Blank)
  BY DEF StartOffline
<1>4. inputs' \in 0..MaxInputs
  BY ServiceAssumption DEF StartOffline, UseInput, TypeOK, BoundsType
<1>5. t \in Tasks /\ "offline" \in Calls
  BY DEF Tasks, Calls
<1> QED BY <1>1, <1>2, <1>3, <1>4, <1>5, BeginType

\* StartSync keeps every type.
LEMMA StartSyncType ==
  ASSUME TypeOK, NEW t \in Syncs, StartSync(t)
  PROVE  TypeOK'
<1>1. Blank \in Frame
  BY BlankType DEF MaybeValue
<1>2. Home \in Keys
  BY HomeType, ServiceAssumption DEF Keys, Points
<1>3. Begin(t, "sync", Home, Blank)
  BY DEF StartSync
<1>4. inputs' \in 0..MaxInputs
  BY ServiceAssumption DEF StartSync, UseInput, TypeOK, BoundsType
<1>5. t \in Tasks /\ "sync" \in Calls
  BY DEF Tasks, Calls
<1> QED BY <1>1, <1>2, <1>3, <1>4, <1>5, BeginType

\* A client's write keeps every type.
LEMMA NativeWriteType ==
  ASSUME TypeOK, NEW k \in Keys, NativeWrite(k)
  PROVE  TypeOK'
<1>1. NetworkType'
  <2>1. PICK o \in NativeWrites(IsCommandable(k), obj[k]) :
          /\ obj' = [obj EXCEPT ![k] = o]
          /\ author' = IF o.rev # obj[k].rev THEN [author EXCEPT ![k] = None]
                       ELSE author
    BY DEF NativeWrite
  <2>3. obj[k] \in Object /\ IsCommandable(k) \in BOOLEAN
    BY DEF TypeOK, NetworkType, IsCommandable
  <2>2. o \in Object
    BY <2>3, NativeWriteObject
  <2> QED BY <2>1, <2>2 DEF NativeWrite, TypeOK, NetworkType
<1>2. BoundsType'
  BY ServiceAssumption DEF NativeWrite, UseInput, TypeOK, BoundsType
<1> QED BY <1>1, <1>2, KeepTypes DEF TypeOK, NativeWrite

\* The initial states have every type.
LEMMA InitType ==
  ASSUME Init
  PROVE  TypeOK
<1>1. PICK v \in Values, up \in [Devices -> BOOLEAN] :
       /\ obj = [k \in Keys |-> NewObject(v)]
       /\ snap = [k \in Keys |-> v]
       /\ rowValue = snap
       /\ event = [k \in Keys |-> [old |-> v, new |-> v]]
       /\ app = up
       /\ sock = up
       /\ status = [d \in Devices |-> IF up[d] THEN "online" ELSE "error"]
       /\ rowStatus = status
  BY DEF Init
<1>2. NetworkType
  BY <1>1, NewObjectType DEF Init, NetworkType
<1>3. MemoryType
  BY <1>1 DEF Init, MemoryType, Statuses
<1>4. StoreType
  BY <1>1 DEF Init, StoreType, Statuses, Event
<1>5. LocksType
  BY DEF Init, LocksType
<1>6. ControlType
  BY DEF Init, ControlType, Labels
<1>7. LocalsType
  BY BlankType, HomeType DEF Init, LocalsType, Calls
<1>8. BoundsType
  BY ServiceAssumption DEF Init, BoundsType
<1> QED BY <1>2, <1>3, <1>4, <1>5, <1>6, <1>7, <1>8 DEF TypeOK
=============================================================================
