-------------------------- MODULE DeviceLeaseProofs --------------------------
(***************************************************************************)
(* LeaseInv is inductive: each part of it survives every action.           *)
(***************************************************************************)
EXTENDS DeviceTypeProofs

-----------------------------------------------------------------------------
(* The lock: moving inside it, leaving it, staying outside. *)

\* A task that holds its lock, or lets an error out of it, moves on.
LEMMA MoveInside ==
  ASSUME LockInv, ControlType, NEW t \in Tasks,
         NEW l \in InsideLabels \cup {"raise"},
         pc[t] \in InsideLabels \/ l = "raise",
         Continue(t, l) \/ Suspend(t, l), UNCHANGED <<key, holder>>
  PROVE  LockInv'
<1>1. pc' = [pc EXCEPT ![t] = l]
  BY DEF Continue, Suspend
<1>2. "raise" \notin InsideLabels
  BY DEF InsideLabels, AwaitLabels
<1> HIDE DEF InsideLabels
<1>3. ASSUME NEW u \in Tasks, pc'[u] \in InsideLabels
      PROVE  holder'[key'[u][1]] = u
  BY <1>1, <1>2, <1>3 DEF LockInv, ControlType
<1>4. ASSUME NEW d \in Devices, holder'[d] # None
      PROVE  /\ key'[holder'[d]][1] = d
             /\ pc'[holder'[d]] \in InsideLabels \cup {"raise"}
  BY <1>1, <1>4 DEF LockInv, ControlType
<1> QED BY <1>3, <1>4 DEF LockInv

\* A task leaves its lock.
LEMMA LeaveLock ==
  ASSUME LockInv, ControlType, LocalsType, LocksType, NEW t \in Tasks,
         NEW l \in Labels \ InsideLabels, NEW k \in Keys, Release(t),
         Continue(t, l) \/ Suspend(t, l),
         UNCHANGED key \/ key' = [key EXCEPT ![t] = k]
  PROVE  LockInv'
<1>1. pc' = [pc EXCEPT ![t] = l]
  BY DEF Continue, Suspend
<1>2. \A u \in Tasks \ {t} : key'[u] = key[u] /\ pc'[u] = pc[u]
  BY <1>1 DEF LocalsType, ControlType
<1>3. ASSUME NEW u \in Tasks, pc'[u] \in InsideLabels
      PROVE  holder'[key'[u][1]] = u
  <2>1. u # t
    BY <1>1, <1>3 DEF ControlType
  <2>2. holder[key[u][1]] = u /\ key'[u] = key[u] /\ key[u][1] \in Devices
    BY <1>2, <1>3, <2>1 DEF LockInv, LocalsType, Keys
  <2> QED BY <2>1, <2>2 DEF Release
<1>4. ASSUME NEW d \in Devices, holder'[d] # None
      PROVE  /\ key'[holder'[d]][1] = d
             /\ pc'[holder'[d]] \in InsideLabels \cup {"raise"}
  <2>1. holder'[d] = holder[d] /\ holder[d] \in Tasks \ {t}
    BY <1>4 DEF Release, LocksType
  <2> QED BY <1>2, <1>4, <2>1 DEF LockInv
<1> QED BY <1>3, <1>4 DEF LockInv

\* A task without a lock moves on.
LEMMA StayOutside ==
  ASSUME LockInv, ControlType, LocalsType, LocksType, NEW t \in Tasks,
         pc[t] \notin InsideLabels \cup {"raise"},
         NEW l \in Labels \ InsideLabels, NEW k \in Keys,
         Continue(t, l) \/ Suspend(t, l), UNCHANGED holder,
         UNCHANGED key \/ key' = [key EXCEPT ![t] = k]
  PROVE  LockInv'
<1>2. pc' = [pc EXCEPT ![t] = l]
  BY DEF Continue, Suspend
<1>3. \A u \in Tasks \ {t} : key'[u] = key[u] /\ pc'[u] = pc[u]
  BY <1>2 DEF LocalsType, ControlType
<1>4. ASSUME NEW u \in Tasks, pc'[u] \in InsideLabels
      PROVE  holder'[key'[u][1]] = u
  BY <1>2, <1>3, <1>4 DEF LockInv, ControlType
<1>5. ASSUME NEW d \in Devices, holder'[d] # None
      PROVE  /\ key'[holder'[d]][1] = d
             /\ pc'[holder'[d]] \in InsideLabels \cup {"raise"}
  <2>1. holder[d] \in Tasks \ {t}
    BY <1>5 DEF LockInv, LocksType
  <2> QED BY <1>3, <1>5, <2>1 DEF LockInv
<1> QED BY <1>4, <1>5 DEF LockInv

\* A task takes its free lock.
LEMMA TakeHold ==
  ASSUME LockInv, ControlType, LocalsType, LocksType, NEW t \in Tasks,
         pc[t] \notin InsideLabels \cup {"raise"}, Continue(t, "locked"),
         holder[key[t][1]] = None,
         holder' = [holder EXCEPT ![key[t][1]] = t], UNCHANGED key
  PROVE  LockInv'
<1> DEFINE e == key[t][1]
<1>1. e \in Devices
  BY DEF LocalsType, Keys
<1>2. \A u \in Tasks \ {t} : pc'[u] = pc[u]
  BY DEF Continue, ControlType
<1>3. ASSUME NEW u \in Tasks, pc'[u] \in InsideLabels
      PROVE  holder'[key'[u][1]] = u
  <2>1. CASE u = t
    BY <2>1, <1>1 DEF LocksType
  <2>2. CASE u # t
    <3>1. holder[key[u][1]] = u /\ key[u][1] # e
      BY <1>2, <1>3, <2>2, ServiceAssumption DEF LockInv
    <3> QED BY <3>1, <1>1 DEF LocksType
  <2> QED BY <2>1, <2>2
<1>4. ASSUME NEW d \in Devices, holder'[d] # None
      PROVE  /\ key'[holder'[d]][1] = d
             /\ pc'[holder'[d]] \in InsideLabels \cup {"raise"}
  <2>1. CASE d = e
    <3>1. holder'[d] = t /\ pc'[t] = "locked"
      BY <2>1, <1>1 DEF LocksType, Continue, ControlType
    <3> QED BY <2>1, <3>1 DEF InsideLabels
  <2>2. CASE d # e
    <3>1. holder'[d] = holder[d] /\ holder[d] \in Tasks \ {t}
      BY <2>2, <1>4, <1>1 DEF LocksType, LockInv
    <3> QED BY <3>1, <1>2, <1>4 DEF LockInv
  <2> QED BY <2>1, <2>2
<1> QED BY <1>3, <1>4 DEF LockInv

\* Operations change, but no override begins or ends.
LEMMA SameOwner ==
  ASSUME OwnerInv, LocalsType, MemoryType, NEW t \in Tasks, NEW c \in Calls,
         NEW k \in Keys, UNCHANGED owners,
         call' = [call EXCEPT ![t] = c],
         \/ UNCHANGED key /\ (c \in Overriding <=> call[t] \in Overriding)
         \/ /\ key' = [key EXCEPT ![t] = k]
            /\ call[t] \notin Overriding /\ c \notin Overriding
  PROVE  OwnerInv'
<1>1. \A u \in Tasks \ {t} : call'[u] = call[u] /\ key'[u] = key[u]
  BY DEF LocalsType
<1>2. call'[t] = c
  BY DEF LocalsType
<1>3. ASSUME NEW j \in Keys, owners'[j] # None
      PROVE  key'[owners'[j]] = j /\ call'[owners'[j]] \in Overriding
  <2>1. owners[j] \in Tasks
    BY <1>3 DEF MemoryType, Tasks, Scenarios
  <2>2. key[owners[j]] = j /\ call[owners[j]] \in Overriding
    BY <1>3 DEF OwnerInv
  <2> QED BY <1>1, <1>2, <2>1, <2>2
<1>4. ASSUME NEW u \in Tasks, call'[u] \in Overriding
      PROVE  owners'[key'[u]] = u
  BY <1>1, <1>2, <1>4 DEF OwnerInv
<1> QED BY <1>3, <1>4 DEF OwnerInv

\* An override ends and pops its owner entry.
LEMMA FreedOwner ==
  ASSUME OwnerInv, LocalsType, MemoryType, NEW t \in Tasks,
         call[t] \in Overriding, FreePoint(t), Finish(t)
  PROVE  OwnerInv'
<1>1. \A u \in Tasks \ {t} : call'[u] = call[u] /\ key'[u] = key[u]
  BY DEF LocalsType, Finish
<1>2. call'[t] = "none" /\ "none" \notin Overriding
  BY DEF LocalsType, Finish, Overriding
<1>3. key[t] \in Keys /\ owners[key[t]] = t
  BY DEF OwnerInv, LocalsType
<1>4. ASSUME NEW j \in Keys, owners'[j] # None
      PROVE  key'[owners'[j]] = j /\ call'[owners'[j]] \in Overriding
  <2>1. j # key[t] /\ owners'[j] = owners[j]
    BY <1>3, <1>4 DEF FreePoint, MemoryType
  <2>2. key[owners[j]] = j /\ call[owners[j]] \in Overriding
    BY <1>4, <2>1 DEF OwnerInv
  <2>3. owners[j] \in Tasks \ {t}
    BY <1>4, <2>1, <2>2 DEF MemoryType, Tasks, Scenarios
  <2> QED BY <1>1, <2>1, <2>2, <2>3
<1>5. ASSUME NEW u \in Tasks, call'[u] \in Overriding
      PROVE  owners'[key'[u]] = u
  <2>1. u # t
    BY <1>2, <1>5
  <2>2. owners[key[u]] = u /\ key[u] \in Keys /\ key[u] # key[t]
    BY <1>1, <1>3, <1>5, <2>1 DEF OwnerInv, LocalsType
  <2> QED BY <1>1, <2>1, <2>2 DEF FreePoint, MemoryType
<1> QED BY <1>4, <1>5 DEF OwnerInv

\* An application goes up, or down with none of its points owned.
LEMMA SameApp ==
  ASSUME OwnedInv, NetworkType, NEW d \in Devices, NEW b \in BOOLEAN,
         app' = [app EXCEPT ![d] = b], UNCHANGED owners,
         b \/ \A p \in Points : owners[<<d, p>>] = None
  PROVE  OwnedInv'
  BY DEF OwnedInv, NetworkType, Keys


-----------------------------------------------------------------------------
(* Every action keeps every part of LeaseInv. *)

\* RequestLock keeps LeaseInv.
LEMMA RequestLockKeeps ==
  ASSUME LeaseInv, TypeOK', NEW t \in Tasks, RequestLock(t)
  PROVE  LeaseInv'
<1>1. KindInv'
  BY DEF RequestLock, Running, Continue, Suspend, network, memory, store,
     locals, bounds, LeaseInv, TypeOK, KindInv, TransitionLabels,
     OverrideCalls, Overriding, ControlType, LocalsType
<1>2. ArgsInv'
  BY DEF RequestLock, Running, Continue, Suspend, network, memory, store,
     locals, bounds, LeaseInv, TypeOK, ArgsInv, OverrideCalls, Overriding,
     ControlType, LocalsType, Frame, MaybeValue
<1>3. LockInv'
  <2>1. CASE holder[key[t][1]] = None /\ waiters[key[t][1]] = <<>>
    BY <2>1, TakeHold DEF RequestLock, Running, InsideLabels, AwaitLabels, locals, LeaseInv, TypeOK
  <2>2. CASE ~(holder[key[t][1]] = None /\ waiters[key[t][1]] = <<>>)
    BY <2>2, StayOutside, HomeType
    DEF RequestLock, Running, InsideLabels, AwaitLabels, Labels, locals, LeaseInv, TypeOK
  <2> QED BY <2>1, <2>2
<1>4. OwnerInv'
  BY DEF RequestLock, Running, Continue, Suspend, network, memory, store,
     locals, bounds, LeaseInv, TypeOK, OwnerInv, Overriding, MemoryType,
     LocalsType
<1>5. TransitionInv'
  BY DEF RequestLock, Running, Continue, Suspend, network, memory, store,
     locals, bounds, LeaseInv, TypeOK, TransitionInv, InsideLabels,
     AwaitLabels, MemoryType, ControlType, LocalsType, Keys
<1>6. OwnedInv'
  BY DEF RequestLock, Running, Continue, Suspend, network, memory, store,
     locals, bounds, LeaseInv, TypeOK, OwnedInv, MemoryType, NetworkType,
     Keys
<1> QED BY <1>1, <1>2, <1>3, <1>4, <1>5, <1>6 DEF LeaseInv

\* TakeLock keeps LeaseInv.
LEMMA TakeLockKeeps ==
  ASSUME LeaseInv, TypeOK', NEW t \in Tasks, TakeLock(t)
  PROVE  LeaseInv'
<1>1. KindInv'
  BY DEF TakeLock, Resumes, Continue, network, memory, store, locals,
     bounds, LeaseInv, TypeOK, KindInv, TransitionLabels, OverrideCalls,
     Overriding, ControlType, LocalsType
<1>2. ArgsInv'
  BY DEF TakeLock, Resumes, Continue, network, memory, store, locals,
     bounds, LeaseInv, TypeOK, ArgsInv, OverrideCalls, Overriding,
     ControlType, LocalsType, Frame, MaybeValue
<1>3. LockInv'
  BY TakeHold DEF TakeLock, Resumes, InsideLabels, AwaitLabels, locals, LeaseInv, TypeOK
<1>4. OwnerInv'
  BY DEF TakeLock, Resumes, Continue, network, memory, store, locals,
     bounds, LeaseInv, TypeOK, OwnerInv, Overriding, MemoryType, LocalsType
<1>5. TransitionInv'
  BY DEF TakeLock, Resumes, Continue, network, memory, store, locals,
     bounds, LeaseInv, TypeOK, TransitionInv, InsideLabels, AwaitLabels,
     MemoryType, ControlType, LocalsType, Keys
<1>6. OwnedInv'
  BY DEF TakeLock, Resumes, Continue, network, memory, store, locals,
     bounds, LeaseInv, TypeOK, OwnedInv, MemoryType, NetworkType, Keys
<1> QED BY <1>1, <1>2, <1>3, <1>4, <1>5, <1>6 DEF LeaseInv

\* EnterRead keeps LeaseInv.
LEMMA EnterReadKeeps ==
  ASSUME LeaseInv, TypeOK', NEW t \in Tasks, EnterRead(t)
  PROVE  LeaseInv'
<1>1. KindInv'
  BY DEF EnterRead, Enters, Running, Continue, network, memory, store,
     locks, locals, bounds, LeaseInv, TypeOK, KindInv, TransitionLabels,
     OverrideCalls, Overriding, ControlType, LocalsType
<1>2. ArgsInv'
  BY DEF EnterRead, Enters, Running, Continue, network, memory, store,
     locks, locals, bounds, LeaseInv, TypeOK, ArgsInv, OverrideCalls,
     Overriding, ControlType, LocalsType, Frame, MaybeValue
<1>3. LockInv'
  BY DEF EnterRead, Enters, Running, Continue, network, memory, store,
     locks, locals, bounds, LeaseInv, TypeOK, LockInv, InsideLabels,
     AwaitLabels, ControlType, LocalsType, LocksType, Keys
<1>4. OwnerInv'
  BY DEF EnterRead, Enters, Running, Continue, network, memory, store,
     locks, locals, bounds, LeaseInv, TypeOK, OwnerInv, Overriding,
     MemoryType, LocalsType
<1>5. TransitionInv'
  BY DEF EnterRead, Enters, Running, Continue, network, memory, store,
     locks, locals, bounds, LeaseInv, TypeOK, TransitionInv, InsideLabels,
     AwaitLabels, MemoryType, ControlType, LocalsType, Keys
<1>6. OwnedInv'
  BY DEF EnterRead, Enters, Running, Continue, network, memory, store,
     locks, locals, bounds, LeaseInv, TypeOK, OwnedInv, MemoryType,
     NetworkType, Keys
<1> QED BY <1>1, <1>2, <1>3, <1>4, <1>5, <1>6 DEF LeaseInv

\* EnterWrite keeps LeaseInv.
LEMMA EnterWriteKeeps ==
  ASSUME LeaseInv, TypeOK', NEW t \in Tasks, EnterWrite(t)
  PROVE  LeaseInv'
<1>1. KindInv'
  BY DEF EnterWrite, Enters, Running, Continue, memory, store, locks,
     locals, bounds, LeaseInv, TypeOK, KindInv, TransitionLabels,
     OverrideCalls, Overriding, ControlType, LocalsType
<1>2. ArgsInv'
  BY DEF EnterWrite, Enters, Running, Continue, memory, store, locks,
     locals, bounds, LeaseInv, TypeOK, ArgsInv, OverrideCalls, Overriding,
     ControlType, LocalsType, Frame, MaybeValue
<1>3. LockInv'
  BY DEF EnterWrite, Enters, Running, Continue, memory, store, locks,
     locals, bounds, LeaseInv, TypeOK, LockInv, InsideLabels, AwaitLabels,
     ControlType, LocalsType, LocksType, Keys
<1>4. OwnerInv'
  BY DEF EnterWrite, Enters, Running, Continue, memory, store, locks,
     locals, bounds, LeaseInv, TypeOK, OwnerInv, Overriding, MemoryType,
     LocalsType
<1>5. TransitionInv'
  BY DEF EnterWrite, Enters, Running, Continue, memory, store, locks,
     locals, bounds, LeaseInv, TypeOK, TransitionInv, InsideLabels,
     AwaitLabels, MemoryType, ControlType, LocalsType, Keys
<1>6. OwnedInv'
  BY DEF EnterWrite, Enters, Running, Continue, memory, store, locks,
     locals, bounds, LeaseInv, TypeOK, OwnedInv, MemoryType, NetworkType,
     Keys
<1> QED BY <1>1, <1>2, <1>3, <1>4, <1>5, <1>6 DEF LeaseInv

\* Scan keeps LeaseInv.
LEMMA ScanKeeps ==
  ASSUME LeaseInv, TypeOK', NEW t \in Tasks, Scan(t)
  PROVE  LeaseInv'
<1>1. KindInv'
  BY DEF Scan, Running, Continue, Throw, Suspend, network, memory, store,
     locks, bounds, LeaseInv, TypeOK, KindInv, TransitionLabels,
     OverrideCalls, Overriding, ControlType, LocalsType
<1>2. ArgsInv'
  <2>1. CASE UNCHANGED frame /\ (Continue(t, "done") \/ Throw(t))
    <3>1. /\ UNCHANGED <<call, key>> /\ pc[t] = "scan"
          /\ pc'[t] \notin {"persist", "record", "hold"}
          /\ \A u \in Tasks \ {t} : pc'[u] = pc[u]
      BY <2>1 DEF Scan, Running, Continue, Throw, Suspend, LeaseInv, TypeOK,
         ControlType, LocalsType
    <3> QED BY <2>1, <3>1 DEF LeaseInv, ArgsInv, OverrideCalls, Overriding, IsCommandable
  <2>2. CASE \E i \in Changed(t) :
               frame' = [frame EXCEPT ![t].idx = i,
                                      ![t].got = Effective(<<key[t][1], i>>)]
    <3>1. PICK i \in Changed(t) :
            frame' = [frame EXCEPT ![t].idx = i,
                                   ![t].got = Effective(<<key[t][1], i>>)]
      BY <2>2
    <3>2. i \in 1..NP /\ <<key[t][1], i>> \in Keys
      BY DEF Changed, LeaseInv, TypeOK, LocalsType, Frame, Keys, Points
    <3>3. Effective(<<key[t][1], i>>) \in Values
      BY <3>2, EffectiveType DEF LeaseInv, TypeOK
    <3>4. /\ UNCHANGED <<call, key>> /\ pc[t] = "scan"
          /\ \A u \in Tasks \ {t} : pc'[u] = pc[u] /\ frame'[u] = frame[u]
      BY <3>1 DEF Scan, Running, Continue, Throw, Suspend, LeaseInv, TypeOK,
         ControlType, LocalsType
    <3>5. /\ frame'[t].idx = i
          /\ frame'[t].got = Effective(<<key[t][1], i>>)
          /\ frame'[t].val = frame[t].val /\ frame'[t].prev = frame[t].prev
          /\ frame'[t].rev = frame[t].rev
      BY <3>1 DEF LeaseInv, TypeOK, LocalsType, Frame
    <3>6. i <= NP
      BY <3>2
    <3> QED BY <3>3, <3>4, <3>5, <3>6
            DEF LeaseInv, ArgsInv, OverrideCalls, Overriding, IsCommandable
  <2> QED BY <2>1, <2>2 DEF Scan
<1>3. LockInv'
  BY MoveInside DEF Scan, Throw, Running, locks, InsideLabels, AwaitLabels, LeaseInv, TypeOK
<1>4. OwnerInv'
  BY DEF Scan, Running, Continue, Throw, Suspend, network, memory, store,
     locks, bounds, LeaseInv, TypeOK, OwnerInv, Overriding, MemoryType,
     LocalsType
<1>5. TransitionInv'
  BY DEF Scan, Running, Continue, Throw, Suspend, network, memory, store,
     locks, bounds, LeaseInv, TypeOK, TransitionInv, InsideLabels,
     AwaitLabels, MemoryType, ControlType, LocalsType, Keys
<1>6. OwnedInv'
  BY DEF Scan, Running, Continue, Throw, Suspend, network, memory, store,
     locks, bounds, LeaseInv, TypeOK, OwnedInv, MemoryType, NetworkType,
     Keys
<1> QED BY <1>1, <1>2, <1>3, <1>4, <1>5, <1>6 DEF LeaseInv

\* Persist keeps LeaseInv.
LEMMA PersistKeeps ==
  ASSUME LeaseInv, TypeOK', NEW t \in Tasks, Persist(t)
  PROVE  LeaseInv'
<1>1. KindInv'
  BY DEF Persist, Resumes, Scanned, Suspend, network, memory, locks, locals,
     bounds, LeaseInv, TypeOK, KindInv, TransitionLabels, OverrideCalls,
     Overriding, ControlType, LocalsType
<1>2. ArgsInv'
  BY DEF Persist, Resumes, Scanned, Suspend, network, memory, locks, locals,
     bounds, LeaseInv, TypeOK, ArgsInv, OverrideCalls, Overriding,
     ControlType, LocalsType, Frame, MaybeValue
<1>3. LockInv'
  BY DEF Persist, Resumes, Scanned, Suspend, network, memory, locks, locals,
     bounds, LeaseInv, TypeOK, LockInv, InsideLabels, AwaitLabels,
     ControlType, LocalsType, LocksType, Keys
<1>4. OwnerInv'
  BY DEF Persist, Resumes, Scanned, Suspend, network, memory, locks, locals,
     bounds, LeaseInv, TypeOK, OwnerInv, Overriding, MemoryType, LocalsType
<1>5. TransitionInv'
  BY DEF Persist, Resumes, Scanned, Suspend, network, memory, locks, locals,
     bounds, LeaseInv, TypeOK, TransitionInv, InsideLabels, AwaitLabels,
     MemoryType, ControlType, LocalsType, Keys
<1>6. OwnedInv'
  BY DEF Persist, Resumes, Scanned, Suspend, network, memory, locks, locals,
     bounds, LeaseInv, TypeOK, OwnedInv, MemoryType, NetworkType, Keys
<1> QED BY <1>1, <1>2, <1>3, <1>4, <1>5, <1>6 DEF LeaseInv

\* Record keeps LeaseInv.
LEMMA RecordKeeps ==
  ASSUME LeaseInv, TypeOK', NEW t \in Tasks, Record(t)
  PROVE  LeaseInv'
<1>1. KindInv'
  BY DEF Record, Scanned, Resumes, Continue, network, locks, bounds,
     LeaseInv, TypeOK, KindInv, TransitionLabels, OverrideCalls, Overriding,
     ControlType, LocalsType
<1>2. ArgsInv'
  BY DEF Record, Scanned, Resumes, Continue, network, locks, bounds,
     LeaseInv, TypeOK, ArgsInv, OverrideCalls, Overriding, ControlType,
     LocalsType, Frame, MaybeValue
<1>3. LockInv'
  BY DEF Record, Scanned, Resumes, Continue, network, locks, bounds,
     LeaseInv, TypeOK, LockInv, InsideLabels, AwaitLabels, ControlType,
     LocalsType, LocksType, Keys
<1>4. OwnerInv'
  BY DEF Record, Scanned, Resumes, Continue, network, locks, bounds,
     LeaseInv, TypeOK, OwnerInv, Overriding, MemoryType, LocalsType
<1>5. TransitionInv'
  BY DEF Record, Scanned, Resumes, Continue, network, locks, bounds,
     LeaseInv, TypeOK, TransitionInv, InsideLabels, AwaitLabels, MemoryType,
     ControlType, LocalsType, Keys
<1>6. OwnedInv'
  BY DEF Record, Scanned, Resumes, Continue, network, locks, bounds,
     LeaseInv, TypeOK, OwnedInv, MemoryType, NetworkType, Keys
<1> QED BY <1>1, <1>2, <1>3, <1>4, <1>5, <1>6 DEF LeaseInv

\* Reserve keeps LeaseInv.
LEMMA ReserveKeeps ==
  ASSUME LeaseInv, TypeOK', NEW t \in Tasks, Reserve(t)
  PROVE  LeaseInv'
<1>1. KindInv'
  BY DEF Reserve, Enters, Running, Continue, locks, locals, Release,
     Proceed, network, store, bounds, LeaseInv, TypeOK, KindInv,
     TransitionLabels, OverrideCalls, Overriding, ControlType, LocalsType
<1>2. ArgsInv'
  <2>1. CASE UNCHANGED locals
    BY <2>1 DEF Reserve, Enters, Running, Continue, Proceed, locals, LeaseInv,
       TypeOK, ArgsInv, ControlType, LocalsType
  <2>2. CASE ~ UNCHANGED locals
    <3>1. /\ frame' = [frame EXCEPT ![t].prev =
                          ControlValue(IsCommandable(key[t]), obj[key[t]])]
          /\ Proceed(t, "force")
      BY <2>2 DEF Reserve
    <3>2. obj[key[t]] \in Object /\ IsCommandable(key[t]) \in BOOLEAN
      BY DEF LeaseInv, TypeOK, NetworkType, LocalsType, IsCommandable
    <3>3. IsCommandable(key[t])
            \/ ControlValue(IsCommandable(key[t]), obj[key[t]]) \in Values
      BY <3>2, ControlValueType
    <3>4. /\ \A u \in Tasks \ {t} : /\ pc'[u] = pc[u]
                                     /\ frame'[u] = frame[u]
                                     /\ call'[u] = call[u]
          /\ pc'[t] = "lock" /\ call'[t] = "force"
          /\ frame'[t].val = frame[t].val
          /\ frame'[t].prev = ControlValue(IsCommandable(key[t]), obj[key[t]])
      BY <3>1 DEF Proceed, Continue, LeaseInv, TypeOK, ControlType, LocalsType,
         Frame
    <3>5. UNCHANGED key /\ call[t] = "reserve"
      BY <3>1 DEF Proceed, Reserve, Enters
    <3> QED BY <3>3, <3>4, <3>5
            DEF LeaseInv, ArgsInv, OverrideCalls, Overriding, IsCommandable
  <2> QED BY <2>1, <2>2
<1>3. LockInv'
  <2>1. CASE Continue(t, "raise") /\ UNCHANGED <<locks, locals>>
    BY <2>1, MoveInside DEF InsideLabels, AwaitLabels, locks, locals, LeaseInv, TypeOK
  <2>2. CASE Release(t) /\ Proceed(t, "force")
    BY <2>2, LeaveLock, HomeType DEF Proceed, InsideLabels, AwaitLabels, Labels, LeaseInv, TypeOK
  <2> QED BY <2>1, <2>2 DEF Reserve
<1>4. OwnerInv'
  <2>1. CASE UNCHANGED <<owners, locals>>
    BY <2>1 DEF locals, LeaseInv, OwnerInv
  <2>2. CASE ~ UNCHANGED <<owners, locals>>
    <3>1. /\ owners[key[t]] = None
          /\ owners' = [owners EXCEPT ![key[t]] = t]
          /\ call' = [call EXCEPT ![t] = "force"] /\ UNCHANGED key
      BY <2>2 DEF Reserve, Proceed
    <3>2. key[t] \in Keys /\ t # None /\ call[t] \notin Overriding
      BY ServiceAssumption
      DEF Reserve, Enters, Overriding, LeaseInv, TypeOK, LocalsType
    <3>3. /\ \A u \in Tasks \ {t} : call'[u] = call[u]
          /\ call'[t] \in Overriding
          /\ owners'[key[t]] = t
          /\ \A k \in Keys \ {key[t]} : owners'[k] = owners[k]
      BY <3>1, <3>2 DEF Overriding, LeaseInv, TypeOK, LocalsType, MemoryType
    <3>4. \A k \in Keys \ {key[t]} : owners[k] # None => owners[k] \in Tasks \ {t}
      BY <3>2 DEF LeaseInv, TypeOK, OwnerInv, MemoryType, Tasks, Scenarios
    <3>5. \A u \in Tasks : u # t /\ call[u] \in Overriding =>
            key[u] \in Keys /\ key[u] # key[t]
      BY <3>1, ServiceAssumption DEF LeaseInv, TypeOK, OwnerInv, LocalsType
    <3> QED BY <3>1, <3>2, <3>3, <3>4, <3>5 DEF LeaseInv, OwnerInv
  <2> QED BY <2>1, <2>2
<1>5. TransitionInv'
  <2>1. CASE UNCHANGED <<owners, locals>>
    BY <2>1 DEF Reserve, Enters, Running, Continue, Proceed, locals, InsideLabels, AwaitLabels,
       TransitionInv, LeaseInv, TypeOK, ControlType
  <2>2. CASE ~ UNCHANGED <<owners, locals>>
    <3>1. /\ owners' = [owners EXCEPT ![key[t]] = t]
          /\ call' = [call EXCEPT ![t] = "force"] /\ UNCHANGED key
          /\ pc' = [pc EXCEPT ![t] = "lock"]
      BY <2>2 DEF Reserve, Proceed, Continue
    <3> SUFFICES ASSUME NEW u \in Tasks, call'[u] \in {"offline", "online"},
                        pc'[u] \in InsideLabels \ {"locked", "leave"},
                        NEW p \in Points
                 PROVE  owners'[<<key'[u][1], p>>] = None
      BY DEF TransitionInv
    <3>2. u # t /\ call[u] = call'[u] /\ pc[u] = pc'[u]
      BY <3>1 DEF LeaseInv, TypeOK, LocalsType, ControlType
    <3>3. holder[key[u][1]] = u /\ holder[key[t][1]] = t
      BY <3>2 DEF LeaseInv, LockInv, Reserve, Enters, Running, InsideLabels
    <3>4. owners[<<key[u][1], p>>] = None /\ <<key[u][1], p>> # key[t]
      BY <3>2, <3>3 DEF LeaseInv, TransitionInv
    <3> QED BY <3>1, <3>4 DEF LeaseInv, TypeOK, MemoryType
  <2> QED BY <2>1, <2>2
<1>6. OwnedInv'
  BY DEF Reserve, Enters, Running, Continue, locks, locals, Release,
     Proceed, network, store, bounds, LeaseInv, TypeOK, OwnedInv,
     MemoryType, NetworkType, Keys
<1> QED BY <1>1, <1>2, <1>3, <1>4, <1>5, <1>6 DEF LeaseInv

\* ForceValue keeps LeaseInv.
LEMMA ForceValueKeeps ==
  ASSUME LeaseInv, TypeOK', NEW t \in Tasks, ForceValue(t)
  PROVE  LeaseInv'
<1>1. KindInv'
  BY DEF ForceValue, Enters, Running, Continue, memory, store, locks,
     bounds, LeaseInv, TypeOK, KindInv, TransitionLabels, OverrideCalls,
     Overriding, ControlType, LocalsType
<1>2. ArgsInv'
  <2> DEFINE o == Written(t, ControlPriority, frame[t].val)
  <2>1. /\ UNCHANGED <<call, key>> /\ call[t] = "force"
        /\ \A u \in Tasks \ {t} : pc'[u] = pc[u] /\ frame'[u] = frame[u]
        /\ pc'[t] \in {"raise", "scan"}
    BY DEF ForceValue, Enters, Continue, LeaseInv, TypeOK, ControlType, LocalsType
  <2>2. /\ frame'[t].val = frame[t].val /\ frame'[t].prev = frame[t].prev
        /\ pc'[t] = "scan" => frame'[t].rev = o.rev
    BY DEF ForceValue, Continue, LeaseInv, TypeOK, ControlType, LocalsType, Frame
  <2>3. frame[t].val \in Values /\ frame[t].val \in MaybeValue
    BY DEF ForceValue, Enters, LeaseInv, ArgsInv, OverrideCalls, MaybeValue
  <2>4. o.rev \in Nat
    BY <2>3, WrittenType, PointAssumption DEF LeaseInv, Object
  <2> QED BY <2>1, <2>2, <2>4 DEF LeaseInv, ArgsInv, OverrideCalls, Overriding, NoRev, IsCommandable
<1>3. LockInv'
  BY MoveInside DEF ForceValue, Enters, Running, locks, InsideLabels, AwaitLabels, LeaseInv, TypeOK
<1>4. OwnerInv'
  BY DEF ForceValue, Enters, Running, Continue, memory, store, locks,
     bounds, LeaseInv, TypeOK, OwnerInv, Overriding, MemoryType, LocalsType
<1>5. TransitionInv'
  BY DEF ForceValue, Enters, Running, Continue, memory, store, locks,
     bounds, LeaseInv, TypeOK, TransitionInv, InsideLabels, AwaitLabels,
     MemoryType, ControlType, LocalsType, Keys
<1>6. OwnedInv'
  BY DEF ForceValue, Enters, Running, Continue, memory, store, locks,
     bounds, LeaseInv, TypeOK, OwnedInv, MemoryType, NetworkType, Keys
<1> QED BY <1>1, <1>2, <1>3, <1>4, <1>5, <1>6 DEF LeaseInv

\* HoldEnds keeps LeaseInv.
LEMMA HoldEndsKeeps ==
  ASSUME LeaseInv, TypeOK', NEW t \in Tasks, HoldEnds(t)
  PROVE  LeaseInv'
<1>1. KindInv'
  BY DEF HoldEnds, Resumes, Proceed, Continue, network, memory, store,
     locks, bounds, LeaseInv, TypeOK, KindInv, TransitionLabels,
     OverrideCalls, Overriding, ControlType, LocalsType
<1>2. ArgsInv'
  <2>1. /\ \A u \in Tasks \ {t} : pc'[u] = pc[u] /\ call'[u] = call[u]
        /\ pc'[t] = "lock" /\ call'[t] = "restore" /\ call[t] = "force"
        /\ UNCHANGED <<key, frame>>
    BY DEF HoldEnds, Resumes, Proceed, Continue, LeaseInv, TypeOK, ControlType,
       LocalsType, KindInv
  <2>2. frame[t].rev # NoRev
    BY <2>1 DEF HoldEnds, Resumes, LeaseInv, ArgsInv
  <2> QED BY <2>1, <2>2 DEF LeaseInv, ArgsInv, OverrideCalls, Overriding, IsCommandable
<1>3. LockInv'
  BY DEF HoldEnds, Resumes, Proceed, Continue, network, memory, store,
     locks, bounds, LeaseInv, TypeOK, LockInv, InsideLabels, AwaitLabels,
     ControlType, LocalsType, LocksType, Keys
<1>4. OwnerInv'
  <2>1. call[t] = "force"
    BY DEF HoldEnds, Resumes, LeaseInv, KindInv
  <2> QED BY <2>1, SameOwner, HomeType DEF HoldEnds, Proceed, Overriding, Calls, memory, LeaseInv, TypeOK
<1>5. TransitionInv'
  BY DEF HoldEnds, Resumes, Proceed, Continue, network, memory, store,
     locks, bounds, LeaseInv, TypeOK, TransitionInv, InsideLabels,
     AwaitLabels, MemoryType, ControlType, LocalsType, Keys
<1>6. OwnedInv'
  BY DEF HoldEnds, Resumes, Proceed, Continue, network, memory, store,
     locks, bounds, LeaseInv, TypeOK, OwnedInv, MemoryType, NetworkType,
     Keys
<1> QED BY <1>1, <1>2, <1>3, <1>4, <1>5, <1>6 DEF LeaseInv

\* Restore keeps LeaseInv.
LEMMA RestoreKeeps ==
  ASSUME LeaseInv, TypeOK', NEW t \in Tasks, Restore(t)
  PROVE  LeaseInv'
<1>1. KindInv'
  BY DEF Restore, Enters, Running, Continue, memory, store, locks, bounds,
     LeaseInv, TypeOK, KindInv, TransitionLabels, OverrideCalls, Overriding,
     ControlType, LocalsType
<1>2. ArgsInv'
  BY DEF Restore, Enters, Running, Continue, memory, store, locks, bounds,
     LeaseInv, TypeOK, ArgsInv, OverrideCalls, Overriding, ControlType,
     LocalsType, Frame, MaybeValue
<1>3. LockInv'
  BY DEF Restore, Enters, Running, Continue, memory, store, locks, bounds,
     LeaseInv, TypeOK, LockInv, InsideLabels, AwaitLabels, ControlType,
     LocalsType, LocksType, Keys
<1>4. OwnerInv'
  BY DEF Restore, Enters, Running, Continue, memory, store, locks, bounds,
     LeaseInv, TypeOK, OwnerInv, Overriding, MemoryType, LocalsType
<1>5. TransitionInv'
  BY DEF Restore, Enters, Running, Continue, memory, store, locks, bounds,
     LeaseInv, TypeOK, TransitionInv, InsideLabels, AwaitLabels, MemoryType,
     ControlType, LocalsType, Keys
<1>6. OwnedInv'
  BY DEF Restore, Enters, Running, Continue, memory, store, locks, bounds,
     LeaseInv, TypeOK, OwnedInv, MemoryType, NetworkType, Keys
<1> QED BY <1>1, <1>2, <1>3, <1>4, <1>5, <1>6 DEF LeaseInv

\* EnterOffline keeps LeaseInv.
LEMMA EnterOfflineKeeps ==
  ASSUME LeaseInv, TypeOK', NEW t \in Tasks, EnterOffline(t)
  PROVE  LeaseInv'
<1>1. KindInv'
  BY DEF EnterOffline, Enters, Running, Continue, Reserved, network, memory,
     store, locks, bounds, LeaseInv, TypeOK, KindInv, TransitionLabels,
     OverrideCalls, Overriding, ControlType, LocalsType
<1>2. ArgsInv'
  BY DEF EnterOffline, Enters, Running, Continue, Reserved, network, memory,
     store, locks, bounds, LeaseInv, TypeOK, ArgsInv, OverrideCalls,
     Overriding, ControlType, LocalsType, Frame, MaybeValue
<1>3. LockInv'
  BY DEF EnterOffline, Enters, Running, Continue, Reserved, network, memory,
     store, locks, bounds, LeaseInv, TypeOK, LockInv, InsideLabels,
     AwaitLabels, ControlType, LocalsType, LocksType, Keys
<1>4. OwnerInv'
  BY DEF EnterOffline, Enters, Running, Continue, Reserved, network, memory,
     store, locks, bounds, LeaseInv, TypeOK, OwnerInv, Overriding,
     MemoryType, LocalsType
<1>5. TransitionInv'
  BY DEF EnterOffline, Enters, Running, Continue, Reserved, network, memory,
     store, locks, bounds, LeaseInv, TypeOK, TransitionInv, InsideLabels,
     AwaitLabels, MemoryType, ControlType, LocalsType, Keys
<1>6. OwnedInv'
  BY DEF EnterOffline, Enters, Running, Continue, Reserved, network, memory,
     store, locks, bounds, LeaseInv, TypeOK, OwnedInv, MemoryType,
     NetworkType, Keys
<1> QED BY <1>1, <1>2, <1>3, <1>4, <1>5, <1>6 DEF LeaseInv

\* BeginStop keeps LeaseInv.
LEMMA BeginStopKeeps ==
  ASSUME LeaseInv, TypeOK', NEW t \in Tasks, BeginStop(t)
  PROVE  LeaseInv'
<1>1. KindInv'
  BY DEF BeginStop, Running, Suspend, store, locks, locals, bounds,
     LeaseInv, TypeOK, KindInv, TransitionLabels, OverrideCalls, Overriding,
     ControlType, LocalsType
<1>2. ArgsInv'
  BY DEF BeginStop, Running, Suspend, store, locks, locals, bounds,
     LeaseInv, TypeOK, ArgsInv, OverrideCalls, Overriding, ControlType,
     LocalsType, Frame, MaybeValue
<1>3. LockInv'
  BY MoveInside DEF BeginStop, Running, locks, locals, InsideLabels, AwaitLabels, LeaseInv, TypeOK
<1>4. OwnerInv'
  BY DEF BeginStop, Running, Suspend, store, locks, locals, bounds,
     LeaseInv, TypeOK, OwnerInv, Overriding, MemoryType, LocalsType
<1>5. TransitionInv'
  BY DEF BeginStop, Running, Suspend, store, locks, locals, bounds,
     LeaseInv, TypeOK, TransitionInv, InsideLabels, AwaitLabels, MemoryType,
     ControlType, LocalsType, Keys
<1>6. OwnedInv'
  <2>1. CASE UNCHANGED app
    BY <2>1 DEF BeginStop, LeaseInv, OwnedInv
  <2>2. CASE app' = [app EXCEPT ![key[t][1]] = FALSE]
    <3>1. \A p \in Points : owners[<<key[t][1], p>>] = None
      BY DEF BeginStop, Running, InsideLabels, LeaseInv, TransitionInv
    <3>2. key[t][1] \in Devices
      BY DEF LeaseInv, TypeOK, LocalsType, Keys
    <3> QED BY <2>2, <3>1, <3>2, SameApp DEF BeginStop, LeaseInv, TypeOK
  <2> QED BY <2>1, <2>2 DEF BeginStop
<1> QED BY <1>1, <1>2, <1>3, <1>4, <1>5, <1>6 DEF LeaseInv

\* CloseApp keeps LeaseInv.
LEMMA CloseAppKeeps ==
  ASSUME LeaseInv, TypeOK', NEW t \in Tasks, CloseApp(t)
  PROVE  LeaseInv'
<1>1. KindInv'
  BY DEF CloseApp, Resumes, Suspend, memory, store, locks, locals, bounds,
     LeaseInv, TypeOK, KindInv, TransitionLabels, OverrideCalls, Overriding,
     ControlType, LocalsType
<1>2. ArgsInv'
  BY DEF CloseApp, Resumes, Suspend, memory, store, locks, locals, bounds,
     LeaseInv, TypeOK, ArgsInv, OverrideCalls, Overriding, ControlType,
     LocalsType, Frame, MaybeValue
<1>3. LockInv'
  BY DEF CloseApp, Resumes, Suspend, memory, store, locks, locals, bounds,
     LeaseInv, TypeOK, LockInv, InsideLabels, AwaitLabels, ControlType,
     LocalsType, LocksType, Keys
<1>4. OwnerInv'
  BY DEF CloseApp, Resumes, Suspend, memory, store, locks, locals, bounds,
     LeaseInv, TypeOK, OwnerInv, Overriding, MemoryType, LocalsType
<1>5. TransitionInv'
  BY DEF CloseApp, Resumes, Suspend, memory, store, locks, locals, bounds,
     LeaseInv, TypeOK, TransitionInv, InsideLabels, AwaitLabels, MemoryType,
     ControlType, LocalsType, Keys
<1>6. OwnedInv'
  BY DEF CloseApp, Resumes, Suspend, memory, store, locks, locals, bounds,
     LeaseInv, TypeOK, OwnedInv, MemoryType, NetworkType, Keys
<1> QED BY <1>1, <1>2, <1>3, <1>4, <1>5, <1>6 DEF LeaseInv

\* EndStop keeps LeaseInv.
LEMMA EndStopKeeps ==
  ASSUME LeaseInv, TypeOK', NEW t \in Tasks, EndStop(t)
  PROVE  LeaseInv'
<1>1. KindInv'
  BY DEF EndStop, Resumes, Suspend, Continue, network, store, locks, locals,
     bounds, LeaseInv, TypeOK, KindInv, TransitionLabels, OverrideCalls,
     Overriding, ControlType, LocalsType
<1>2. ArgsInv'
  BY DEF EndStop, Resumes, Suspend, Continue, network, store, locks, locals,
     bounds, LeaseInv, TypeOK, ArgsInv, OverrideCalls, Overriding,
     ControlType, LocalsType, Frame, MaybeValue
<1>3. LockInv'
  BY MoveInside DEF EndStop, Resumes, locks, locals, InsideLabels, AwaitLabels, LeaseInv, TypeOK
<1>4. OwnerInv'
  BY DEF EndStop, Resumes, Suspend, Continue, network, store, locks, locals,
     bounds, LeaseInv, TypeOK, OwnerInv, Overriding, MemoryType, LocalsType
<1>5. TransitionInv'
  BY DEF EndStop, Resumes, Suspend, Continue, network, store, locks, locals,
     bounds, LeaseInv, TypeOK, TransitionInv, InsideLabels, AwaitLabels,
     MemoryType, ControlType, LocalsType, Keys
<1>6. OwnedInv'
  BY DEF EndStop, Resumes, Suspend, Continue, network, store, locks, locals,
     bounds, LeaseInv, TypeOK, OwnedInv, MemoryType, NetworkType, Keys
<1> QED BY <1>1, <1>2, <1>3, <1>4, <1>5, <1>6 DEF LeaseInv

\* EnterOnline keeps LeaseInv.
LEMMA EnterOnlineKeeps ==
  ASSUME LeaseInv, TypeOK', NEW t \in Tasks, EnterOnline(t)
  PROVE  LeaseInv'
<1>1. KindInv'
  BY DEF EnterOnline, Enters, Running, Reserved, Continue, Suspend, store,
     locks, locals, bounds, LeaseInv, TypeOK, KindInv, TransitionLabels,
     OverrideCalls, Overriding, ControlType, LocalsType
<1>2. ArgsInv'
  BY DEF EnterOnline, Enters, Running, Reserved, Continue, Suspend, store,
     locks, locals, bounds, LeaseInv, TypeOK, ArgsInv, OverrideCalls,
     Overriding, ControlType, LocalsType, Frame, MaybeValue
<1>3. LockInv'
  BY MoveInside DEF EnterOnline, Enters, Running, locks, locals, InsideLabels, AwaitLabels, LeaseInv, TypeOK
<1>4. OwnerInv'
  BY DEF EnterOnline, Enters, Running, Reserved, Continue, Suspend, store,
     locks, locals, bounds, LeaseInv, TypeOK, OwnerInv, Overriding,
     MemoryType, LocalsType
<1>5. TransitionInv'
  <2>1. /\ UNCHANGED <<owners, locals>>
        /\ \A u \in Tasks \ {t} : pc'[u] = pc[u]
    BY DEF EnterOnline, Continue, Suspend, LeaseInv, TypeOK, ControlType
  <2>2. pc'[t] \in InsideLabels \ {"locked", "leave"} => ~ Reserved(key[t][1])
    BY DEF EnterOnline, Continue, Suspend, InsideLabels, AwaitLabels, LeaseInv,
       TypeOK, ControlType
  <2> QED BY <2>1, <2>2 DEF LeaseInv, TransitionInv, Reserved, locals
<1>6. OwnedInv'
  BY DEF EnterOnline, Enters, Running, Reserved, Continue, Suspend, store,
     locks, locals, bounds, LeaseInv, TypeOK, OwnedInv, MemoryType,
     NetworkType, Keys
<1> QED BY <1>1, <1>2, <1>3, <1>4, <1>5, <1>6 DEF LeaseInv

\* EndStart keeps LeaseInv.
LEMMA EndStartKeeps ==
  ASSUME LeaseInv, TypeOK', NEW t \in Tasks, EndStart(t)
  PROVE  LeaseInv'
<1>1. KindInv'
  BY DEF EndStart, Resumes, Suspend, network, store, locks, locals, bounds,
     LeaseInv, TypeOK, KindInv, TransitionLabels, OverrideCalls, Overriding,
     ControlType, LocalsType
<1>2. ArgsInv'
  BY DEF EndStart, Resumes, Suspend, network, store, locks, locals, bounds,
     LeaseInv, TypeOK, ArgsInv, OverrideCalls, Overriding, ControlType,
     LocalsType, Frame, MaybeValue
<1>3. LockInv'
  BY DEF EndStart, Resumes, Suspend, network, store, locks, locals, bounds,
     LeaseInv, TypeOK, LockInv, InsideLabels, AwaitLabels, ControlType,
     LocalsType, LocksType, Keys
<1>4. OwnerInv'
  BY DEF EndStart, Resumes, Suspend, network, store, locks, locals, bounds,
     LeaseInv, TypeOK, OwnerInv, Overriding, MemoryType, LocalsType
<1>5. TransitionInv'
  BY DEF EndStart, Resumes, Suspend, network, store, locks, locals, bounds,
     LeaseInv, TypeOK, TransitionInv, InsideLabels, AwaitLabels, MemoryType,
     ControlType, LocalsType, Keys
<1>6. OwnedInv'
  BY DEF EndStart, Resumes, Suspend, network, store, locks, locals, bounds,
     LeaseInv, TypeOK, OwnedInv, MemoryType, NetworkType, Keys
<1> QED BY <1>1, <1>2, <1>3, <1>4, <1>5, <1>6 DEF LeaseInv

\* Fault keeps LeaseInv.
LEMMA FaultKeeps ==
  ASSUME LeaseInv, TypeOK', NEW t \in Tasks, Fault(t)
  PROVE  LeaseInv'
<1>1. KindInv'
  BY DEF Fault, Running, Suspend, network, store, locks, locals, bounds,
     LeaseInv, TypeOK, KindInv, TransitionLabels, OverrideCalls, Overriding,
     ControlType, LocalsType
<1>2. ArgsInv'
  BY DEF Fault, Running, Suspend, network, store, locks, locals, bounds,
     LeaseInv, TypeOK, ArgsInv, OverrideCalls, Overriding, ControlType,
     LocalsType, Frame, MaybeValue
<1>3. LockInv'
  BY DEF Fault, Running, Suspend, network, store, locks, locals, bounds,
     LeaseInv, TypeOK, LockInv, InsideLabels, AwaitLabels, ControlType,
     LocalsType, LocksType, Keys
<1>4. OwnerInv'
  BY DEF Fault, Running, Suspend, network, store, locks, locals, bounds,
     LeaseInv, TypeOK, OwnerInv, Overriding, MemoryType, LocalsType
<1>5. TransitionInv'
  BY DEF Fault, Running, Suspend, network, store, locks, locals, bounds,
     LeaseInv, TypeOK, TransitionInv, InsideLabels, AwaitLabels, MemoryType,
     ControlType, LocalsType, Keys
<1>6. OwnedInv'
  BY DEF Fault, Running, Suspend, network, store, locks, locals, bounds,
     LeaseInv, TypeOK, OwnedInv, MemoryType, NetworkType, Keys
<1> QED BY <1>1, <1>2, <1>3, <1>4, <1>5, <1>6 DEF LeaseInv

\* WriteStatusRow keeps LeaseInv.
LEMMA WriteStatusRowKeeps ==
  ASSUME LeaseInv, TypeOK', NEW t \in Tasks, WriteStatusRow(t)
  PROVE  LeaseInv'
<1>1. KindInv'
  BY DEF WriteStatusRow, Resumes, Suspend, Continue, network, memory, locks,
     locals, bounds, LeaseInv, TypeOK, KindInv, TransitionLabels,
     OverrideCalls, Overriding, ControlType, LocalsType
<1>2. ArgsInv'
  BY DEF WriteStatusRow, Resumes, Suspend, Continue, network, memory, locks,
     locals, bounds, LeaseInv, TypeOK, ArgsInv, OverrideCalls, Overriding,
     ControlType, LocalsType, Frame, MaybeValue
<1>3. LockInv'
  BY MoveInside DEF WriteStatusRow, Resumes, locks, locals, InsideLabels, AwaitLabels, LeaseInv, TypeOK
<1>4. OwnerInv'
  BY DEF WriteStatusRow, Resumes, Suspend, Continue, network, memory, locks,
     locals, bounds, LeaseInv, TypeOK, OwnerInv, Overriding, MemoryType,
     LocalsType
<1>5. TransitionInv'
  BY DEF WriteStatusRow, Resumes, Suspend, Continue, network, memory, locks,
     locals, bounds, LeaseInv, TypeOK, TransitionInv, InsideLabels,
     AwaitLabels, MemoryType, ControlType, LocalsType, Keys
<1>6. OwnedInv'
  BY DEF WriteStatusRow, Resumes, Suspend, Continue, network, memory, locks,
     locals, bounds, LeaseInv, TypeOK, OwnedInv, MemoryType, NetworkType,
     Keys
<1> QED BY <1>1, <1>2, <1>3, <1>4, <1>5, <1>6 DEF LeaseInv

\* RecordStatus keeps LeaseInv.
LEMMA RecordStatusKeeps ==
  ASSUME LeaseInv, TypeOK', NEW t \in Tasks, RecordStatus(t)
  PROVE  LeaseInv'
<1>1. KindInv'
  BY DEF RecordStatus, Resumes, Continue, network, memory, store, locks,
     locals, bounds, LeaseInv, TypeOK, KindInv, TransitionLabels,
     OverrideCalls, Overriding, ControlType, LocalsType
<1>2. ArgsInv'
  BY DEF RecordStatus, Resumes, Continue, network, memory, store, locks,
     locals, bounds, LeaseInv, TypeOK, ArgsInv, OverrideCalls, Overriding,
     ControlType, LocalsType, Frame, MaybeValue
<1>3. LockInv'
  BY DEF RecordStatus, Resumes, Continue, network, memory, store, locks,
     locals, bounds, LeaseInv, TypeOK, LockInv, InsideLabels, AwaitLabels,
     ControlType, LocalsType, LocksType, Keys
<1>4. OwnerInv'
  BY DEF RecordStatus, Resumes, Continue, network, memory, store, locks,
     locals, bounds, LeaseInv, TypeOK, OwnerInv, Overriding, MemoryType,
     LocalsType
<1>5. TransitionInv'
  BY DEF RecordStatus, Resumes, Continue, network, memory, store, locks,
     locals, bounds, LeaseInv, TypeOK, TransitionInv, InsideLabels,
     AwaitLabels, MemoryType, ControlType, LocalsType, Keys
<1>6. OwnedInv'
  BY DEF RecordStatus, Resumes, Continue, network, memory, store, locks,
     locals, bounds, LeaseInv, TypeOK, OwnedInv, MemoryType, NetworkType,
     Keys
<1> QED BY <1>1, <1>2, <1>3, <1>4, <1>5, <1>6 DEF LeaseInv

\* EndCall keeps LeaseInv.
LEMMA EndCallKeeps ==
  ASSUME LeaseInv, TypeOK', NEW t \in Tasks, EndCall(t)
  PROVE  LeaseInv'
<1>1. KindInv'
  BY DEF EndCall, Running, Release, Suspend, locals, Continue, Finish, Home,
     Blank, network, memory, store, bounds, LeaseInv, TypeOK, KindInv,
     TransitionLabels, OverrideCalls, Overriding, ControlType, LocalsType
<1>2. ArgsInv'
  BY DEF EndCall, Running, Release, Suspend, locals, Continue, Finish, Home,
     Blank, network, memory, store, bounds, LeaseInv, TypeOK, ArgsInv,
     OverrideCalls, Overriding, ControlType, LocalsType, Frame, MaybeValue
<1>3. LockInv'
  <2>1. CASE Finish(t)
    BY <2>1, LeaveLock, HomeType DEF EndCall, Finish, InsideLabels, AwaitLabels, Labels, LeaseInv, TypeOK
  <2>2. CASE Suspend(t, "hold") /\ UNCHANGED locals
    BY <2>2, LeaveLock, HomeType DEF EndCall, InsideLabels, AwaitLabels, SleepLabels, Labels, locals, LeaseInv, TypeOK
  <2>3. CASE /\ Continue(t, "lock") /\ key[t][1] < ND
             /\ key' = [key EXCEPT ![t] = <<key[t][1] + 1, 1>>]
    <3>1. <<key[t][1] + 1, 1>> \in Keys
      BY <2>3, ServiceAssumption
      DEF LeaseInv, TypeOK, LocalsType, Keys, Devices, Points
    <3> QED BY <2>3, <3>1, LeaveLock DEF EndCall, InsideLabels, AwaitLabels, Labels, LeaseInv, TypeOK
  <2> QED BY <2>1, <2>2, <2>3 DEF EndCall
<1>4. OwnerInv'
  <2>1. CASE Finish(t)
    <3>1. call[t] \notin Overriding
      BY <2>1 DEF EndCall, Finish, Suspend, Overriding, LeaseInv, KindInv, TypeOK,
         ControlType, LocalsType
    <3> QED BY <2>1, <3>1, SameOwner, HomeType
            DEF EndCall, Finish, Overriding, Calls, memory, LeaseInv, TypeOK
  <2>2. CASE Suspend(t, "hold") /\ UNCHANGED locals
    BY <2>2 DEF EndCall, memory, locals, LeaseInv, OwnerInv
  <2>3. CASE /\ call[t] = "sync" /\ UNCHANGED call /\ key[t][1] < ND
             /\ key' = [key EXCEPT ![t] = <<key[t][1] + 1, 1>>]
    <3>1. <<key[t][1] + 1, 1>> \in Keys
      BY <2>3, ServiceAssumption
      DEF LeaseInv, TypeOK, LocalsType, Keys, Devices, Points
    <3>2. call' = [call EXCEPT ![t] = "sync"]
      BY <2>3 DEF LeaseInv, TypeOK, LocalsType
    <3> QED BY <2>3, <3>1, <3>2, SameOwner
            DEF EndCall, Overriding, Calls, memory, LeaseInv, TypeOK
  <2> QED BY <2>1, <2>2, <2>3 DEF EndCall
<1>5. TransitionInv'
  BY DEF EndCall, Running, Release, Suspend, locals, Continue, Finish, Home,
     Blank, network, memory, store, bounds, LeaseInv, TypeOK, TransitionInv,
     InsideLabels, AwaitLabels, MemoryType, ControlType, LocalsType, Keys
<1>6. OwnedInv'
  BY DEF EndCall, Running, Release, Suspend, locals, Continue, Finish, Home,
     Blank, network, memory, store, bounds, LeaseInv, TypeOK, OwnedInv,
     MemoryType, NetworkType, Keys
<1> QED BY <1>1, <1>2, <1>3, <1>4, <1>5, <1>6 DEF LeaseInv

\* EndOverride keeps LeaseInv.
LEMMA EndOverrideKeeps ==
  ASSUME LeaseInv, TypeOK', NEW t \in Tasks, EndOverride(t)
  PROVE  LeaseInv'
<1>1. KindInv'
  BY DEF EndOverride, Running, Release, FreePoint, Finish, Suspend, Home,
     Blank, network, store, bounds, LeaseInv, TypeOK, KindInv,
     TransitionLabels, OverrideCalls, Overriding, ControlType, LocalsType
<1>2. ArgsInv'
  BY DEF EndOverride, Running, Release, FreePoint, Finish, Suspend, Home,
     Blank, network, store, bounds, LeaseInv, TypeOK, ArgsInv,
     OverrideCalls, Overriding, ControlType, LocalsType, Frame, MaybeValue
<1>3. LockInv'
  BY DEF EndOverride, Running, Release, FreePoint, Finish, Suspend, Home,
     Blank, network, store, bounds, LeaseInv, TypeOK, LockInv, InsideLabels,
     AwaitLabels, ControlType, LocalsType, LocksType, Keys
<1>4. OwnerInv'
  BY DEF EndOverride, Running, Release, FreePoint, Finish, Suspend, Home,
     Blank, network, store, bounds, LeaseInv, TypeOK, OwnerInv, Overriding,
     MemoryType, LocalsType
<1>5. TransitionInv'
  BY DEF EndOverride, Running, Release, FreePoint, Finish, Suspend, Home,
     Blank, network, store, bounds, LeaseInv, TypeOK, TransitionInv,
     InsideLabels, AwaitLabels, MemoryType, ControlType, LocalsType, Keys
<1>6. OwnedInv'
  BY DEF EndOverride, Running, Release, FreePoint, Finish, Suspend, Home,
     Blank, network, store, bounds, LeaseInv, TypeOK, OwnedInv, MemoryType,
     NetworkType, Keys
<1> QED BY <1>1, <1>2, <1>3, <1>4, <1>5, <1>6 DEF LeaseInv

\* EndTransition keeps LeaseInv.
LEMMA EndTransitionKeeps ==
  ASSUME LeaseInv, TypeOK', NEW t \in Tasks, EndTransition(t)
  PROVE  LeaseInv'
<1>1. KindInv'
  BY DEF EndTransition, Running, Release, Finish, Suspend, Home, Blank,
     locals, network, memory, store, bounds, LeaseInv, TypeOK, KindInv,
     TransitionLabels, OverrideCalls, Overriding, ControlType, LocalsType
<1>2. ArgsInv'
  BY DEF EndTransition, Running, Release, Finish, Suspend, Home, Blank,
     locals, network, memory, store, bounds, LeaseInv, TypeOK, ArgsInv,
     OverrideCalls, Overriding, ControlType, LocalsType, Frame, MaybeValue
<1>3. LockInv'
  <2>1. CASE Finish(t)
    BY <2>1, LeaveLock, HomeType DEF EndTransition, Finish, InsideLabels, AwaitLabels, Labels, LeaseInv, TypeOK
  <2>2. CASE ~ Finish(t)
    BY <2>2, LeaveLock, HomeType
    DEF EndTransition, InsideLabels, AwaitLabels, SleepLabels, Labels, locals, LeaseInv, TypeOK
  <2> QED BY <2>1, <2>2
<1>4. OwnerInv'
  <2>1. call[t] \notin Overriding
    BY DEF EndTransition, Running, Overriding, LeaseInv, KindInv, OverrideCalls, TransitionLabels
  <2>2. CASE Finish(t)
    BY <2>1, <2>2, SameOwner, HomeType
    DEF EndTransition, Finish, Overriding, Calls, memory, LeaseInv, TypeOK
  <2>3. CASE UNCHANGED locals
    BY <2>3 DEF EndTransition, memory, locals, LeaseInv, OwnerInv
  <2> QED BY <2>2, <2>3 DEF EndTransition
<1>5. TransitionInv'
  BY DEF EndTransition, Running, Release, Finish, Suspend, Home, Blank,
     locals, network, memory, store, bounds, LeaseInv, TypeOK,
     TransitionInv, InsideLabels, AwaitLabels, MemoryType, ControlType,
     LocalsType, Keys
<1>6. OwnedInv'
  BY DEF EndTransition, Running, Release, Finish, Suspend, Home, Blank,
     locals, network, memory, store, bounds, LeaseInv, TypeOK, OwnedInv,
     MemoryType, NetworkType, Keys
<1> QED BY <1>1, <1>2, <1>3, <1>4, <1>5, <1>6 DEF LeaseInv

\* SleepEnds keeps LeaseInv.
LEMMA SleepEndsKeeps ==
  ASSUME LeaseInv, TypeOK', NEW t \in Tasks, SleepEnds(t)
  PROVE  LeaseInv'
<1>1. KindInv'
  BY DEF SleepEnds, Resumes, Proceed, Continue, network, memory, store,
     locks, bounds, LeaseInv, TypeOK, KindInv, TransitionLabels,
     OverrideCalls, Overriding, ControlType, LocalsType
<1>2. ArgsInv'
  BY DEF SleepEnds, Resumes, Proceed, Continue, network, memory, store,
     locks, bounds, LeaseInv, TypeOK, ArgsInv, OverrideCalls, Overriding,
     ControlType, LocalsType, Frame, MaybeValue
<1>3. LockInv'
  BY DEF SleepEnds, Resumes, Proceed, Continue, network, memory, store,
     locks, bounds, LeaseInv, TypeOK, LockInv, InsideLabels, AwaitLabels,
     ControlType, LocalsType, LocksType, Keys
<1>4. OwnerInv'
  <2>1. call[t] \notin Overriding
    BY DEF SleepEnds, Resumes, Overriding, LeaseInv, KindInv, OverrideCalls, TransitionLabels
  <2> QED BY <2>1, SameOwner, HomeType
          DEF SleepEnds, Proceed, Overriding, Calls, memory, LeaseInv, TypeOK
<1>5. TransitionInv'
  BY DEF SleepEnds, Resumes, Proceed, Continue, network, memory, store,
     locks, bounds, LeaseInv, TypeOK, TransitionInv, InsideLabels,
     AwaitLabels, MemoryType, ControlType, LocalsType, Keys
<1>6. OwnedInv'
  BY DEF SleepEnds, Resumes, Proceed, Continue, network, memory, store,
     locks, bounds, LeaseInv, TypeOK, OwnedInv, MemoryType, NetworkType,
     Keys
<1> QED BY <1>1, <1>2, <1>3, <1>4, <1>5, <1>6 DEF LeaseInv

\* Unwind keeps LeaseInv.
LEMMA UnwindKeeps ==
  ASSUME LeaseInv, TypeOK', NEW t \in Tasks, Unwind(t)
  PROVE  LeaseInv'
<1>1. KindInv'
  BY DEF Unwind, Running, Release, Finish, Suspend, Home, Blank,
     MustRestore, Proceed, Continue, FreePoint, locals, network, store,
     bounds, LeaseInv, TypeOK, KindInv, TransitionLabels, OverrideCalls,
     Overriding, ControlType, LocalsType
<1>2. ArgsInv'
  BY DEF Unwind, Running, Release, Finish, Suspend, Home, Blank,
     MustRestore, Proceed, Continue, FreePoint, locals, network, store,
     bounds, LeaseInv, TypeOK, ArgsInv, OverrideCalls, Overriding,
     ControlType, LocalsType, Frame, MaybeValue
<1>3. LockInv'
  BY DEF Unwind, Running, Release, Finish, Suspend, Home, Blank,
     MustRestore, Proceed, Continue, FreePoint, locals, network, store,
     bounds, LeaseInv, TypeOK, LockInv, InsideLabels, AwaitLabels,
     ControlType, LocalsType, LocksType, Keys
<1>4. OwnerInv'
  <2>1. CASE call[t] \in {"read", "write", "sync", "reserve"} /\ Finish(t)
             /\ UNCHANGED owners
    BY <2>1, SameOwner, HomeType DEF Finish, Overriding, Calls, LeaseInv, TypeOK
  <2>2. CASE MustRestore(t) /\ Proceed(t, "restore") /\ UNCHANGED owners
    BY <2>2, SameOwner, HomeType DEF MustRestore, Proceed, Overriding, Calls, LeaseInv, TypeOK
  <2>3. CASE call[t] \in Overriding /\ FreePoint(t) /\ Finish(t)
    BY <2>3, FreedOwner DEF LeaseInv, TypeOK
  <2>4. CASE UNCHANGED <<owners, locals>>
    BY <2>4 DEF locals, LeaseInv, OwnerInv
  <2> QED BY <2>1, <2>2, <2>3, <2>4 DEF Unwind, Overriding
<1>5. TransitionInv'
  BY DEF Unwind, Running, Release, Finish, Suspend, Home, Blank,
     MustRestore, Proceed, Continue, FreePoint, locals, network, store,
     bounds, LeaseInv, TypeOK, TransitionInv, InsideLabels, AwaitLabels,
     MemoryType, ControlType, LocalsType, Keys
<1>6. OwnedInv'
  BY DEF Unwind, Running, Release, Finish, Suspend, Home, Blank,
     MustRestore, Proceed, Continue, FreePoint, locals, network, store,
     bounds, LeaseInv, TypeOK, OwnedInv, MemoryType, NetworkType, Keys
<1> QED BY <1>1, <1>2, <1>3, <1>4, <1>5, <1>6 DEF LeaseInv

\* Finally keeps LeaseInv.
LEMMA FinallyKeeps ==
  ASSUME LeaseInv, TypeOK', NEW t \in Tasks, Finally(t)
  PROVE  LeaseInv'
<1>1. KindInv'
  BY DEF Finally, Running, Proceed, Continue, Finish, Suspend, Home, Blank,
     network, memory, store, locks, bounds, LeaseInv, TypeOK, KindInv,
     TransitionLabels, OverrideCalls, Overriding, ControlType, LocalsType
<1>2. ArgsInv'
  BY DEF Finally, Running, Proceed, Continue, Finish, Suspend, Home, Blank,
     network, memory, store, locks, bounds, LeaseInv, TypeOK, ArgsInv,
     OverrideCalls, Overriding, ControlType, LocalsType, Frame, MaybeValue
<1>3. LockInv'
  <2>1. CASE Finish(t)
    BY <2>1, StayOutside, HomeType
    DEF Finally, Running, Finish, InsideLabels, AwaitLabels, Labels, locks, LeaseInv, TypeOK
  <2>2. CASE Proceed(t, "online")
    BY <2>2, StayOutside, HomeType
    DEF Finally, Running, Proceed, InsideLabels, AwaitLabels, Labels, locks, LeaseInv, TypeOK
  <2> QED BY <2>1, <2>2 DEF Finally
<1>4. OwnerInv'
  <2>1. call[t] \notin Overriding
    BY DEF Finally, Running, Overriding, LeaseInv, KindInv, OverrideCalls, TransitionLabels
  <2> QED BY <2>1, SameOwner, HomeType
          DEF Finally, Finish, Proceed, Overriding, Calls, memory, LeaseInv, TypeOK
<1>5. TransitionInv'
  BY DEF Finally, Running, Proceed, Continue, Finish, Suspend, Home, Blank,
     network, memory, store, locks, bounds, LeaseInv, TypeOK, TransitionInv,
     InsideLabels, AwaitLabels, MemoryType, ControlType, LocalsType, Keys
<1>6. OwnedInv'
  BY DEF Finally, Running, Proceed, Continue, Finish, Suspend, Home, Blank,
     network, memory, store, locks, bounds, LeaseInv, TypeOK, OwnedInv,
     MemoryType, NetworkType, Keys
<1> QED BY <1>1, <1>2, <1>3, <1>4, <1>5, <1>6 DEF LeaseInv

\* RefreshFails keeps LeaseInv.
LEMMA RefreshFailsKeeps ==
  ASSUME LeaseInv, TypeOK', NEW t \in Tasks, RefreshFails(t)
  PROVE  LeaseInv'
<1>1. KindInv'
  BY DEF RefreshFails, Resumes, Throw, Continue, network, memory, store,
     locks, locals, LeaseInv, TypeOK, KindInv, TransitionLabels,
     OverrideCalls, Overriding, ControlType, LocalsType
<1>2. ArgsInv'
  BY DEF RefreshFails, Resumes, Throw, Continue, network, memory, store,
     locks, locals, LeaseInv, TypeOK, ArgsInv, OverrideCalls, Overriding,
     ControlType, LocalsType, Frame, MaybeValue
<1>3. LockInv'
  BY DEF RefreshFails, Resumes, Throw, Continue, network, memory, store,
     locks, locals, LeaseInv, TypeOK, LockInv, InsideLabels, AwaitLabels,
     ControlType, LocalsType, LocksType, Keys
<1>4. OwnerInv'
  BY DEF RefreshFails, Resumes, Throw, Continue, network, memory, store,
     locks, locals, LeaseInv, TypeOK, OwnerInv, Overriding, MemoryType,
     LocalsType
<1>5. TransitionInv'
  BY DEF RefreshFails, Resumes, Throw, Continue, network, memory, store,
     locks, locals, LeaseInv, TypeOK, TransitionInv, InsideLabels,
     AwaitLabels, MemoryType, ControlType, LocalsType, Keys
<1>6. OwnedInv'
  BY DEF RefreshFails, Resumes, Throw, Continue, network, memory, store,
     locks, locals, LeaseInv, TypeOK, OwnedInv, MemoryType, NetworkType,
     Keys
<1> QED BY <1>1, <1>2, <1>3, <1>4, <1>5, <1>6 DEF LeaseInv

\* StartFails keeps LeaseInv.
LEMMA StartFailsKeeps ==
  ASSUME LeaseInv, TypeOK', NEW t \in Tasks, StartFails(t)
  PROVE  LeaseInv'
<1>1. KindInv'
  BY DEF StartFails, Resumes, AbortStart, Suspend, memory, store, locks,
     LeaseInv, TypeOK, KindInv, TransitionLabels, OverrideCalls, Overriding,
     ControlType, LocalsType
<1>2. ArgsInv'
  BY DEF StartFails, Resumes, AbortStart, Suspend, memory, store, locks,
     LeaseInv, TypeOK, ArgsInv, OverrideCalls, Overriding, ControlType,
     LocalsType, Frame, MaybeValue
<1>3. LockInv'
  BY DEF StartFails, Resumes, AbortStart, Suspend, memory, store, locks,
     LeaseInv, TypeOK, LockInv, InsideLabels, AwaitLabels, ControlType,
     LocalsType, LocksType, Keys
<1>4. OwnerInv'
  BY DEF StartFails, Resumes, AbortStart, Suspend, memory, store, locks,
     LeaseInv, TypeOK, OwnerInv, Overriding, MemoryType, LocalsType
<1>5. TransitionInv'
  BY DEF StartFails, Resumes, AbortStart, Suspend, memory, store, locks,
     LeaseInv, TypeOK, TransitionInv, InsideLabels, AwaitLabels, MemoryType,
     ControlType, LocalsType, Keys
<1>6. OwnedInv'
  <2>1. \A p \in Points : owners[<<key[t][1], p>>] = None
    BY DEF StartFails, Resumes, InsideLabels, AwaitLabels, LeaseInv, KindInv,
       TransitionInv
  <2>2. key[t][1] \in Devices
    BY DEF LeaseInv, TypeOK, LocalsType, Keys
  <2> QED BY <2>1, <2>2, SameApp DEF StartFails, AbortStart, memory, LeaseInv, TypeOK
<1> QED BY <1>1, <1>2, <1>3, <1>4, <1>5, <1>6 DEF LeaseInv

\* StatusStoreFails keeps LeaseInv.
LEMMA StatusStoreFailsKeeps ==
  ASSUME LeaseInv, TypeOK', NEW t \in Tasks, StatusStoreFails(t)
  PROVE  LeaseInv'
<1>1. KindInv'
  BY DEF StatusStoreFails, Resumes, Continue, network, memory, store, locks,
     locals, LeaseInv, TypeOK, KindInv, TransitionLabels, OverrideCalls,
     Overriding, ControlType, LocalsType
<1>2. ArgsInv'
  BY DEF StatusStoreFails, Resumes, Continue, network, memory, store, locks,
     locals, LeaseInv, TypeOK, ArgsInv, OverrideCalls, Overriding,
     ControlType, LocalsType, Frame, MaybeValue
<1>3. LockInv'
  BY DEF StatusStoreFails, Resumes, Continue, network, memory, store, locks,
     locals, LeaseInv, TypeOK, LockInv, InsideLabels, AwaitLabels,
     ControlType, LocalsType, LocksType, Keys
<1>4. OwnerInv'
  BY DEF StatusStoreFails, Resumes, Continue, network, memory, store, locks,
     locals, LeaseInv, TypeOK, OwnerInv, Overriding, MemoryType, LocalsType
<1>5. TransitionInv'
  BY DEF StatusStoreFails, Resumes, Continue, network, memory, store, locks,
     locals, LeaseInv, TypeOK, TransitionInv, InsideLabels, AwaitLabels,
     MemoryType, ControlType, LocalsType, Keys
<1>6. OwnedInv'
  BY DEF StatusStoreFails, Resumes, Continue, network, memory, store, locks,
     locals, LeaseInv, TypeOK, OwnedInv, MemoryType, NetworkType, Keys
<1> QED BY <1>1, <1>2, <1>3, <1>4, <1>5, <1>6 DEF LeaseInv

\* CancelWaiting keeps LeaseInv.
LEMMA CancelWaitingKeeps ==
  ASSUME LeaseInv, TypeOK', NEW t \in Tasks, CancelWaiting(t)
  PROVE  LeaseInv'
<1>1. KindInv'
  BY DEF CancelWaiting, Cancellable, Continue, MarkStopped, network, memory,
     store, bounds, LeaseInv, TypeOK, KindInv, TransitionLabels,
     OverrideCalls, Overriding, ControlType, LocalsType
<1>2. ArgsInv'
  BY DEF CancelWaiting, Cancellable, Continue, MarkStopped, network, memory,
     store, bounds, LeaseInv, TypeOK, ArgsInv, OverrideCalls, Overriding,
     ControlType, LocalsType, Frame, MaybeValue
<1>3. LockInv'
  BY DEF CancelWaiting, Cancellable, Continue, MarkStopped, network, memory,
     store, bounds, LeaseInv, TypeOK, LockInv, InsideLabels, AwaitLabels,
     ControlType, LocalsType, LocksType, Keys
<1>4. OwnerInv'
  BY DEF CancelWaiting, Cancellable, Continue, MarkStopped, network, memory,
     store, bounds, LeaseInv, TypeOK, OwnerInv, Overriding, MemoryType,
     LocalsType
<1>5. TransitionInv'
  BY DEF CancelWaiting, Cancellable, Continue, MarkStopped, network, memory,
     store, bounds, LeaseInv, TypeOK, TransitionInv, InsideLabels,
     AwaitLabels, MemoryType, ControlType, LocalsType, Keys
<1>6. OwnedInv'
  BY DEF CancelWaiting, Cancellable, Continue, MarkStopped, network, memory,
     store, bounds, LeaseInv, TypeOK, OwnedInv, MemoryType, NetworkType,
     Keys
<1> QED BY <1>1, <1>2, <1>3, <1>4, <1>5, <1>6 DEF LeaseInv

\* CancelSleep keeps LeaseInv.
LEMMA CancelSleepKeeps ==
  ASSUME LeaseInv, TypeOK', NEW t \in Tasks, CancelSleep(t)
  PROVE  LeaseInv'
<1>1. KindInv'
  BY DEF CancelSleep, Cancellable, SleepLabels, Proceed, Continue,
     MarkStopped, network, memory, store, locks, bounds, LeaseInv, TypeOK,
     KindInv, TransitionLabels, OverrideCalls, Overriding, ControlType,
     LocalsType
<1>2. ArgsInv'
  <2>1. /\ UNCHANGED key
        /\ \A u \in Tasks \ {t} : pc'[u] = pc[u] /\ frame'[u] = frame[u]
                                  /\ call'[u] = call[u]
        /\ pc'[t] \in {"raise", "lock"}
    BY DEF CancelSleep, MarkStopped, Proceed, Continue, LeaseInv,
       TypeOK, ControlType, LocalsType
  <2>2. /\ frame'[t].val = frame[t].val /\ frame'[t].prev = frame[t].prev
        /\ frame'[t].rev = frame[t].rev
    BY DEF CancelSleep, MarkStopped, LeaseInv, TypeOK, LocalsType, Frame
  <2>3. IF pc[t] = "hold" THEN call[t] = "force" /\ call'[t] = "restore"
                          ELSE call'[t] = call[t]
    BY DEF CancelSleep, Proceed, LeaseInv, KindInv, TypeOK, LocalsType
  <2>4. pc[t] = "hold" => frame[t].rev # NoRev
    BY <2>3 DEF LeaseInv, ArgsInv
  <2> QED BY <2>1, <2>2, <2>3, <2>4 DEF LeaseInv, ArgsInv, OverrideCalls, Overriding, IsCommandable
<1>3. LockInv'
  <2>1. CASE pc[t] = "hold"
    BY <2>1, StayOutside, HomeType
    DEF CancelSleep, Proceed, InsideLabels, AwaitLabels, Labels, locks, LeaseInv, TypeOK
  <2>2. CASE pc[t] # "hold"
    BY <2>2, MoveInside DEF CancelSleep, locks, LeaseInv, TypeOK
  <2> QED BY <2>1, <2>2
<1>4. OwnerInv'
  <2>1. CASE pc[t] = "hold"
    <3>1. call[t] = "force"
      BY <2>1 DEF LeaseInv, KindInv
    <3> QED BY <2>1, <3>1, SameOwner, HomeType
            DEF CancelSleep, Proceed, Overriding, Calls, memory, LeaseInv, TypeOK
  <2>2. CASE pc[t] # "hold"
    BY <2>2 DEF CancelSleep, memory, LeaseInv, OwnerInv
  <2> QED BY <2>1, <2>2
<1>5. TransitionInv'
  BY DEF CancelSleep, Cancellable, SleepLabels, Proceed, Continue,
     MarkStopped, network, memory, store, locks, bounds, LeaseInv, TypeOK,
     TransitionInv, InsideLabels, AwaitLabels, MemoryType, ControlType,
     LocalsType, Keys
<1>6. OwnedInv'
  BY DEF CancelSleep, Cancellable, SleepLabels, Proceed, Continue,
     MarkStopped, network, memory, store, locks, bounds, LeaseInv, TypeOK,
     OwnedInv, MemoryType, NetworkType, Keys
<1> QED BY <1>1, <1>2, <1>3, <1>4, <1>5, <1>6 DEF LeaseInv

\* CancelStore keeps LeaseInv.
LEMMA CancelStoreKeeps ==
  ASSUME LeaseInv, TypeOK', NEW t \in Tasks, CancelStore(t)
  PROVE  LeaseInv'
<1>1. KindInv'
  BY DEF CancelStore, Cancellable, store, Scanned, Continue, MarkStopped,
     network, memory, locks, bounds, LeaseInv, TypeOK, KindInv,
     TransitionLabels, OverrideCalls, Overriding, ControlType, LocalsType
<1>2. ArgsInv'
  BY DEF CancelStore, Cancellable, store, Scanned, Continue, MarkStopped,
     network, memory, locks, bounds, LeaseInv, TypeOK, ArgsInv,
     OverrideCalls, Overriding, ControlType, LocalsType, Frame, MaybeValue
<1>3. LockInv'
  BY DEF CancelStore, Cancellable, store, Scanned, Continue, MarkStopped,
     network, memory, locks, bounds, LeaseInv, TypeOK, LockInv,
     InsideLabels, AwaitLabels, ControlType, LocalsType, LocksType, Keys
<1>4. OwnerInv'
  BY DEF CancelStore, Cancellable, store, Scanned, Continue, MarkStopped,
     network, memory, locks, bounds, LeaseInv, TypeOK, OwnerInv, Overriding,
     MemoryType, LocalsType
<1>5. TransitionInv'
  BY DEF CancelStore, Cancellable, store, Scanned, Continue, MarkStopped,
     network, memory, locks, bounds, LeaseInv, TypeOK, TransitionInv,
     InsideLabels, AwaitLabels, MemoryType, ControlType, LocalsType, Keys
<1>6. OwnedInv'
  BY DEF CancelStore, Cancellable, store, Scanned, Continue, MarkStopped,
     network, memory, locks, bounds, LeaseInv, TypeOK, OwnedInv, MemoryType,
     NetworkType, Keys
<1> QED BY <1>1, <1>2, <1>3, <1>4, <1>5, <1>6 DEF LeaseInv

\* CancelTransport keeps LeaseInv.
LEMMA CancelTransportKeeps ==
  ASSUME LeaseInv, TypeOK', NEW t \in Tasks, CancelTransport(t)
  PROVE  LeaseInv'
<1>1. KindInv'
  BY DEF CancelTransport, Cancellable, Continue, MarkStopped, network,
     memory, store, locks, AbortStart, Suspend, LeaseInv, TypeOK, KindInv,
     TransitionLabels, OverrideCalls, Overriding, ControlType, LocalsType
<1>2. ArgsInv'
  <2>1. UNCHANGED <<call, key>> /\ pc'[t] \in {"raise", "stopping"}
        /\ \A u \in Tasks \ {t} : pc'[u] = pc[u] /\ frame'[u] = frame[u]
    BY DEF CancelTransport, AbortStart, MarkStopped, Continue, Suspend, LeaseInv,
       TypeOK, ControlType, LocalsType
  <2>2. /\ frame'[t].val = frame[t].val /\ frame'[t].prev = frame[t].prev
        /\ frame'[t].rev = frame[t].rev
    BY DEF CancelTransport, AbortStart, MarkStopped, LeaseInv, TypeOK, LocalsType,
       Frame
  <2> QED BY <2>1, <2>2 DEF LeaseInv, ArgsInv, IsCommandable
<1>3. LockInv'
  BY MoveInside DEF CancelTransport, AbortStart, locks, locals, InsideLabels, AwaitLabels, LeaseInv, TypeOK
<1>4. OwnerInv'
  BY DEF CancelTransport, Cancellable, Continue, MarkStopped, network,
     memory, store, locks, AbortStart, Suspend, LeaseInv, TypeOK, OwnerInv,
     Overriding, MemoryType, LocalsType
<1>5. TransitionInv'
  BY DEF CancelTransport, Cancellable, Continue, MarkStopped, network,
     memory, store, locks, AbortStart, Suspend, LeaseInv, TypeOK,
     TransitionInv, InsideLabels, AwaitLabels, MemoryType, ControlType,
     LocalsType, Keys
<1>6. OwnedInv'
  <2>1. CASE UNCHANGED network
    BY <2>1 DEF CancelTransport, AbortStart, network, memory, LeaseInv, OwnedInv
  <2>2. CASE pc[t] = "starting" /\ AbortStart(t, "cancel")
    <3>1. \A p \in Points : owners[<<key[t][1], p>>] = None
      BY <2>2 DEF InsideLabels, AwaitLabels, LeaseInv, KindInv, TransitionInv
    <3>2. key[t][1] \in Devices
      BY DEF LeaseInv, TypeOK, LocalsType, Keys
    <3> QED BY <2>2, <3>1, <3>2, SameApp DEF AbortStart, memory, LeaseInv, TypeOK
  <2> QED BY <2>1, <2>2 DEF CancelTransport
<1> QED BY <1>1, <1>2, <1>3, <1>4, <1>5, <1>6 DEF LeaseInv

\* StartRead keeps LeaseInv.
LEMMA StartReadKeeps ==
  ASSUME LeaseInv, TypeOK', NEW t \in Apis, NEW d \in Devices, StartRead(t,
     d)
  PROVE  LeaseInv'
<1>1. KindInv'
  BY ServiceAssumption DEF StartRead, Begin, Continue, network, memory,
     store, locks, Blank, LeaseInv, TypeOK, KindInv, TransitionLabels,
     OverrideCalls, Overriding, ControlType, LocalsType, Tasks, Scenarios
<1>2. ArgsInv'
  BY ServiceAssumption DEF StartRead, Begin, Continue, network, memory,
     store, locks, Blank, LeaseInv, TypeOK, ArgsInv, OverrideCalls,
     Overriding, ControlType, LocalsType, Frame, MaybeValue, Tasks,
     Scenarios
<1>3. LockInv'
  BY ServiceAssumption DEF StartRead, Begin, Continue, network, memory,
     store, locks, Blank, LeaseInv, TypeOK, LockInv, InsideLabels,
     AwaitLabels, ControlType, LocalsType, LocksType, Keys, Tasks, Scenarios
<1>4. OwnerInv'
  BY ServiceAssumption DEF StartRead, Begin, Continue, network, memory,
     store, locks, Blank, LeaseInv, TypeOK, OwnerInv, Overriding,
     MemoryType, LocalsType, Tasks, Scenarios
<1>5. TransitionInv'
  BY ServiceAssumption DEF StartRead, Begin, Continue, network, memory,
     store, locks, Blank, LeaseInv, TypeOK, TransitionInv, InsideLabels,
     AwaitLabels, MemoryType, ControlType, LocalsType, Keys, Tasks,
     Scenarios
<1>6. OwnedInv'
  BY ServiceAssumption DEF StartRead, Begin, Continue, network, memory,
     store, locks, Blank, LeaseInv, TypeOK, OwnedInv, MemoryType,
     NetworkType, Keys, Tasks, Scenarios
<1> QED BY <1>1, <1>2, <1>3, <1>4, <1>5, <1>6 DEF LeaseInv

\* StartWrite keeps LeaseInv.
LEMMA StartWriteKeeps ==
  ASSUME LeaseInv, TypeOK', NEW t \in Apis, NEW k \in Keys, NEW v \in
     MaybeValue, NEW p \in Priorities, StartWrite(t, k, v, p)
  PROVE  LeaseInv'
<1>1. KindInv'
  BY ServiceAssumption DEF StartWrite, Begin, Continue, network, memory,
     store, locks, Blank, LeaseInv, TypeOK, KindInv, TransitionLabels,
     OverrideCalls, Overriding, ControlType, LocalsType, Tasks, Scenarios
<1>2. ArgsInv'
  BY ServiceAssumption DEF StartWrite, Begin, Continue, network, memory,
     store, locks, Blank, LeaseInv, TypeOK, ArgsInv, OverrideCalls,
     Overriding, ControlType, LocalsType, Frame, MaybeValue, Tasks,
     Scenarios
<1>3. LockInv'
  BY ServiceAssumption DEF StartWrite, Begin, Continue, network, memory,
     store, locks, Blank, LeaseInv, TypeOK, LockInv, InsideLabels,
     AwaitLabels, ControlType, LocalsType, LocksType, Keys, Tasks, Scenarios
<1>4. OwnerInv'
  BY ServiceAssumption DEF StartWrite, Begin, Continue, network, memory,
     store, locks, Blank, LeaseInv, TypeOK, OwnerInv, Overriding,
     MemoryType, LocalsType, Tasks, Scenarios
<1>5. TransitionInv'
  BY ServiceAssumption DEF StartWrite, Begin, Continue, network, memory,
     store, locks, Blank, LeaseInv, TypeOK, TransitionInv, InsideLabels,
     AwaitLabels, MemoryType, ControlType, LocalsType, Keys, Tasks,
     Scenarios
<1>6. OwnedInv'
  BY ServiceAssumption DEF StartWrite, Begin, Continue, network, memory,
     store, locks, Blank, LeaseInv, TypeOK, OwnedInv, MemoryType,
     NetworkType, Keys, Tasks, Scenarios
<1> QED BY <1>1, <1>2, <1>3, <1>4, <1>5, <1>6 DEF LeaseInv

\* HvacWrite keeps LeaseInv.
LEMMA HvacWriteKeeps ==
  ASSUME LeaseInv, TypeOK', NEW t \in Hvacs, NEW k \in Keys, NEW v \in
     Values, HvacWrite(t, k, v)
  PROVE  LeaseInv'
<1>1. KindInv'
  BY ServiceAssumption DEF HvacWrite, Begin, Continue, network, memory,
     store, locks, Blank, LeaseInv, TypeOK, KindInv, TransitionLabels,
     OverrideCalls, Overriding, ControlType, LocalsType, Tasks, Scenarios
<1>2. ArgsInv'
  BY ServiceAssumption DEF HvacWrite, Begin, Continue, network, memory,
     store, locks, Blank, LeaseInv, TypeOK, ArgsInv, OverrideCalls,
     Overriding, ControlType, LocalsType, Frame, MaybeValue, Tasks,
     Scenarios
<1>3. LockInv'
  BY ServiceAssumption DEF HvacWrite, Begin, Continue, network, memory,
     store, locks, Blank, LeaseInv, TypeOK, LockInv, InsideLabels,
     AwaitLabels, ControlType, LocalsType, LocksType, Keys, Tasks, Scenarios
<1>4. OwnerInv'
  BY ServiceAssumption DEF HvacWrite, Begin, Continue, network, memory,
     store, locks, Blank, LeaseInv, TypeOK, OwnerInv, Overriding,
     MemoryType, LocalsType, Tasks, Scenarios
<1>5. TransitionInv'
  BY ServiceAssumption DEF HvacWrite, Begin, Continue, network, memory,
     store, locks, Blank, LeaseInv, TypeOK, TransitionInv, InsideLabels,
     AwaitLabels, MemoryType, ControlType, LocalsType, Keys, Tasks,
     Scenarios
<1>6. OwnedInv'
  BY ServiceAssumption DEF HvacWrite, Begin, Continue, network, memory,
     store, locks, Blank, LeaseInv, TypeOK, OwnedInv, MemoryType,
     NetworkType, Keys, Tasks, Scenarios
<1> QED BY <1>1, <1>2, <1>3, <1>4, <1>5, <1>6 DEF LeaseInv

\* StartOverride keeps LeaseInv.
LEMMA StartOverrideKeeps ==
  ASSUME LeaseInv, TypeOK', NEW t \in Overrides, NEW k \in Keys, NEW v \in
     Values, StartOverride(t, k, v)
  PROVE  LeaseInv'
<1>1. KindInv'
  BY ServiceAssumption DEF StartOverride, Begin, Continue, network, memory,
     store, locks, Blank, LeaseInv, TypeOK, KindInv, TransitionLabels,
     OverrideCalls, Overriding, ControlType, LocalsType, Tasks, Scenarios
<1>2. ArgsInv'
  BY ServiceAssumption DEF StartOverride, Begin, Continue, network, memory,
     store, locks, Blank, LeaseInv, TypeOK, ArgsInv, OverrideCalls,
     Overriding, ControlType, LocalsType, Frame, MaybeValue, Tasks,
     Scenarios
<1>3. LockInv'
  BY ServiceAssumption DEF StartOverride, Begin, Continue, network, memory,
     store, locks, Blank, LeaseInv, TypeOK, LockInv, InsideLabels,
     AwaitLabels, ControlType, LocalsType, LocksType, Keys, Tasks, Scenarios
<1>4. OwnerInv'
  <2>1. call[t] \notin Overriding /\ t \in Tasks
    BY DEF StartOverride, Begin, Overriding, LeaseInv, KindInv, Tasks, Scenarios
  <2> QED BY <2>1, SameOwner DEF StartOverride, Begin, Overriding, Calls, memory, LeaseInv, TypeOK
<1>5. TransitionInv'
  BY ServiceAssumption DEF StartOverride, Begin, Continue, network, memory,
     store, locks, Blank, LeaseInv, TypeOK, TransitionInv, InsideLabels,
     AwaitLabels, MemoryType, ControlType, LocalsType, Keys, Tasks,
     Scenarios
<1>6. OwnedInv'
  BY ServiceAssumption DEF StartOverride, Begin, Continue, network, memory,
     store, locks, Blank, LeaseInv, TypeOK, OwnedInv, MemoryType,
     NetworkType, Keys, Tasks, Scenarios
<1> QED BY <1>1, <1>2, <1>3, <1>4, <1>5, <1>6 DEF LeaseInv

\* StartOffline keeps LeaseInv.
LEMMA StartOfflineKeeps ==
  ASSUME LeaseInv, TypeOK', NEW t \in Offlines, NEW d \in Devices,
     StartOffline(t, d)
  PROVE  LeaseInv'
<1>1. KindInv'
  BY ServiceAssumption DEF StartOffline, Begin, Continue, network, memory,
     store, locks, Blank, LeaseInv, TypeOK, KindInv, TransitionLabels,
     OverrideCalls, Overriding, ControlType, LocalsType, Tasks, Scenarios
<1>2. ArgsInv'
  BY ServiceAssumption DEF StartOffline, Begin, Continue, network, memory,
     store, locks, Blank, LeaseInv, TypeOK, ArgsInv, OverrideCalls,
     Overriding, ControlType, LocalsType, Frame, MaybeValue, Tasks,
     Scenarios
<1>3. LockInv'
  BY ServiceAssumption DEF StartOffline, Begin, Continue, network, memory,
     store, locks, Blank, LeaseInv, TypeOK, LockInv, InsideLabels,
     AwaitLabels, ControlType, LocalsType, LocksType, Keys, Tasks, Scenarios
<1>4. OwnerInv'
  BY ServiceAssumption DEF StartOffline, Begin, Continue, network, memory,
     store, locks, Blank, LeaseInv, TypeOK, OwnerInv, Overriding,
     MemoryType, LocalsType, Tasks, Scenarios
<1>5. TransitionInv'
  BY ServiceAssumption DEF StartOffline, Begin, Continue, network, memory,
     store, locks, Blank, LeaseInv, TypeOK, TransitionInv, InsideLabels,
     AwaitLabels, MemoryType, ControlType, LocalsType, Keys, Tasks,
     Scenarios
<1>6. OwnedInv'
  BY ServiceAssumption DEF StartOffline, Begin, Continue, network, memory,
     store, locks, Blank, LeaseInv, TypeOK, OwnedInv, MemoryType,
     NetworkType, Keys, Tasks, Scenarios
<1> QED BY <1>1, <1>2, <1>3, <1>4, <1>5, <1>6 DEF LeaseInv

\* StartSync keeps LeaseInv.
LEMMA StartSyncKeeps ==
  ASSUME LeaseInv, TypeOK', NEW t \in Syncs, StartSync(t)
  PROVE  LeaseInv'
<1>1. KindInv'
  BY ServiceAssumption DEF StartSync, Begin, Continue, network, memory,
     store, locks, Home, Blank, LeaseInv, TypeOK, KindInv, TransitionLabels,
     OverrideCalls, Overriding, ControlType, LocalsType, Tasks, Scenarios
<1>2. ArgsInv'
  BY ServiceAssumption DEF StartSync, Begin, Continue, network, memory,
     store, locks, Home, Blank, LeaseInv, TypeOK, ArgsInv, OverrideCalls,
     Overriding, ControlType, LocalsType, Frame, MaybeValue, Tasks,
     Scenarios
<1>3. LockInv'
  BY ServiceAssumption DEF StartSync, Begin, Continue, network, memory,
     store, locks, Home, Blank, LeaseInv, TypeOK, LockInv, InsideLabels,
     AwaitLabels, ControlType, LocalsType, LocksType, Keys, Tasks, Scenarios
<1>4. OwnerInv'
  BY ServiceAssumption DEF StartSync, Begin, Continue, network, memory,
     store, locks, Home, Blank, LeaseInv, TypeOK, OwnerInv, Overriding,
     MemoryType, LocalsType, Tasks, Scenarios
<1>5. TransitionInv'
  BY ServiceAssumption DEF StartSync, Begin, Continue, network, memory,
     store, locks, Home, Blank, LeaseInv, TypeOK, TransitionInv,
     InsideLabels, AwaitLabels, MemoryType, ControlType, LocalsType, Keys,
     Tasks, Scenarios
<1>6. OwnedInv'
  BY ServiceAssumption DEF StartSync, Begin, Continue, network, memory,
     store, locks, Home, Blank, LeaseInv, TypeOK, OwnedInv, MemoryType,
     NetworkType, Keys, Tasks, Scenarios
<1> QED BY <1>1, <1>2, <1>3, <1>4, <1>5, <1>6 DEF LeaseInv

\* NativeWrite keeps LeaseInv.
LEMMA NativeWriteKeeps ==
  ASSUME LeaseInv, TypeOK', NEW k \in Keys, NativeWrite(k)
  PROVE  LeaseInv'
<1>1. KindInv'
  BY DEF NativeWrite, memory, store, locks, control, locals, LeaseInv,
     TypeOK, KindInv, TransitionLabels, OverrideCalls, Overriding,
     ControlType, LocalsType
<1>2. ArgsInv'
  BY DEF NativeWrite, memory, store, locks, control, locals, LeaseInv,
     TypeOK, ArgsInv, OverrideCalls, Overriding, ControlType, LocalsType,
     Frame, MaybeValue
<1>3. LockInv'
  BY DEF NativeWrite, memory, store, locks, control, locals, LeaseInv,
     TypeOK, LockInv, InsideLabels, AwaitLabels, ControlType, LocalsType,
     LocksType, Keys
<1>4. OwnerInv'
  BY DEF NativeWrite, memory, store, locks, control, locals, LeaseInv,
     TypeOK, OwnerInv, Overriding, MemoryType, LocalsType
<1>5. TransitionInv'
  BY DEF NativeWrite, memory, store, locks, control, locals, LeaseInv,
     TypeOK, TransitionInv, InsideLabels, AwaitLabels, MemoryType,
     ControlType, LocalsType, Keys
<1>6. OwnedInv'
  BY DEF NativeWrite, memory, store, locks, control, locals, LeaseInv,
     TypeOK, OwnedInv, MemoryType, NetworkType, Keys
<1> QED BY <1>1, <1>2, <1>3, <1>4, <1>5, <1>6 DEF LeaseInv

-----------------------------------------------------------------------------
(* The invariant itself. *)

\* The initial states satisfy LeaseInv: nothing is owned, nobody works.
LEMMA InitKeeps ==
  ASSUME Init
  PROVE  LeaseInv
<1>1. TypeOK
  BY InitType
<1>2. /\ pc = [t \in Tasks |-> "idle"] /\ call = [t \in Tasks |-> "none"]
      /\ owners = [k \in Keys |-> None] /\ holder = [d \in Devices |-> None]
  BY DEF Init
<1>3. KindInv
  BY <1>2 DEF KindInv, OverrideCalls, TransitionLabels, Overriding
<1>4. ArgsInv
  BY <1>2 DEF ArgsInv, OverrideCalls, Overriding
<1>5. LockInv
  BY <1>2 DEF LockInv, InsideLabels, AwaitLabels
<1>6. OwnerInv
  BY <1>2 DEF OwnerInv, Overriding
<1>7. TransitionInv
  BY <1>2 DEF TransitionInv
<1>8. OwnedInv
  BY <1>2 DEF OwnedInv
<1> QED BY <1>1, <1>3, <1>4, <1>5, <1>6, <1>7, <1>8 DEF LeaseInv

\* A step of the environment, or of nobody, satisfies it too.
LEMMA StutterKeeps ==
  ASSUME LeaseInv, UNCHANGED vars
  PROVE  LeaseInv'
<1>1. TypeOK'
  BY KeepTypes DEF LeaseInv, TypeOK, vars, network, memory, store, locks, control,
     locals, bounds
<1>2. UNCHANGED <<pc, call, key, frame, owners, app, holder>>
  BY DEF vars, network, memory, locks, control, locals
<1>3. KindInv' /\ LockInv' /\ OwnerInv'
  BY <1>2 DEF LeaseInv, KindInv, LockInv, OwnerInv
<1>4. ArgsInv' /\ TransitionInv' /\ OwnedInv'
  BY <1>2 DEF LeaseInv, ArgsInv, TransitionInv, OwnedInv, IsCommandable
<1> QED BY <1>1, <1>3, <1>4 DEF LeaseInv

\* Every step of a task keeps LeaseInv.
LEMMA TaskStepKeeps ==
  ASSUME LeaseInv, NEW t \in Tasks, TaskStep(t)
  PROVE  LeaseInv'
<1>1. CASE RequestLock(t)
  BY <1>1, RequestLockType, RequestLockKeeps DEF LeaseInv
<1>2. CASE TakeLock(t)
  BY <1>2, TakeLockType, TakeLockKeeps DEF LeaseInv
<1>3. CASE EnterRead(t)
  BY <1>3, EnterReadType, EnterReadKeeps DEF LeaseInv
<1>4. CASE EnterWrite(t)
  BY <1>4, EnterWriteType, EnterWriteKeeps DEF LeaseInv
<1>5. CASE Scan(t)
  BY <1>5, ScanType, ScanKeeps DEF LeaseInv
<1>6. CASE Persist(t)
  BY <1>6, PersistType, PersistKeeps DEF LeaseInv
<1>7. CASE Record(t)
  BY <1>7, RecordType, RecordKeeps DEF LeaseInv
<1>8. CASE Reserve(t)
  BY <1>8, ReserveType, ReserveKeeps DEF LeaseInv
<1>9. CASE ForceValue(t)
  BY <1>9, ForceValueType, ForceValueKeeps DEF LeaseInv
<1>10. CASE HoldEnds(t)
  BY <1>10, HoldEndsType, HoldEndsKeeps DEF LeaseInv
<1>11. CASE Restore(t)
  BY <1>11, RestoreType, RestoreKeeps DEF LeaseInv
<1>12. CASE EnterOffline(t)
  BY <1>12, EnterOfflineType, EnterOfflineKeeps DEF LeaseInv
<1>13. CASE BeginStop(t)
  BY <1>13, BeginStopType, BeginStopKeeps DEF LeaseInv
<1>14. CASE CloseApp(t)
  BY <1>14, CloseAppType, CloseAppKeeps DEF LeaseInv
<1>15. CASE EndStop(t)
  BY <1>15, EndStopType, EndStopKeeps DEF LeaseInv
<1>16. CASE EnterOnline(t)
  BY <1>16, EnterOnlineType, EnterOnlineKeeps DEF LeaseInv
<1>17. CASE EndStart(t)
  BY <1>17, EndStartType, EndStartKeeps DEF LeaseInv
<1>18. CASE Fault(t)
  BY <1>18, FaultType, FaultKeeps DEF LeaseInv
<1>19. CASE WriteStatusRow(t)
  BY <1>19, WriteStatusRowType, WriteStatusRowKeeps DEF LeaseInv
<1>20. CASE RecordStatus(t)
  BY <1>20, RecordStatusType, RecordStatusKeeps DEF LeaseInv
<1>21. CASE EndCall(t)
  BY <1>21, EndCallType, EndCallKeeps DEF LeaseInv
<1>22. CASE EndOverride(t)
  BY <1>22, EndOverrideType, EndOverrideKeeps DEF LeaseInv
<1>23. CASE EndTransition(t)
  BY <1>23, EndTransitionType, EndTransitionKeeps DEF LeaseInv
<1>24. CASE SleepEnds(t)
  BY <1>24, SleepEndsType, SleepEndsKeeps DEF LeaseInv
<1>25. CASE Unwind(t)
  BY <1>25, UnwindType, UnwindKeeps DEF LeaseInv
<1>26. CASE Finally(t)
  BY <1>26, FinallyType, FinallyKeeps DEF LeaseInv
<1> QED BY <1>1, <1>2, <1>3, <1>4, <1>5, <1>6, <1>7, <1>8, <1>9, <1>10,
   <1>11, <1>12, <1>13, <1>14, <1>15, <1>16, <1>17, <1>18, <1>19, <1>20,
   <1>21, <1>22, <1>23, <1>24, <1>25, <1>26 DEF TaskStep

\* Every failure keeps LeaseInv.
LEMMA FailsKeeps ==
  ASSUME LeaseInv, NEW t \in Tasks, Fails(t)
  PROVE  LeaseInv'
<1>1. CASE RefreshFails(t)
  BY <1>1, RefreshFailsType, RefreshFailsKeeps DEF LeaseInv
<1>2. CASE StartFails(t)
  BY <1>2, StartFailsType, StartFailsKeeps DEF LeaseInv
<1>3. CASE StatusStoreFails(t)
  BY <1>3, StatusStoreFailsType, StatusStoreFailsKeeps DEF LeaseInv
<1> QED BY <1>1, <1>2, <1>3 DEF Fails

\* Every cancellation keeps LeaseInv.
LEMMA CancelKeeps ==
  ASSUME LeaseInv, NEW t \in Tasks, Cancel(t)
  PROVE  LeaseInv'
<1>1. CASE CancelWaiting(t)
  BY <1>1, CancelWaitingType, CancelWaitingKeeps DEF LeaseInv
<1>2. CASE CancelSleep(t)
  BY <1>2, CancelSleepType, CancelSleepKeeps DEF LeaseInv
<1>3. CASE CancelStore(t)
  BY <1>3, CancelStoreType, CancelStoreKeeps DEF LeaseInv
<1>4. CASE CancelTransport(t)
  BY <1>4, CancelTransportType, CancelTransportKeeps DEF LeaseInv
<1> QED BY <1>1, <1>2, <1>3, <1>4 DEF Cancel

\* Every request keeps LeaseInv.
LEMMA RequestKeeps ==
  ASSUME LeaseInv, Request
  PROVE  LeaseInv'
<1>1. ASSUME NEW t \in Apis, NEW d \in Devices, StartRead(t, d)
      PROVE  LeaseInv'
  BY <1>1, StartReadType, StartReadKeeps DEF LeaseInv
<1>2. ASSUME NEW t \in Apis, NEW k \in Keys, NEW v \in MaybeValue,
             NEW p \in Priorities, StartWrite(t, k, v, p)
      PROVE  LeaseInv'
  BY <1>2, StartWriteType, StartWriteKeeps DEF LeaseInv
<1>3. ASSUME NEW t \in Hvacs, NEW k \in Keys, NEW v \in Values, HvacWrite(t, k, v)
      PROVE  LeaseInv'
  BY <1>3, HvacWriteType, HvacWriteKeeps DEF LeaseInv
<1>4. ASSUME NEW t \in Overrides, NEW k \in Keys, NEW v \in Values,
             StartOverride(t, k, v)
      PROVE  LeaseInv'
  BY <1>4, StartOverrideType, StartOverrideKeeps DEF LeaseInv
<1>5. ASSUME NEW t \in Offlines, NEW d \in Devices, StartOffline(t, d)
      PROVE  LeaseInv'
  BY <1>5, StartOfflineType, StartOfflineKeeps DEF LeaseInv
<1> QED BY <1>1, <1>2, <1>3, <1>4, <1>5 DEF Request

\* Every step keeps LeaseInv.
LEMMA NextKeeps ==
  ASSUME LeaseInv, [Next]_vars
  PROVE  LeaseInv'
<1>1. CASE \E t \in Tasks : TaskStep(t) \/ Fails(t) \/ Cancel(t)
  BY <1>1, TaskStepKeeps, FailsKeeps, CancelKeeps
<1>2. CASE \E t \in Syncs : StartSync(t)
  BY <1>2, StartSyncType, StartSyncKeeps DEF LeaseInv
<1>3. CASE Request
  BY <1>3, RequestKeeps
<1>4. CASE \E k \in Keys : NativeWrite(k)
  BY <1>4, NativeWriteType, NativeWriteKeeps DEF LeaseInv
<1>5. CASE UNCHANGED vars
  BY <1>5, StutterKeeps
<1> QED BY <1>1, <1>2, <1>3, <1>4, <1>5 DEF Next

(***************************************************************************)
(* At every moment the lock of a device is held by the one task inside it, *)
(* the owner of a point is the override that works on it, a transition     *)
(* past its test has no owner on its device, and a device with an owner    *)
(* keeps its application (device_service.py: _locks, _owners, write_point, *)
(* override, set_device_status).                                           *)
(***************************************************************************)
THEOREM LeaseInvariant == Spec => []LeaseInv
<1>1. Init => LeaseInv
  BY InitKeeps
<1>2. LeaseInv /\ [Next]_vars => LeaseInv'
  BY NextKeeps
<1> QED BY <1>1, <1>2, PTL DEF Spec

(***************************************************************************)
(* Every variable always has its type: the fields of device_service.py,    *)
(* the rows it writes and the locals of its operations.                    *)
(***************************************************************************)
THEOREM TypeCorrect == Spec => []TypeOK
<1>1. LeaseInv => TypeOK
  BY DEF LeaseInv
<1> QED BY <1>1, LeaseInvariant, PTL
=============================================================================
