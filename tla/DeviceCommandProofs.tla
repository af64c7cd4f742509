------------------------ MODULE DeviceCommandProofs ------------------------
(***************************************************************************)
(* What the revision counter of DeviceService.override is good for: an     *)
(* override gives back only its own command, and unless a stop reaches it  *)
(* at the lock of its cleanup it leaves no command behind.  And what the   *)
(* order persist, record, accept of _refresh is good for: a snapshot is    *)
(* what was recorded last, and the events of a point form a chain.         *)
(***************************************************************************)
EXTENDS DeviceProofs

-----------------------------------------------------------------------------
(* Locals of overrides. *)

\* After a step u works on the override it worked on before, or reserves anew.
Kept(u) ==
  call'[u] \in OverrideCalls =>
    \/ /\ call[u] \in OverrideCalls
       /\ key'[u] = key[u]
       /\ frame'[u].rev = frame[u].rev
       /\ call'[u] = "reserve" => call[u] = "reserve"
    \/ call'[u] = "reserve" /\ frame'[u].rev = NoRev

\* Only the forced write of an override changes the revision it saved.
LEMMA TaskKept ==
  ASSUME LeaseInv, NEW t \in Tasks, TaskStep(t) \/ Fails(t) \/ Cancel(t),
         ~ ForceValue(t), NEW u \in Tasks
  PROVE  Kept(u)
<1>1. CASE RequestLock(t)
  BY <1>1 DEF RequestLock, Running, locals, Kept, OverrideCalls, LeaseInv,
     TypeOK, LocalsType, KindInv, Frame, TransitionLabels
<1>2. CASE TakeLock(t)
  BY <1>2 DEF TakeLock, Resumes, locals, Kept, OverrideCalls, LeaseInv,
     TypeOK, LocalsType, KindInv, Frame, TransitionLabels
<1>3. CASE EnterRead(t)
  BY <1>3 DEF EnterRead, Enters, Running, locals, Kept, OverrideCalls,
     LeaseInv, TypeOK, LocalsType, KindInv, Frame, TransitionLabels
<1>4. CASE EnterWrite(t)
  BY <1>4 DEF EnterWrite, Enters, Running, locals, Kept, OverrideCalls,
     LeaseInv, TypeOK, LocalsType, KindInv, Frame, TransitionLabels
<1>5. CASE Scan(t)
  <2>1. UNCHANGED <<call, key>>
    BY <1>5 DEF Scan
  <2>2. CASE UNCHANGED frame
    BY <2>1, <2>2 DEF Kept
  <2>3. CASE \E i \in Changed(t) :
               frame' = [frame EXCEPT ![t].idx = i,
                                      ![t].got = Effective(<<key[t][1], i>>)]
    <3>1. frame'[u].rev = frame[u].rev
      BY <2>3 DEF LeaseInv, TypeOK, LocalsType, Frame
    <3> QED BY <2>1, <3>1 DEF Kept
  <2> QED BY <1>5, <2>2, <2>3 DEF Scan
<1>6. CASE Persist(t)
  BY <1>6 DEF Persist, Resumes, locals, Kept, OverrideCalls, LeaseInv,
     TypeOK, LocalsType, KindInv, Frame, TransitionLabels
<1>7. CASE Record(t)
  BY <1>7 DEF Record, Resumes, Kept, OverrideCalls, LeaseInv, TypeOK,
     LocalsType, KindInv, Frame, TransitionLabels
<1>8. CASE Reserve(t)
  BY <1>8 DEF Reserve, Enters, Running, locals, Proceed, Kept,
     OverrideCalls, LeaseInv, TypeOK, LocalsType, KindInv, Frame,
     TransitionLabels
<1>9. CASE HoldEnds(t)
  BY <1>9 DEF HoldEnds, Resumes, Proceed, Kept, OverrideCalls, LeaseInv,
     TypeOK, LocalsType, KindInv, Frame, TransitionLabels
<1>10. CASE Restore(t)
  BY <1>10 DEF Restore, Enters, Running, Kept, OverrideCalls, LeaseInv,
     TypeOK, LocalsType, KindInv, Frame, TransitionLabels
<1>11. CASE EnterOffline(t)
  BY <1>11 DEF EnterOffline, Enters, Running, Kept, OverrideCalls, LeaseInv,
     TypeOK, LocalsType, KindInv, Frame, TransitionLabels
<1>12. CASE BeginStop(t)
  BY <1>12 DEF BeginStop, Running, locals, Kept, OverrideCalls, LeaseInv,
     TypeOK, LocalsType, KindInv, Frame, TransitionLabels
<1>13. CASE CloseApp(t)
  BY <1>13 DEF CloseApp, Resumes, locals, Kept, OverrideCalls, LeaseInv,
     TypeOK, LocalsType, KindInv, Frame, TransitionLabels
<1>14. CASE EndStop(t)
  BY <1>14 DEF EndStop, Resumes, locals, Kept, OverrideCalls, LeaseInv,
     TypeOK, LocalsType, KindInv, Frame, TransitionLabels
<1>15. CASE EnterOnline(t)
  BY <1>15 DEF EnterOnline, Enters, Running, locals, Kept, OverrideCalls,
     LeaseInv, TypeOK, LocalsType, KindInv, Frame, TransitionLabels
<1>16. CASE EndStart(t)
  BY <1>16 DEF EndStart, Resumes, locals, Kept, OverrideCalls, LeaseInv,
     TypeOK, LocalsType, KindInv, Frame, TransitionLabels
<1>17. CASE Fault(t)
  BY <1>17 DEF Fault, Running, locals, Kept, OverrideCalls, LeaseInv,
     TypeOK, LocalsType, KindInv, Frame, TransitionLabels
<1>18. CASE WriteStatusRow(t)
  BY <1>18 DEF WriteStatusRow, Resumes, locals, Kept, OverrideCalls,
     LeaseInv, TypeOK, LocalsType, KindInv, Frame, TransitionLabels
<1>19. CASE RecordStatus(t)
  BY <1>19 DEF RecordStatus, Resumes, locals, Kept, OverrideCalls, LeaseInv,
     TypeOK, LocalsType, KindInv, Frame, TransitionLabels
<1>20. CASE EndCall(t)
  BY <1>20 DEF EndCall, Running, locals, Finish, Kept, OverrideCalls,
     LeaseInv, TypeOK, LocalsType, KindInv, Frame, TransitionLabels
<1>21. CASE EndOverride(t)
  BY <1>21 DEF EndOverride, Running, Finish, Kept, OverrideCalls, LeaseInv,
     TypeOK, LocalsType, KindInv, Frame, TransitionLabels
<1>22. CASE EndTransition(t)
  BY <1>22 DEF EndTransition, Running, Finish, locals, Kept, OverrideCalls,
     LeaseInv, TypeOK, LocalsType, KindInv, Frame, TransitionLabels
<1>23. CASE SleepEnds(t)
  BY <1>23 DEF SleepEnds, Resumes, Proceed, Kept, OverrideCalls, LeaseInv,
     TypeOK, LocalsType, KindInv, Frame, TransitionLabels
<1>24. CASE Unwind(t)
  <2>1. CASE Finish(t)
    BY <2>1 DEF Finish, Kept, OverrideCalls, LeaseInv, TypeOK, LocalsType
  <2>2. CASE MustRestore(t) /\ Proceed(t, "restore") /\ UNCHANGED frame
    BY <2>2 DEF MustRestore, Proceed, Kept, OverrideCalls, LeaseInv, TypeOK,
       LocalsType
  <2>3. CASE UNCHANGED locals
    BY <2>3 DEF locals, Kept
  <2> QED BY <1>24, <2>1, <2>2, <2>3 DEF Unwind
<1>25. CASE Finally(t)
  BY <1>25 DEF Finally, Running, Proceed, Finish, Kept, OverrideCalls,
     LeaseInv, TypeOK, LocalsType, KindInv, Frame, TransitionLabels
<1>26. CASE RefreshFails(t)
  BY <1>26 DEF RefreshFails, Resumes, locals, Kept, OverrideCalls, LeaseInv,
     TypeOK, LocalsType, KindInv, Frame, TransitionLabels
<1>27. CASE StartFails(t)
  BY <1>27 DEF StartFails, Resumes, AbortStart, Kept, OverrideCalls,
     LeaseInv, TypeOK, LocalsType, KindInv, Frame, TransitionLabels
<1>28. CASE StatusStoreFails(t)
  BY <1>28 DEF StatusStoreFails, Resumes, locals, Kept, OverrideCalls,
     LeaseInv, TypeOK, LocalsType, KindInv, Frame, TransitionLabels
<1>29. CASE CancelWaiting(t)
  BY <1>29 DEF CancelWaiting, MarkStopped, Kept, OverrideCalls, LeaseInv,
     TypeOK, LocalsType, KindInv, Frame, TransitionLabels
<1>30. CASE CancelSleep(t)
  BY <1>30 DEF CancelSleep, Proceed, MarkStopped, Kept, OverrideCalls,
     LeaseInv, TypeOK, LocalsType, KindInv, Frame, TransitionLabels
<1>31. CASE CancelStore(t)
  BY <1>31 DEF CancelStore, MarkStopped, Kept, OverrideCalls, LeaseInv,
     TypeOK, LocalsType, KindInv, Frame, TransitionLabels
<1>32. CASE CancelTransport(t)
  BY <1>32 DEF CancelTransport, MarkStopped, AbortStart, Kept,
     OverrideCalls, LeaseInv, TypeOK, LocalsType, KindInv, Frame,
     TransitionLabels
<1> QED BY <1>1, <1>2, <1>3, <1>4, <1>5, <1>6, <1>7, <1>8, <1>9, <1>10,
   <1>11, <1>12, <1>13, <1>14, <1>15, <1>16, <1>17, <1>18, <1>19, <1>20,
   <1>21, <1>22, <1>23, <1>24, <1>25, <1>26, <1>27, <1>28, <1>29, <1>30,
   <1>31, <1>32 DEF TaskStep, Fails, Cancel

\* Nor do requests and clients.
LEMMA OtherKept ==
  ASSUME LeaseInv, NEW u \in Tasks,
         \/ Request \/ \E t \in Syncs : StartSync(t)
         \/ \E k \in Keys : NativeWrite(k)
         \/ UNCHANGED vars
  PROVE  Kept(u)
<1>1. CASE \E k \in Keys : NativeWrite(k)
  BY <1>1 DEF NativeWrite, locals, Kept
<1>2. CASE UNCHANGED vars
  BY <1>2 DEF vars, locals, Kept
<1>3. ASSUME NEW t \in Tasks, NEW c \in Calls, NEW k, NEW f, Begin(t, c, k, f),
             f.rev = NoRev, c \notin Overriding
      PROVE  Kept(u)
  BY <1>3 DEF Begin, Kept, OverrideCalls, Overriding, LeaseInv, TypeOK, LocalsType
<1>4. /\ Blank.rev = NoRev
      /\ \A v : [Blank EXCEPT !.val = v].rev = NoRev
      /\ \A v, p : [Blank EXCEPT !.val = v, !.prio = p].rev = NoRev
  BY DEF Blank
<1>5. {"read", "write", "sync", "reserve", "offline"} \subseteq Calls \ Overriding
  BY DEF Calls, Overriding
<1>6. CASE Request
  BY <1>3, <1>4, <1>5, <1>6 DEF Request, StartRead, StartWrite, HvacWrite,
     StartOverride, StartOffline, Tasks, Scenarios
<1>7. CASE \E t \in Syncs : StartSync(t)
  BY <1>3, <1>4, <1>5, <1>7 DEF StartSync, Tasks
<1> QED BY <1>1, <1>2, <1>6, <1>7

-----------------------------------------------------------------------------
(* Revisions of objects. *)

\* The object of k is untouched as far as its revision and author tell, or a
\* command was counted.
Counted(k) == \/ obj'[k].rev = obj[k].rev /\ author'[k] = author[k]
              \/ obj'[k].rev > obj[k].rev

\* The engine counts a command to the control place, and no other.
LEMMA EngineCounts ==
  ASSUME NEW o \in Object, NEW c \in BOOLEAN, NEW p \in Priorities,
         NEW v \in MaybeValue, c \/ v \in Values
  PROVE  /\ EngineWrite(c, o, p, v).rev \in {o.rev, o.rev + 1}
         /\ p = ControlPriority => EngineWrite(c, o, p, v).rev = o.rev + 1
<1>1. o.rev \in Nat /\ CountCommand(o) \in Object /\ CountCommand(o).rev = o.rev + 1
  BY CountType DEF Object
<1>2. /\ Command(o, p, v).rev \in {o.rev, o.rev + 1}
      /\ p = ControlPriority => Command(o, p, v).rev = o.rev + 1
  BY <1>1 DEF Command, Object
<1>3. UpdateSensor(o, v).rev = o.rev + 1
  BY <1>1 DEF UpdateSensor, Object
<1> QED BY <1>2, <1>3 DEF EngineWrite

\* Neither does a client's write lower a revision.
LEMMA NativeCounts ==
  ASSUME NEW o \in Object, NEW c \in BOOLEAN, NEW w \in NativeWrites(c, o)
  PROVE  w.rev \in {o.rev, o.rev + 1}
<1>1. o.rev \in Nat /\ CountCommand(o) \in Object /\ CountCommand(o).rev = o.rev + 1
  BY CountType DEF Object
<1>2. \A p \in Priorities, v \in MaybeValue :
        Command(o, p, v).rev \in {o.rev, o.rev + 1}
  BY <1>1 DEF Command, Object
<1>3. ASSUME NEW v, w = [o EXCEPT !.default = v] \/ w = [o EXCEPT !.shown = v]
      PROVE  w.rev = o.rev
  BY <1>3 DEF Object
<1>4. ASSUME NEW b, w = SetOutOfService(o, b)
      PROVE  w.rev = o.rev
  BY <1>4 DEF SetOutOfService, Object
<1>5. CASE c
  <2>1. \/ \E p \in Priorities, v \in MaybeValue : w = Command(o, p, v)
        \/ \E v \in Values : w = [o EXCEPT !.default = v]
    BY <1>5 DEF NativeWrites
  <2> QED BY <2>1, <1>2, <1>3
<1>6. CASE ~c
  <2>1. \/ \E b \in BOOLEAN : w = SetOutOfService(o, b)
        \/ \E v \in Values : w = [o EXCEPT !.shown = v]
    BY <1>6 DEF NativeWrites
  <2> QED BY <2>1, <1>3, <1>4
<1> QED BY <1>5, <1>6

\* A task's command is counted at its point, and nothing changes elsewhere.
LEMMA TaskCounts ==
  ASSUME TypeOK, NEW t \in Tasks, NEW p \in Priorities, NEW v \in MaybeValue,
         IsCommandable(key[t]) \/ v \in Values, NEW w,
         SetObject(t, Written(t, p, v), w)
  PROVE  /\ \A k \in Keys : Counted(k)
         /\ p = ControlPriority =>
              /\ obj'[key[t]].rev = obj[key[t]].rev + 1
              /\ author'[key[t]] = w
         /\ \A k \in Keys : author'[k] # author[k] => k = key[t] /\ author'[k] = w
<1> DEFINE o == obj[key[t]]
           n == Written(t, p, v)
<1>1. key[t] \in Keys /\ o \in Object /\ o.rev \in Nat
      /\ IsCommandable(key[t]) \in BOOLEAN
  BY DEF TypeOK, LocalsType, NetworkType, Object, IsCommandable
<1>2. n.rev \in {o.rev, o.rev + 1} /\ (p = ControlPriority => n.rev = o.rev + 1)
  BY <1>1, EngineCounts DEF Written
<1>3. obj' = [obj EXCEPT ![key[t]] = n]
      /\ author' = IF n.rev # o.rev THEN [author EXCEPT ![key[t]] = w] ELSE author
  BY DEF SetObject
<1> HIDE DEF n, o
<1>4. ASSUME NEW k \in Keys PROVE Counted(k)
  <2>1. CASE k = key[t]
    BY <1>1, <1>2, <1>3, <2>1 DEF Counted, TypeOK, NetworkType, o
  <2>2. CASE k # key[t]
    BY <1>1, <1>3, <2>2 DEF Counted, TypeOK, NetworkType
  <2> QED BY <2>1, <2>2
<1>5. ASSUME p = ControlPriority
      PROVE  obj'[key[t]].rev = obj[key[t]].rev + 1 /\ author'[key[t]] = w
  BY <1>1, <1>2, <1>3, <1>5 DEF TypeOK, NetworkType, o
<1>6. \A k \in Keys : author'[k] # author[k] => k = key[t] /\ author'[k] = w
  BY <1>1, <1>3 DEF TypeOK, NetworkType
<1> QED BY <1>4, <1>5, <1>6

\* What each step does to revisions and authors; only tasks inside write, force
\* or restore, and clients, can do anything.
LEMMA StepCounts ==
  ASSUME LeaseInv, [Next]_vars, NEW k \in Keys
  PROVE  Counted(k)
<1>1. CASE UNCHANGED leaseVars
  BY <1>1 DEF leaseVars, Counted
<1>2. ASSUME NEW j \in Keys, NativeWrite(j)
      PROVE  Counted(k)
  <2>1. PICK o \in NativeWrites(IsCommandable(j), obj[j]) :
          /\ obj' = [obj EXCEPT ![j] = o]
          /\ author' = IF o.rev # obj[j].rev THEN [author EXCEPT ![j] = None]
                       ELSE author
    BY <1>2 DEF NativeWrite
  <2>2. obj[j] \in Object /\ IsCommandable(j) \in BOOLEAN
    BY DEF LeaseInv, TypeOK, NetworkType, IsCommandable
  <2>3. o.rev \in {obj[j].rev, obj[j].rev + 1} /\ obj[j].rev \in Nat
    BY <2>2, NativeCounts DEF Object
  <2> QED BY <2>1, <2>3 DEF Counted, LeaseInv, TypeOK, NetworkType
<1>3. ASSUME NEW t \in Tasks, Active(t)
      PROVE  Counted(k)
  <2>1. CASE UNCHANGED <<obj, author>>
    BY <2>1 DEF Counted
  <2>2. CASE EnterWrite(t)
    <3>1. /\ frame[t].val \in MaybeValue /\ frame[t].prio \in Priorities
          /\ (IsCommandable(key[t]) \/ frame[t].val \in Values)
      BY <2>2 DEF EnterWrite, Enters, LeaseInv, ArgsInv, TypeOK, LocalsType, Frame
    <3> QED BY <2>1, <2>2, <3>1, TaskCounts DEF EnterWrite, LeaseInv
  <2>3. CASE ForceValue(t)
    <3>1. frame[t].val \in Values /\ frame[t].val \in MaybeValue
      BY <2>3 DEF ForceValue, Enters, LeaseInv, ArgsInv, OverrideCalls, MaybeValue
    <3> QED BY <2>1, <2>3, <3>1, TaskCounts, PointAssumption DEF ForceValue, LeaseInv
  <2>4. CASE Restore(t)
    <3>1. /\ frame[t].prev \in MaybeValue
          /\ (IsCommandable(key[t]) \/ frame[t].prev \in Values)
      BY <2>4 DEF Restore, Enters, LeaseInv, ArgsInv, Overriding, TypeOK, LocalsType,
         Frame
    <3> QED BY <2>1, <2>4, <3>1, TaskCounts, PointAssumption DEF Restore, LeaseInv
  <2> QED BY <1>3, <2>1, <2>2, <2>3, <2>4 DEF Active, Reserve, BeginStop,
          EnterOnline, EndOverride, Unwind, StartFails, CancelTransport, AbortStart,
          network
<1> QED BY <1>1, <1>2, <1>3, StepKinds

\* A task's saved revision stays its command's while others count theirs.
LEMMA KeptRevision ==
  ASSUME LeaseInv, RevisionInv, TypeOK', \A k \in Keys : Counted(k),
         NEW t \in Tasks, Kept(t)
  PROVE  LET k == key'[t] IN
         /\ call'[t] = "reserve" => frame'[t].rev = NoRev
         /\ call'[t] \in Overriding => frame'[t].rev <= obj'[k].rev
         /\ call'[t] \in Overriding /\ frame'[t].rev = obj'[k].rev
              => author'[k] = t
<1>1. CASE call'[t] \in OverrideCalls /\ call'[t] # "reserve"
  <2>1. /\ call[t] \in OverrideCalls /\ key'[t] = key[t]
        /\ frame'[t].rev = frame[t].rev
    BY <1>1 DEF Kept
  <2>2. /\ key[t] \in Keys /\ Counted(key[t])
        /\ obj[key[t]].rev \in Nat /\ obj'[key[t]].rev \in Nat
        /\ frame[t].rev \in Nat \cup {-1}
    BY DEF LeaseInv, TypeOK, LocalsType, NetworkType, Object, Frame, NoRev
  <2>3. CASE call[t] = "reserve"
    BY <1>1, <2>1, <2>2, <2>3 DEF RevisionInv, NoRev
  <2>4. CASE call[t] # "reserve"
    <3>1. call[t] \in Overriding
      BY <2>1, <2>4 DEF OverrideCalls, Overriding
    <3>2. /\ frame[t].rev <= obj[key[t]].rev
          /\ frame[t].rev = obj[key[t]].rev => author[key[t]] = t
      BY <3>1 DEF RevisionInv
    <3> QED BY <1>1, <2>1, <2>2, <3>2 DEF Counted
  <2> QED BY <2>3, <2>4
<1>2. CASE call'[t] = "reserve"
  BY <1>2 DEF Kept, RevisionInv, Overriding, OverrideCalls
<1> QED BY <1>1, <1>2 DEF OverrideCalls, Overriding

\* The forced write saves the revision of its own command.
LEMMA ForcedRevision ==
  ASSUME LeaseInv, NEW t \in Tasks, ForceValue(t)
  PROVE  /\ UNCHANGED <<call, key>> /\ call[t] = "force"
         /\ \A u \in Tasks \ {t} : frame'[u] = frame[u]
         /\ \/ UNCHANGED <<obj, author, frame>>
            \/ /\ frame'[t].rev = obj'[key[t]].rev
               /\ frame'[t].rev = obj[key[t]].rev + 1
               /\ author'[key[t]] = t
<1>1. /\ UNCHANGED <<call, key>> /\ call[t] = "force"
      /\ \A u \in Tasks \ {t} : frame'[u] = frame[u]
  BY DEF ForceValue, Enters, LeaseInv, TypeOK, LocalsType
<1>2. CASE UNCHANGED <<obj, author, frame>>
  BY <1>1, <1>2
<1>3. CASE ~ UNCHANGED <<obj, author, frame>>
  <2> DEFINE o == Written(t, ControlPriority, frame[t].val)
  <2>1. frame[t].val \in Values /\ frame[t].val \in MaybeValue
    BY <1>1 DEF LeaseInv, ArgsInv, OverrideCalls, MaybeValue
  <2>2. SetObject(t, o, t)
    BY <1>3 DEF ForceValue
  <2>3. /\ obj'[key[t]].rev = obj[key[t]].rev + 1
        /\ author'[key[t]] = t
    BY <2>1, <2>2, TaskCounts, PointAssumption DEF LeaseInv
  <2>4. obj'[key[t]] = o
    BY <2>2 DEF SetObject, LeaseInv, TypeOK, NetworkType, LocalsType
  <2> HIDE DEF o
  <2>5. frame'[t].rev = o.rev
    BY <1>3 DEF ForceValue, LeaseInv, TypeOK, LocalsType, Frame, o
  <2> QED BY <1>1, <2>3, <2>4, <2>5
<1> QED BY <1>2, <1>3

\* RevisionInv survives every step.
LEMMA RevisionKeeps ==
  ASSUME LeaseInv, LeaseInv', RevisionInv, [Next]_vars
  PROVE  RevisionInv'
<1> SUFFICES ASSUME NEW u \in Tasks
             PROVE  LET k == key'[u] IN
                    /\ call'[u] = "reserve" => frame'[u].rev = NoRev
                    /\ call'[u] \in Overriding => frame'[u].rev <= obj'[k].rev
                    /\ call'[u] \in Overriding /\ frame'[u].rev = obj'[k].rev
                         => author'[k] = u
  BY DEF RevisionInv
<1>1. (\A k \in Keys : Counted(k)) /\ TypeOK'
  BY StepCounts DEF LeaseInv
<1>2. CASE Kept(u)
  BY <1>1, <1>2, KeptRevision
<1>3. ASSUME NEW t \in Tasks, ForceValue(t)
      PROVE  \/ Kept(u)
             \/ /\ call'[u] = "force" /\ key'[u] = key[u]
                /\ frame'[u].rev = obj'[key[u]].rev /\ author'[key[u]] = u
  BY <1>3, ForcedRevision DEF Kept
<1>4. CASE /\ call'[u] = "force" /\ key'[u] = key[u]
           /\ frame'[u].rev = obj'[key[u]].rev /\ author'[key[u]] = u
  <2>1. obj'[key[u]].rev \in Nat
    BY DEF LeaseInv, TypeOK, LocalsType, NetworkType, Object
  <2> QED BY <1>4, <2>1
<1>5. Kept(u) \/ \E t \in Tasks : ForceValue(t)
  BY TaskKept, OtherKept DEF Next
<1> QED BY <1>2, <1>3, <1>4, <1>5

-----------------------------------------------------------------------------
(* What the revisions are for. *)

\* RevisionInv holds of every reachable state.
LEMMA RevisionInvariant == Spec => []RevisionInv
<1>1. Init => RevisionInv
  BY DEF Init, RevisionInv, Overriding
<1>2. LeaseInv /\ LeaseInv' /\ RevisionInv /\ [Next]_vars => RevisionInv'
  BY RevisionKeeps
<1> QED BY <1>1, <1>2, LeaseInvariant, PTL DEF Spec

(***************************************************************************)
(* An override that gives its place back replaces only its own command: a  *)
(* later command there, even of the same value, has another revision and   *)
(* is left (override's finally block).                                     *)
(***************************************************************************)
THEOREM LaterCommandIsKept == Spec => LaterCommandKept
<1> DEFINE Own == \A t \in Overrides :
                    LET k == key[t] IN
                    call[t] = "restore" /\ Acts(t) /\ obj'[k] # obj[k]
                      => author[k] = t
<1>1. LeaseInv /\ RevisionInv /\ [Next]_vars => Own
  <2> SUFFICES ASSUME LeaseInv, RevisionInv, [Next]_vars, NEW t \in Overrides,
                      call[t] = "restore", Acts(t), obj'[key[t]] # obj[key[t]]
               PROVE  author[key[t]] = t
    OBVIOUS
  <2>1. t \in Tasks
    BY DEF Tasks, Scenarios
  <2>2. CASE UNCHANGED leaseVars
    BY <2>2 DEF leaseVars
  <2>3. CASE \E j \in Keys : NativeWrite(j)
    BY <2>3 DEF NativeWrite, control, Acts
  <2>4. ASSUME NEW u \in Tasks, Active(u)
        PROVE  author[key[t]] = t
    <3>1. EnterWrite(u) \/ ForceValue(u) \/ Restore(u)
      BY <2>4 DEF Active, Reserve, BeginStop, EnterOnline, EndOverride, Unwind,
         StartFails, CancelTransport, AbortStart, network
    <3>2. u = t
      BY <2>1, <3>1 DEF EnterWrite, ForceValue, Restore, Continue, Acts, LeaseInv,
         TypeOK, ControlType
    <3>3. Restore(t)
      BY <3>1, <3>2 DEF EnterWrite, ForceValue, Enters
    <3>4. StillMine(t)
      BY <3>3 DEF Restore
    <3> QED BY <2>1, <3>4 DEF StillMine, RevisionInv, Overriding
  <2> QED BY <2>2, <2>3, <2>4, StepKinds
<1> QED BY <1>1, LeaseInvariant, RevisionInvariant, PTL DEF Spec, LaterCommandKept

-----------------------------------------------------------------------------
(* No command of an override is left behind. *)

\* The revision of an object and the author of its command change together.
LEMMA StepAuthors ==
  ASSUME LeaseInv, [Next]_vars, NEW k \in Keys
  PROVE  \/ obj'[k].rev = obj[k].rev /\ author'[k] = author[k]
         \/ author'[k] = None
         \/ \E u \in Tasks : /\ author'[k] = u /\ k = key[u]
                             /\ EnterWrite(u) \/ ForceValue(u)
<1>1. CASE UNCHANGED leaseVars
  BY <1>1 DEF leaseVars
<1>2. ASSUME NEW j \in Keys, NativeWrite(j)
      PROVE  \/ obj'[k].rev = obj[k].rev /\ author'[k] = author[k]
             \/ author'[k] = None
  BY <1>2 DEF NativeWrite, LeaseInv, TypeOK, NetworkType
<1>3. ASSUME NEW t \in Tasks, NEW o, NEW w, SetObject(t, o, w)
      PROVE  \/ obj'[k].rev = obj[k].rev /\ author'[k] = author[k]
             \/ author'[k] = w /\ k = key[t]
  BY <1>3 DEF SetObject, LeaseInv, TypeOK, NetworkType, LocalsType
<1>4. ASSUME NEW t \in Tasks, Active(t)
      PROVE  \/ UNCHANGED <<obj, author>>
             \/ /\ EnterWrite(t) \/ ForceValue(t)
                /\ \E o : SetObject(t, o, t)
             \/ Restore(t) /\ \E o : SetObject(t, o, None)
  <2>1. CASE EnterWrite(t)
    BY <2>1 DEF EnterWrite
  <2>2. CASE ForceValue(t)
    BY <2>2 DEF ForceValue
  <2>3. CASE Restore(t)
    BY <2>3 DEF Restore
  <2> QED BY <1>4, <2>1, <2>2, <2>3 DEF Active, Reserve, BeginStop, EnterOnline,
          EndOverride, Unwind, StartFails, CancelTransport, AbortStart, network
<1> QED BY <1>1, <1>2, <1>3, <1>4, StepKinds

Seeking == {"lock", "waiting", "locked"}

\* An override that starts to give back goes to the lock, and stays there until
\* it restores, unless a stop reaches it in the queue.
LEMMA RestoreSeeks ==
  ASSUME "cleanup" \in Shielded, LeaseInv, NEW u \in Tasks,
         TaskStep(u) \/ Fails(u) \/ Cancel(u), NEW t \in Tasks, ~ Restore(t),
         call[t] = "restore" => pc[t] \in Seeking, call'[t] = "restore"
  PROVE  pc'[t] \in Seeking
<1>1. CASE RequestLock(u)
  BY <1>1 DEF RequestLock, Running, Continue, Suspend, locals, Seeking,
     LeaseInv, TypeOK, LocalsType, ControlType
<1>2. CASE TakeLock(u)
  BY <1>2 DEF TakeLock, Resumes, Continue, locals, Seeking, LeaseInv,
     TypeOK, LocalsType, ControlType
<1>3. CASE EnterRead(u)
  BY <1>3 DEF EnterRead, Enters, Running, Continue, locals, Seeking,
     LeaseInv, TypeOK, LocalsType, ControlType
<1>4. CASE EnterWrite(u)
  BY <1>4 DEF EnterWrite, Enters, Running, Continue, locals, Seeking,
     LeaseInv, TypeOK, LocalsType, ControlType
<1>5. CASE Scan(u)
  BY <1>5 DEF Scan, Running, Continue, Throw, Suspend, Seeking, LeaseInv,
     TypeOK, LocalsType, ControlType
<1>6. CASE Persist(u)
  BY <1>6 DEF Persist, Resumes, Suspend, locals, Seeking, LeaseInv, TypeOK,
     LocalsType, ControlType
<1>7. CASE Record(u)
  BY <1>7 DEF Record, Resumes, Continue, Seeking, LeaseInv, TypeOK,
     LocalsType, ControlType
<1>8. CASE Reserve(u)
  BY <1>8 DEF Reserve, Enters, Running, Continue, locals, Proceed, Seeking,
     LeaseInv, TypeOK, LocalsType, ControlType
<1>9. CASE ForceValue(u)
  BY <1>9 DEF ForceValue, Enters, Running, Continue, Seeking, LeaseInv,
     TypeOK, LocalsType, ControlType
<1>10. CASE HoldEnds(u)
  BY <1>10 DEF HoldEnds, Resumes, Proceed, Continue, Seeking, LeaseInv,
     TypeOK, LocalsType, ControlType
<1>11. CASE EnterOffline(u)
  BY <1>11 DEF EnterOffline, Enters, Running, Continue, Seeking, LeaseInv,
     TypeOK, LocalsType, ControlType
<1>12. CASE BeginStop(u)
  BY <1>12 DEF BeginStop, Running, Suspend, locals, Seeking, LeaseInv,
     TypeOK, LocalsType, ControlType
<1>13. CASE CloseApp(u)
  BY <1>13 DEF CloseApp, Resumes, Suspend, locals, Seeking, LeaseInv,
     TypeOK, LocalsType, ControlType
<1>14. CASE EndStop(u)
  BY <1>14 DEF EndStop, Resumes, Suspend, Continue, locals, Seeking,
     LeaseInv, TypeOK, LocalsType, ControlType
<1>15. CASE EnterOnline(u)
  BY <1>15 DEF EnterOnline, Enters, Running, Continue, Suspend, locals,
     Seeking, LeaseInv, TypeOK, LocalsType, ControlType
<1>16. CASE EndStart(u)
  BY <1>16 DEF EndStart, Resumes, Suspend, locals, Seeking, LeaseInv,
     TypeOK, LocalsType, ControlType
<1>17. CASE Fault(u)
  BY <1>17 DEF Fault, Running, Suspend, locals, Seeking, LeaseInv, TypeOK,
     LocalsType, ControlType
<1>18. CASE WriteStatusRow(u)
  BY <1>18 DEF WriteStatusRow, Resumes, Suspend, Continue, locals, Seeking,
     LeaseInv, TypeOK, LocalsType, ControlType
<1>19. CASE RecordStatus(u)
  BY <1>19 DEF RecordStatus, Resumes, Continue, locals, Seeking, LeaseInv,
     TypeOK, LocalsType, ControlType
<1>20. CASE EndCall(u)
  BY <1>20 DEF EndCall, Running, Suspend, locals, Continue, Finish, Seeking,
     LeaseInv, TypeOK, LocalsType, ControlType
<1>21. CASE EndOverride(u)
  BY <1>21 DEF EndOverride, Running, Finish, Suspend, Seeking, LeaseInv,
     TypeOK, LocalsType, ControlType
<1>22. CASE EndTransition(u)
  BY <1>22 DEF EndTransition, Running, Finish, Suspend, locals, Seeking,
     LeaseInv, TypeOK, LocalsType, ControlType
<1>23. CASE SleepEnds(u)
  BY <1>23 DEF SleepEnds, Resumes, Proceed, Continue, Seeking, LeaseInv,
     TypeOK, LocalsType, ControlType
<1>24. CASE Unwind(u)
  BY <1>24 DEF Unwind, Running, Finish, Suspend, MustRestore, Proceed,
     Continue, locals, Seeking, LeaseInv, TypeOK, LocalsType, ControlType
<1>25. CASE Finally(u)
  BY <1>25 DEF Finally, Running, Proceed, Continue, Finish, Suspend,
     Seeking, LeaseInv, TypeOK, LocalsType, ControlType
<1>26. CASE RefreshFails(u)
  BY <1>26 DEF RefreshFails, Resumes, Throw, Continue, locals, Seeking,
     LeaseInv, TypeOK, LocalsType, ControlType
<1>27. CASE StartFails(u)
  BY <1>27 DEF StartFails, Resumes, AbortStart, Suspend, Seeking, LeaseInv,
     TypeOK, LocalsType, ControlType
<1>28. CASE StatusStoreFails(u)
  BY <1>28 DEF StatusStoreFails, Resumes, Continue, locals, Seeking,
     LeaseInv, TypeOK, LocalsType, ControlType
<1>29. CASE CancelWaiting(u)
  BY <1>29 DEF CancelWaiting, Cancellable, Continue, Phase, Seeking,
     LeaseInv, TypeOK, LocalsType, ControlType
<1>30. CASE CancelSleep(u)
  BY <1>30 DEF CancelSleep, Cancellable, SleepLabels, Proceed, Continue,
     Seeking, LeaseInv, TypeOK, LocalsType, ControlType
<1>31. CASE CancelStore(u)
  BY <1>31 DEF CancelStore, Cancellable, Continue, Seeking, LeaseInv,
     TypeOK, LocalsType, ControlType
<1>32. CASE CancelTransport(u)
  BY <1>32 DEF CancelTransport, Cancellable, Continue, AbortStart, Suspend,
     Seeking, LeaseInv, TypeOK, LocalsType, ControlType
<1>33. CASE Restore(u)
  BY <1>33 DEF Restore, Enters, Running, Continue, Seeking, LeaseInv,
     TypeOK, LocalsType, ControlType
<1> QED BY <1>1, <1>2, <1>3, <1>4, <1>5, <1>6, <1>7, <1>8, <1>9, <1>10,
   <1>11, <1>12, <1>13, <1>14, <1>15, <1>16, <1>17, <1>18, <1>19, <1>20,
   <1>21, <1>22, <1>23, <1>24, <1>25, <1>26, <1>27, <1>28, <1>29, <1>30,
   <1>31, <1>32, <1>33 DEF TaskStep, Fails, Cancel

\* An override lets its point go only with nothing of its own left there.
LEMMA FreedClean ==
  ASSUME LeaseInv, ResidueInv, NEW u \in Tasks, Active(u), NEW k \in Keys,
         NEW t \in Overrides, author[k] = t
  PROVE  owners'[k] = t
<1>1. /\ owners[k] = t /\ frame[t].rev = obj[k].rev
      /\ call[t] = "restore" => pc[t] \in Seeking
  BY DEF ResidueInv, Seeking
<1>2. t # None /\ t \in Tasks
  BY ServiceAssumption DEF Tasks, Scenarios
<1>3. CASE UNCHANGED owners
  BY <1>1, <1>3
<1>4. CASE Reserve(u) /\ ~ UNCHANGED owners
  BY <1>1, <1>2, <1>4 DEF Reserve, LeaseInv, TypeOK, MemoryType
<1>5. CASE FreePoint(u) /\ call[u] \in Overriding /\ (u = t => FALSE)
  <2>1. key[u] # k
    BY <1>1, <1>5 DEF LeaseInv, OwnerInv
  <2> QED BY <1>1, <1>5, <2>1 DEF FreePoint, LeaseInv, TypeOK, MemoryType
<1>6. CASE EndOverride(u) /\ FreePoint(u)
  <2>1. u # t /\ call[u] \in Overriding
    BY <1>1, <1>6 DEF EndOverride, Running, Seeking, Overriding
  <2> QED BY <1>5, <1>6, <2>1
<1>7. CASE Unwind(u) /\ ~ UNCHANGED owners
  <2>1. call[u] \in {"force", "restore"} /\ ~ MustRestore(u) /\ FreePoint(u)
    BY <1>7 DEF Unwind
  <2>2. obj[k].rev \in Nat
    BY DEF LeaseInv, TypeOK, NetworkType, Object
  <2>3. u # t
    BY <1>1, <1>7, <2>1, <2>2 DEF MustRestore, Unwind, Running, Seeking, NoRev
  <2> QED BY <1>5, <2>1, <2>3 DEF Overriding
<1> QED BY <1>3, <1>4, <1>6, <1>7 DEF Active, EnterWrite, ForceValue, Restore,
        BeginStop, EnterOnline, EndOverride, StartFails, CancelTransport, AbortStart,
        memory, network

\* Restoring replaces the override's command if it still stands.
LEMMA RestoredClean ==
  ASSUME LeaseInv, ResidueInv, NEW t \in Overrides, Restore(t), NEW k \in Keys,
         author[k] = t
  PROVE  author'[k] # t
<1>1. owners[k] = t /\ frame[t].rev = obj[k].rev
  BY DEF ResidueInv
<1>2. t # None /\ t \in Tasks
  BY ServiceAssumption DEF Tasks, Scenarios
<1>3. key[t] = k /\ app[k[1]]
  BY <1>1, <1>2 DEF LeaseInv, OwnerInv, OwnedInv
<1>4. SetObject(t, Written(t, ControlPriority, frame[t].prev), None)
  BY <1>1, <1>3 DEF Restore, StillMine
<1>5. /\ frame[t].prev \in MaybeValue
      /\ (IsCommandable(key[t]) \/ frame[t].prev \in Values)
  BY <1>2 DEF Restore, Enters, LeaseInv, ArgsInv, Overriding, TypeOK, LocalsType,
     Frame
<1>6. ControlPriority \in Priorities /\ TypeOK
  BY PointAssumption DEF LeaseInv
<1>7. author'[key[t]] = None
  BY <1>2, <1>4, <1>5, <1>6, TaskCounts
<1> QED BY <1>2, <1>3, <1>7

\* ResidueInv survives every step, if no stop reaches the cleanup in the queue.
LEMMA ResidueKeeps ==
  ASSUME "cleanup" \in Shielded, LeaseInv, LeaseInv', ResidueInv, [Next]_vars
  PROVE  ResidueInv'
<1> SUFFICES ASSUME NEW k \in Keys, NEW t \in Overrides, author'[k] = t
             PROVE  /\ owners'[k] = t
                    /\ frame'[t].rev = obj'[k].rev
                    /\ call'[t] = "restore" => pc'[t] \in Seeking
  BY DEF ResidueInv, Seeking
<1>1. t \in Tasks /\ t # None
  BY ServiceAssumption DEF Tasks, Scenarios
<1>2. CASE ForceValue(t) /\ k = key[t] /\ ~ UNCHANGED <<obj, author, frame>>
  <2>1. frame'[t].rev = obj'[k].rev /\ call'[t] = "force"
    BY <1>1, <1>2, ForcedRevision
  <2>2. owners'[k] = t
    BY <1>1, <1>2 DEF ForceValue, Enters, memory, LeaseInv, OwnerInv, Overriding
  <2> QED BY <2>1, <2>2
<1>3. CASE author[k] = t /\ obj'[k].rev = obj[k].rev
  <2>1. /\ owners[k] = t /\ frame[t].rev = obj[k].rev
        /\ call[t] = "restore" => pc[t] \in Seeking
    BY <1>3 DEF ResidueInv, Seeking
  <2>2. owners'[k] = t
    <3>1. CASE UNCHANGED leaseVars
      BY <2>1, <3>1 DEF leaseVars
    <3>2. CASE \E j \in Keys : NativeWrite(j)
      BY <2>1, <3>2 DEF NativeWrite, memory
    <3>3. CASE \E u \in Tasks : Active(u)
      BY <1>3, <3>3, FreedClean
    <3> QED BY <3>1, <3>2, <3>3, StepKinds
  <2>3. /\ key'[t] = k /\ call'[t] \in Overriding
        /\ key[t] = k /\ call[t] \in Overriding
    BY <1>1, <2>1, <2>2 DEF LeaseInv, OwnerInv
  <2>4. frame'[t].rev = obj'[k].rev
    <3>1. CASE Kept(t)
      BY <1>3, <2>1, <2>3, <3>1 DEF Kept, Overriding, OverrideCalls
    <3>2. ASSUME NEW u \in Tasks, ForceValue(u)
          PROVE  frame'[t].rev = obj'[k].rev
      BY <1>1, <1>2, <1>3, <2>1, <2>3, <3>2, ForcedRevision
    <3> QED BY <1>1, <3>1, <3>2, TaskKept, OtherKept DEF Next
  <2>5. ASSUME call'[t] = "restore"
        PROVE  pc'[t] \in Seeking
    <3>1. ~ Restore(t)
      BY <1>3, RestoredClean
    <3>2. ASSUME NEW u \in Tasks, TaskStep(u) \/ Fails(u) \/ Cancel(u)
          PROVE  pc'[t] \in Seeking
      BY <1>1, <2>1, <2>5, <3>1, <3>2, RestoreSeeks
    <3>3. CASE UNCHANGED <<pc[t], call[t]>>
      BY <2>1, <2>5, <3>3
    <3>4. CASE Request \/ (\E s \in Syncs : StartSync(s))
               \/ (\E j \in Keys : NativeWrite(j)) \/ UNCHANGED vars
      <4>1. CASE (\E j \in Keys : NativeWrite(j)) \/ UNCHANGED vars
        BY <3>3, <4>1 DEF NativeWrite, vars, control, locals
      <4>2. ASSUME NEW s \in Tasks, NEW c, NEW x, NEW f, Begin(s, c, x, f)
            PROVE  UNCHANGED <<pc[t], call[t]>>
        <5>1. call[t] # "none"
          BY <2>3 DEF Overriding
        <5>2. s # t
          BY <1>1, <4>2, <5>1 DEF Begin, LeaseInv, KindInv
        <5> QED BY <1>1, <4>2, <5>2 DEF Begin, Continue, LeaseInv, TypeOK,
                ControlType, LocalsType
      <4> QED BY <3>3, <3>4, <4>1, <4>2 DEF Request, StartRead, StartWrite, HvacWrite,
              StartOverride, StartOffline, StartSync, Tasks, Scenarios
    <3> QED BY <3>2, <3>4 DEF Next
  <2> QED BY <2>2, <2>4, <2>5
<1>4. CASE \E u \in Tasks : /\ author'[k] = u /\ k = key[u]
                            /\ EnterWrite(u) \/ ForceValue(u)
  <2>1. k = key[t] /\ ForceValue(t)
    BY <1>1, <1>4, ServiceAssumption
    DEF EnterWrite, Enters, LeaseInv, KindInv, Scenarios
  <2>2. CASE UNCHANGED <<obj, author, frame>>
    BY <1>3, <2>2
  <2> QED BY <1>2, <2>1, <2>2
<1> QED BY <1>1, <1>3, <1>4, StepAuthors

LEMMA ResidueInvariant ==
  ASSUME "cleanup" \in Shielded
  PROVE  Spec => []ResidueInv
<1>1. Init => ResidueInv
  BY ServiceAssumption DEF Init, ResidueInv, Tasks, Scenarios
<1>2. LeaseInv /\ LeaseInv' /\ ResidueInv /\ [Next]_vars => ResidueInv'
  BY ResidueKeeps
<1> QED BY <1>1, <1>2, LeaseInvariant, PTL DEF Spec

(***************************************************************************)
(* "One hold, then restore": if no stop reaches an override while it waits *)
(* for the lock of its cleanup, then whatever else happens - stops,        *)
(* failures, clients, other tasks - its command never outlives its         *)
(* ownership.  The run VResidue shows that the condition is needed.        *)
(***************************************************************************)
THEOREM NoResidueIfShielded ==
  ASSUME "cleanup" \in Shielded
  PROVE  Spec => []NoResidue
<1>1. ResidueInv => NoResidue
  BY DEF ResidueInv, NoResidue
<1> QED BY <1>1, ResidueInvariant, PTL

-----------------------------------------------------------------------------
(* Persist, record, accept. *)

\* The row a task wrote is as it wrote it until it has recorded the event: the
\* other writers of rows hold the locks of other devices.
LEMMA RecordedKeeps ==
  ASSUME LeaseInv, RecordedInv, [Next]_vars
  PROVE  RecordedInv'
<1> SUFFICES ASSUME NEW u \in Tasks, pc'[u] = "record"
             PROVE  rowValue'[<<key'[u][1], frame'[u].idx>>] = frame'[u].got
  BY DEF RecordedInv, Scanned
<1>1. CASE pc[u] = "record" /\ key'[u] = key[u] /\ frame'[u] = frame[u]
           /\ UNCHANGED rowValue
  BY <1>1 DEF RecordedInv, Scanned
<1>2. CASE Persist(u)
  <2>1. UNCHANGED locals /\ Scanned(u) \in Keys
        /\ rowValue' = [rowValue EXCEPT ![Scanned(u)] = frame[u].got]
    BY <1>2, ScannedType DEF Persist, Resumes, LeaseInv, ArgsInv
  <2> QED BY <2>1 DEF locals, Scanned, LeaseInv, TypeOK, StoreType
<1>3. ASSUME NEW t \in Tasks \ {u}, TaskStep(t) \/ Fails(t) \/ Cancel(t)
      PROVE  rowValue'[<<key'[u][1], frame'[u].idx>>] = frame'[u].got
  <2>1. /\ pc[u] = "record" /\ key'[u] = key[u] /\ frame'[u] = frame[u]
        /\ \/ UNCHANGED rowValue
           \/ /\ pc[t] = "persist"
              /\ rowValue' = [rowValue EXCEPT ![Scanned(t)] = frame[t].got]
    BY <1>3, OwnStep
  <2>2. CASE pc[t] = "persist"
             /\ rowValue' = [rowValue EXCEPT ![Scanned(t)] = frame[t].got]
    <3>1. holder[key[t][1]] = t /\ holder[key[u][1]] = u
      BY <2>1, <2>2 DEF LeaseInv, LockInv, InsideLabels, AwaitLabels
    <3>2. Scanned(u) # Scanned(t)
      BY <3>1 DEF Scanned
    <3>3. Scanned(u) \in Keys
      BY <2>1, ScannedType DEF LeaseInv, ArgsInv
    <3> QED BY <2>1, <2>2, <3>2, <3>3
            DEF RecordedInv, Scanned, LeaseInv, TypeOK, StoreType
  <2> QED BY <1>1, <2>1, <2>2
<1>4. ASSUME TaskStep(u) \/ Fails(u) \/ Cancel(u)
      PROVE  Persist(u)
  BY <1>4, OwnStep
<1>5. ASSUME \/ Request \/ \E t \in Syncs : StartSync(t)
             \/ \E k \in Keys : NativeWrite(k)
             \/ UNCHANGED vars
      PROVE  rowValue'[<<key'[u][1], frame'[u].idx>>] = frame'[u].got
  BY <1>1, <1>5, OtherStep
<1> QED BY <1>2, <1>3, <1>4, <1>5 DEF Next

LEMMA RecordedInvariant == Spec => []RecordedInv
<1>1. Init => RecordedInv
  BY DEF Init, RecordedInv
<1>2. LeaseInv /\ RecordedInv /\ [Next]_vars => RecordedInv'
  BY RecordedKeeps
<1> QED BY <1>1, <1>2, LeaseInvariant, PTL DEF Spec

(***************************************************************************)
(* "Keep the old in-memory value until both persistence and event          *)
(* recording succeed": at the moment the snapshot of a point moves, its    *)
(* row and its event, from the old value to the new, are already durable.  *)
(***************************************************************************)
THEOREM SnapshotFollows == Spec => SnapshotIsRecorded
<1> DEFINE Follows == \A k \in Keys : snap'[k] # snap[k] =>
                        /\ event'[k] = [old |-> snap[k], new |-> snap'[k]]
                        /\ rowValue'[k] = snap'[k]
<1>1. LeaseInv /\ RecordedInv /\ [Next]_vars => Follows
  <2> SUFFICES ASSUME LeaseInv, RecordedInv, [Next]_vars, NEW k \in Keys,
                      snap'[k] # snap[k]
               PROVE  /\ event'[k] = [old |-> snap[k], new |-> snap'[k]]
                      /\ rowValue'[k] = snap'[k]
    OBVIOUS
  <2>1. PICK t \in Tasks : Record(t)
    <3>1. ASSUME NEW t \in Tasks, TaskStep(t) \/ Fails(t) \/ Cancel(t)
          PROVE  Record(t)
      BY <3>1, OwnStep
    <3> QED BY <3>1, OtherStep DEF Next
  <2>2. /\ Scanned(t) \in Keys /\ pc[t] = "record" /\ UNCHANGED rowValue
        /\ snap' = [snap EXCEPT ![Scanned(t)] = frame[t].got]
        /\ event' = [event EXCEPT ![Scanned(t)] =
                       [old |-> snap[Scanned(t)], new |-> frame[t].got]]
    BY <2>1, ScannedType DEF Record, Resumes, LeaseInv, ArgsInv
  <2>3. k = Scanned(t) /\ snap'[k] = frame[t].got
    BY <2>2 DEF LeaseInv, TypeOK, MemoryType
  <2> QED BY <2>2, <2>3 DEF RecordedInv, LeaseInv, TypeOK, StoreType
<1> QED BY <1>1, LeaseInvariant, RecordedInvariant, PTL DEF Spec, SnapshotIsRecorded

(***************************************************************************)
(* The revision an override saved tells its own command from a later one,  *)
(* its command stands only while it can still take it back, and the row a  *)
(* refresh wrote waits for its event (override, _refresh), if no stop      *)
(* reaches an override at the lock of its cleanup.                         *)
(***************************************************************************)
THEOREM CommandsStand ==
  ASSUME "cleanup" \in Shielded
  PROVE  Spec => []CommandInv
<1>1. RevisionInv /\ ResidueInv /\ RecordedInv => CommandInv
  BY DEF CommandInv
<1> QED BY <1>1, RevisionInvariant, ResidueInvariant, RecordedInvariant, PTL

-----------------------------------------------------------------------------
(* The events of a point. *)

\* The latest event of a point reports the snapshot.
ChainInv == \A k \in Keys : event[k].new = snap[k]

\* Unless a stop lands while one is being recorded, an event and its snapshot
\* move together.
LEMMA ChainKeeps ==
  ASSUME LeaseInv, ChainInv, "recording" \in Shielded, [Next]_vars
  PROVE  ChainInv'
<1>1. CASE UNCHANGED <<snap, event>>
  BY <1>1 DEF ChainInv
<1>2. ASSUME NEW t \in Tasks, Record(t) PROVE ChainInv'
  <2>1. /\ Scanned(t) \in Keys
        /\ snap' = [snap EXCEPT ![Scanned(t)] = frame[t].got]
        /\ event' = [event EXCEPT ![Scanned(t)] =
                       [old |-> snap[Scanned(t)], new |-> frame[t].got]]
    BY <1>2, ScannedType DEF Record, Resumes, LeaseInv, ArgsInv
  <2>2. snap \in [Keys -> Values] /\ event \in [Keys -> Event]
    BY DEF LeaseInv, TypeOK, MemoryType, StoreType
  <2>3. ASSUME NEW k \in Keys PROVE event'[k].new = snap'[k]
    <3>1. CASE k = Scanned(t)
      BY <2>1, <2>2, <3>1
    <3>2. CASE k # Scanned(t)
      BY <2>1, <2>2, <3>2 DEF ChainInv
    <3> QED BY <3>1, <3>2
  <2> QED BY <2>3 DEF ChainInv
<1>3. ASSUME NEW t \in Tasks, TaskStep(t) \/ Fails(t) \/ Cancel(t)
      PROVE  UNCHANGED <<snap, event>> \/ Record(t)
  <2>1. ~ (CancelStore(t) /\ pc[t] = "record")
    BY DEF CancelStore, Cancellable, Phase
  <2> QED BY <1>3, <2>1, OwnStep
<1> QED BY <1>1, <1>2, <1>3, OtherStep DEF Next

(***************************************************************************)
(* "Only changed effective values emit events": if no stop lands inside    *)
(* the recording of a change, every recorded change starts from the value  *)
(* the previous event of its point reported, whatever fails (_refresh).    *)
(***************************************************************************)
THEOREM EventsFollow ==
  ASSUME "recording" \in Shielded
  PROVE  Spec => EventsAreAChain
<1> DEFINE Chained == \A k \in Keys : snap'[k] # snap[k] => event[k].new = snap[k]
<1>1. Init => ChainInv
  BY DEF Init, ChainInv
<1>2. LeaseInv /\ ChainInv /\ [Next]_vars => ChainInv'
  BY ChainKeeps
<1>3. ChainInv => Chained
  BY DEF ChainInv
<1> QED BY <1>1, <1>2, <1>3, LeaseInvariant, PTL DEF Spec, EventsAreAChain
=============================================================================
