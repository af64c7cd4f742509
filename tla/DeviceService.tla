--------------------------- MODULE DeviceService ---------------------------
(***************************************************************************)
(* The application service that owns the simulated devices                 *)
(* (application/device_service.py), the tasks that call it - API requests, *)
(* the HVAC scenario, overrides, the device_offline scenario, telemetry    *)
(* synchronization - and the BACnet clients that write the same objects    *)
(* without it.                                                             *)
(*                                                                         *)
(* asyncio runs one task until it suspends.  turn = t says that t runs and *)
(* nothing else can; turn = None says that every task is suspended, at a   *)
(* lock, a SQLite call, a socket operation or a sleep, and that one of     *)
(* them, or a BACnet client, goes next.  An action is the code between two *)
(* labels; it suspends only where the Python code really can.              *)
(***************************************************************************)
EXTENDS PointObject, Sequences

CONSTANTS ND,            \* devices 1..ND, in the order synchronize() visits
          NP,            \* points 1..NP of each device, in _refresh() order
          Commandable,   \* the points that are commandable objects
          Apis,          \* HTTP request handlers
          Hvacs,         \* hvac_day_cycle scenario tasks
          Overrides,     \* tasks inside DeviceService.override
          Offlines,      \* device_offline scenario tasks
          Syncs,         \* the telemetry loop
          None,          \* no task
          MaxInputs,     \* bound: requests, scenario starts, native writes
          MaxFaults,     \* bound: SQLite and socket failures
          Shielded       \* the phases in which no stop arrives (see Phase)

Devices == 1..ND
Points == 1..NP
Keys == Devices \X Points
Tasks == Apis \cup Hvacs \cup Overrides \cup Offlines \cup Syncs
Scenarios == Hvacs \cup Overrides \cup Offlines

ASSUME ServiceAssumption ==
  /\ ND \in Nat \ {0}
  /\ NP \in Nat \ {0}
  /\ Commandable \subseteq Points
  /\ None \notin Tasks
  /\ Apis \cap (Scenarios \cup Syncs) = {}
  /\ Hvacs \cap (Overrides \cup Offlines \cup Syncs) = {}
  /\ Overrides \cap (Offlines \cup Syncs) = {}
  /\ Offlines \cap Syncs = {}
  /\ MaxInputs \in Nat
  /\ MaxFaults \in Nat

VARIABLES
  obj,        \* the BACnet objects, kept while their device is offline
  author,     \* history: whose command stands at the control place of a point
  app,        \* Runtime.app is not None
  sock,       \* a UDP socket serves the device's address
  status,     \* Device.status in memory
  snap,       \* Point.present_value in memory
  owners,     \* DeviceService._owners
  rowValue,   \* points.present_value in SQLite
  rowStatus,  \* devices.status in SQLite
  event,      \* the latest recorded PointValueChanged of a point
  holder,     \* the task inside a device's lock
  waiters,    \* the tasks queued at a device's lock
  turn,       \* the task that runs, or None
  pc,         \* where each task is
  call,       \* the DeviceService operation it is in
  key,        \* that operation's device and point
  frame,      \* its other locals
  inputs,     \* inputs left
  faults      \* failures left

network == <<obj, author, app, sock>>
memory == <<status, snap, owners>>
store == <<rowValue, rowStatus, event>>
locks == <<holder, waiters>>
control == <<turn, pc>>
locals == <<call, key, frame>>
bounds == <<inputs, faults>>
vars == <<network, memory, store, locks, control, locals, bounds>>

NoRev == -1
Statuses == {"online", "offline", "error"}
Calls == {"none", "read", "write", "sync", "reserve", "force", "restore",
          "offline", "online"}

\* Labels at which a task is suspended inside the lock, and where it runs in it.
AwaitLabels == {"persist", "record", "stopping", "closing", "starting",
                "statusRow", "statusRecord", "errorRow"}
InsideLabels == AwaitLabels \cup {"locked", "scan", "done", "fault", "leave"}
SleepLabels == {"hold", "down", "up"}
Labels == InsideLabels \cup SleepLabels
            \cup {"idle", "lock", "waiting", "raise", "finally"}

Blank == [val |-> NoValue, prio |-> DefaultPriority, prev |-> NoValue, was |-> NoValue,
          rev |-> NoRev, idx |-> 1, got |-> NoValue, exc |-> "none",
          final |-> FALSE, stopped |-> FALSE]

Home == <<1, 1>>

\* A point's commandable flag and its effective value, as the engine reads it.
IsCommandable(k) == k[2] \in Commandable
Effective(k) == PresentValue(IsCommandable(k), obj[k])

-----------------------------------------------------------------------------
(* Control: the running task, its lock, the way out of an operation. *)

Running(t, l) == turn = t /\ pc[t] = l
Resumes(t, l) == turn = None /\ pc[t] = l
Enters(t, c) == Running(t, "locked") /\ call[t] = c

Continue(t, l) == pc' = [pc EXCEPT ![t] = l] /\ turn' = t
Suspend(t, l) == pc' = [pc EXCEPT ![t] = l] /\ turn' = None

\* Leaving the lock of t's device; asyncio wakes the first waiter.
Release(t) ==
  /\ holder' = [d \in Devices |-> IF holder[d] = t THEN None ELSE holder[d]]
  /\ UNCHANGED waiters

\* The operation returns or its error reaches the caller; locals are gone.
Finish(t) ==
  /\ Suspend(t, "idle")
  /\ call' = [call EXCEPT ![t] = "none"]
  /\ key' = [key EXCEPT ![t] = Home]
  /\ frame' = [frame EXCEPT ![t] = Blank]

\* The same task goes on to another operation on the same target.
Proceed(t, c) ==
  /\ Continue(t, "lock")
  /\ call' = [call EXCEPT ![t] = c]
  /\ UNCHANGED key

\* An exception inside the lock.  In set_device_status the try block catches
\* it first (line 212); elsewhere it leaves the lock at once.
Throw(t) ==
  Continue(t, IF call[t] \in {"offline", "online"} THEN "fault" ELSE "raise")

Begin(t, c, k, f) ==
  /\ turn = None
  /\ pc[t] = "idle"
  /\ Continue(t, "lock")
  /\ call' = [call EXCEPT ![t] = c]
  /\ key' = [key EXCEPT ![t] = k]
  /\ frame' = [frame EXCEPT ![t] = f]
  /\ UNCHANGED <<network, memory, store, locks, faults>>

UseInput == inputs > 0 /\ inputs' = inputs - 1
UseFault == faults > 0 /\ faults' = faults - 1

\* async with self._locks[device_id]: free and unqueued, it does not suspend.
RequestLock(t) ==
  LET d == key[t][1] IN
  /\ Running(t, "lock")
  /\ IF holder[d] = None /\ waiters[d] = <<>>
     THEN /\ holder' = [holder EXCEPT ![d] = t]
          /\ Continue(t, "locked")
          /\ UNCHANGED waiters
     ELSE /\ waiters' = [waiters EXCEPT ![d] = Append(@, t)]
          /\ Suspend(t, "waiting")
          /\ UNCHANGED holder
  /\ UNCHANGED <<network, memory, store, locals, bounds>>

TakeLock(t) ==
  LET d == key[t][1] IN
  /\ Resumes(t, "waiting")
  /\ holder[d] = None
  /\ waiters[d] # <<>>
  /\ Head(waiters[d]) = t
  /\ holder' = [holder EXCEPT ![d] = t]
  /\ waiters' = [waiters EXCEPT ![d] = Tail(@)]
  /\ Continue(t, "locked")
  /\ UNCHANGED <<network, memory, store, locals, bounds>>

-----------------------------------------------------------------------------
(* What the outside asks for. *)

StartRead(t, d) == UseInput /\ Begin(t, "read", <<d, 1>>, Blank)

\* HTTP: any priority, relinquish included, refused for inputs before the lock.
StartAnyWrite(t, k, v, p) ==  \* Mutant: inputs can be relinquished too.
  UseInput /\ Begin(t, "write", k, [Blank EXCEPT !.val = v, !.prio = p])

StartWrite(t, k, v, p) ==
  /\ v = NoValue => IsCommandable(k)
  /\ UseInput
  /\ Begin(t, "write", k, [Blank EXCEPT !.val = v, !.prio = p])

\* BaseScenario.write: "An explicitly offline device does not participate in a tick."
Participates(d) == status[d] # "offline"

\* A write of a tick of hvac_day_cycle.
HvacWrite(t, k, v) ==
  /\ Participates(k[1])
  /\ UseInput
  /\ Begin(t, "write", k, [Blank EXCEPT !.val = v])

StartOverride(t, k, v) ==
  UseInput /\ Begin(t, "reserve", k, [Blank EXCEPT !.val = v])

StartOffline(t, d) == UseInput /\ Begin(t, "offline", <<d, 1>>, Blank)

StartSync(t) == Begin(t, "sync", Home, Blank) /\ UNCHANGED inputs

\* A BACnet client's accepted WriteProperty takes no lock of the program.
NativeWrite(k) ==
  /\ turn = None
  /\ sock[k[1]]
  /\ UseInput
  /\ \E o \in NativeWrites(IsCommandable(k), obj[k]) :
       /\ o # obj[k]
       /\ obj' = [obj EXCEPT ![k] = o]
       /\ author' = IF o.rev # obj[k].rev THEN [author EXCEPT ![k] = None]
                    ELSE author
  /\ UNCHANGED <<app, sock, memory, store, locks, control, locals, faults>>

-----------------------------------------------------------------------------
(* write_point, get_device, synchronize. *)

EnterRead(t) ==
  /\ Enters(t, "read") \/ Enters(t, "sync")
  /\ Continue(t, "scan")
  /\ UNCHANGED <<network, memory, store, locks, locals, bounds>>

\* Mutant: the owner is not consulted.
HeldByNobody(t) == FALSE

HeldByOther(t) == owners[key[t]] \notin {None, t}

\* The object after the engine wrote v at priority p for t.
Written(t, p, v) == EngineWrite(IsCommandable(key[t]), obj[key[t]], p, v)

SetObject(t, o, by) ==
  /\ obj' = [obj EXCEPT ![key[t]] = o]
  /\ author' = IF o.rev # obj[key[t]].rev THEN [author EXCEPT ![key[t]] = by]
               ELSE author

EnterWrite(t) ==
  LET d == key[t][1]
      Accepted == status[d] = "online" /\ app[d] /\ ~HeldByOther(t)
      Yields == status[d] = "online" /\ HeldByOther(t) /\ t \in Hvacs IN
  /\ Enters(t, "write")
  /\ Continue(t, IF Accepted \/ Yields THEN "scan" ELSE "raise")
  /\ IF Accepted THEN SetObject(t, Written(t, frame[t].prio, frame[t].val), t)
                 ELSE UNCHANGED <<obj, author>>
  /\ UNCHANGED <<app, sock, memory, store, locks, locals, bounds>>

-----------------------------------------------------------------------------
(* _refresh: compare, persist, record, only then accept the value. *)

\* Mutant: the scan starts one point late.
ChangedAfterFirst(t) ==
  {i \in (frame[t].idx + 1)..NP :
     Effective(<<key[t][1], i>>) # snap[<<key[t][1], i>>]}

Changed(t) ==
  {i \in frame[t].idx..NP :
     Effective(<<key[t][1], i>>) # snap[<<key[t][1], i>>]}

Scan(t) ==
  LET d == key[t][1] IN
  /\ Running(t, "scan")
  /\ \/ /\ status[d] # "online" \/ (app[d] /\ Changed(t) = {})
        /\ Continue(t, "done") /\ UNCHANGED frame
     \/ /\ status[d] = "online" /\ ~app[d]
        /\ Throw(t) /\ UNCHANGED frame
     \/ /\ status[d] = "online" /\ app[d]
        /\ \E i \in Changed(t) :
             /\ \A j \in Changed(t) : i <= j
             /\ frame' = [frame EXCEPT ![t].idx = i,
                                       ![t].got = Effective(<<d, i>>)]
        /\ Suspend(t, "persist")
  /\ UNCHANGED <<network, memory, store, locks, call, key, bounds>>

Scanned(t) == <<key[t][1], frame[t].idx>>

\* Mutant: the event is recorded without the row.
PersistNothing(t) ==
  /\ Resumes(t, "persist")
  /\ Suspend(t, "record")
  /\ UNCHANGED <<network, memory, store, locks, locals, bounds>>

Persist(t) ==
  /\ Resumes(t, "persist")
  /\ rowValue' = [rowValue EXCEPT ![Scanned(t)] = frame[t].got]
  /\ Suspend(t, "record")
  /\ UNCHANGED <<network, memory, rowStatus, event, locks, locals, bounds>>

\* Mutant: the snapshot takes the value of now, not the recorded one.
RecordRereads(t) ==
  LET k == Scanned(t) IN
  /\ Resumes(t, "record")
  /\ event' = [event EXCEPT ![k] = [old |-> snap[k], new |-> frame[t].got]]
  /\ snap' = [snap EXCEPT ![k] = Effective(k)]
  /\ frame' = [frame EXCEPT ![t].idx = @ + 1]
  /\ Continue(t, "scan")
  /\ UNCHANGED <<network, status, owners, rowValue, rowStatus, locks, call, key,
                 bounds>>

\* publish() returned: the event is durable, the snapshot follows it.
Record(t) ==
  LET k == Scanned(t) IN
  /\ Resumes(t, "record")
  /\ event' = [event EXCEPT ![k] = [old |-> snap[k], new |-> frame[t].got]]
  /\ snap' = [snap EXCEPT ![k] = frame[t].got]
  /\ frame' = [frame EXCEPT ![t].idx = @ + 1]
  /\ Continue(t, "scan")
  /\ UNCHANGED <<network, status, owners, rowValue, rowStatus, locks, call, key,
                 bounds>>

\* SQLite refuses the row or the event.
RefreshFails(t) ==
  /\ Resumes(t, "persist") \/ Resumes(t, "record")
  /\ UseFault
  /\ Throw(t)
  /\ UNCHANGED <<network, memory, store, locks, locals, inputs>>

-----------------------------------------------------------------------------
(* override: reserve under the lock, force under a second acquisition, hold, *)
(* give back under a third.                                                  *)

Reserve(t) ==
  LET k == key[t]
      Granted == status[k[1]] = "online" /\ owners[k] = None /\ app[k[1]] IN
  /\ Enters(t, "reserve")
  /\ \/ /\ ~Granted
        /\ Continue(t, "raise")
        /\ UNCHANGED <<owners, locks, locals>>
     \/ /\ Granted
        /\ owners' = [owners EXCEPT ![k] = t]
        /\ frame' = [frame EXCEPT ![t].prev =
                       ControlValue(IsCommandable(k), obj[k])]
        /\ Release(t)
        /\ Proceed(t, "force")
  /\ UNCHANGED <<network, status, snap, store, bounds>>

\* Mutant: the revision is read before the write.
ForceKeepsOldRevision(t) ==
  LET k == key[t] IN
  /\ Enters(t, "force")
  /\ app[k[1]]
  /\ SetObject(t, Written(t, ControlPriority, frame[t].val), t)
  /\ frame' = [frame EXCEPT ![t].rev = obj[k].rev]
  /\ Continue(t, "scan")
  /\ UNCHANGED <<app, sock, memory, store, locks, call, key, bounds>>

ForceValue(t) ==
  LET k == key[t]
      o == Written(t, ControlPriority, frame[t].val) IN
  /\ Enters(t, "force")
  /\ \/ /\ ~app[k[1]]
        /\ Continue(t, "raise")
        /\ UNCHANGED <<obj, author, frame>>
     \/ /\ app[k[1]]
        /\ SetObject(t, o, t)
        /\ frame' = [frame EXCEPT ![t].rev = o.rev,
                       ![t].was = ControlValue(IsCommandable(k), obj[k])]
        /\ Continue(t, "scan")
  /\ UNCHANGED <<app, sock, memory, store, locks, call, key, bounds>>

\* Mutant: the slot is compared by value, not by revision.
StillMyValue(t) ==
  ControlValue(IsCommandable(key[t]), obj[key[t]]) = frame[t].val

\* current_revision == revision
StillMine(t) == obj[key[t]].rev = frame[t].rev

\* Giving a place back leaves nobody's command in it.
Restore(t) ==
  LET up == app[key[t][1]] IN
  /\ Enters(t, "restore")
  /\ frame' = [frame EXCEPT ![t].idx = 1]
  /\ IF up /\ StillMine(t)
     THEN SetObject(t, Written(t, ControlPriority, frame[t].prev), None)
     ELSE UNCHANGED <<obj, author>>
  /\ Continue(t, CASE ~up -> "raise"
                   [] up /\ StillMine(t) -> "scan"
                   [] up /\ ~StillMine(t) -> "done")
  /\ UNCHANGED <<app, sock, memory, store, locks, call, key, bounds>>

\* The hold, or the alarm, runs out.
HoldEnds(t) ==
  /\ Resumes(t, "hold")
  /\ Proceed(t, "restore")
  /\ UNCHANGED <<network, memory, store, locks, frame, bounds>>

-----------------------------------------------------------------------------
(* set_device_status *)

\* Mutant: a transition does not look at the owners.
NotReserved(d) == FALSE

Reserved(d) == \E p \in Points : owners[<<d, p>>] # None

EnterOffline(t) ==
  LET d == key[t][1] IN
  /\ Enters(t, "offline")
  /\ frame' = [frame EXCEPT ![t].idx = 1]
  /\ Continue(t, CASE status[d] = "offline" -> "leave"
                   [] status[d] # "offline" /\ Reserved(d) -> "raise"
                   [] OTHER -> "scan")
  /\ UNCHANGED <<network, memory, store, locks, call, key, bounds>>

\* stop_device drops the application, then waits for its transports.
BeginStop(t) ==
  LET d == key[t][1] IN
  /\ Running(t, "done")
  /\ call[t] = "offline"
  /\ \/ /\ app[d]
        /\ app' = [app EXCEPT ![d] = FALSE]
        /\ Suspend(t, "stopping")
        /\ UNCHANGED status
     \/ /\ ~app[d]
        /\ status' = [status EXCEPT ![d] = "offline"]
        /\ Suspend(t, "statusRow")
        /\ UNCHANGED app
  /\ UNCHANGED <<obj, author, sock, snap, owners, store, locks, locals, bounds>>

\* Mutant: the transport is left open.
CloseNothing(t) ==
  /\ Resumes(t, "stopping")
  /\ Suspend(t, "closing")
  /\ UNCHANGED <<network, memory, store, locks, locals, bounds>>

CloseApp(t) ==
  /\ Resumes(t, "stopping")
  /\ sock' = [sock EXCEPT ![key[t][1]] = FALSE]
  /\ Suspend(t, "closing")
  /\ UNCHANGED <<obj, author, app, memory, store, locks, locals, bounds>>

\* stop_device returns: to the offline transition, or to the start that failed.
EndStop(t) ==
  LET d == key[t][1] IN
  /\ Resumes(t, "closing")
  /\ IF call[t] = "offline"
     THEN /\ status' = [status EXCEPT ![d] = "offline"]
          /\ Suspend(t, "statusRow")
     ELSE /\ Continue(t, IF frame[t].exc = "cancel" THEN "raise" ELSE "fault")
          /\ UNCHANGED status
  /\ UNCHANGED <<network, snap, owners, store, locks, locals, bounds>>

\* start_device: nothing to do, the address is taken, or a new application.
EnterOnline(t) ==
  LET d == key[t][1] IN
  /\ Enters(t, "online")
  /\ \/ /\ status[d] = "online" \/ Reserved(d) \/ (~app[d] /\ sock[d])
        /\ Continue(t, CASE status[d] = "online" -> "leave"
                         [] status[d] # "online" /\ Reserved(d) -> "raise"
                         [] OTHER -> "fault")
        /\ UNCHANGED <<app, sock, status>>
     \/ /\ status[d] # "online" /\ ~Reserved(d) /\ app[d]
        /\ status' = [status EXCEPT ![d] = "online"]
        /\ Suspend(t, "statusRow")
        /\ UNCHANGED <<app, sock>>
     \/ /\ status[d] # "online" /\ ~Reserved(d) /\ ~app[d] /\ ~sock[d]
        /\ app' = [app EXCEPT ![d] = TRUE]
        /\ sock' = [sock EXCEPT ![d] = TRUE]
        /\ Suspend(t, "starting")
        /\ UNCHANGED status
  /\ UNCHANGED <<obj, author, snap, owners, store, locks, locals, bounds>>

EndStart(t) ==
  /\ Resumes(t, "starting")
  /\ status' = [status EXCEPT ![key[t][1]] = "online"]
  /\ Suspend(t, "statusRow")
  /\ UNCHANGED <<network, snap, owners, store, locks, locals, bounds>>

\* The transport is refused or not ready in 5 s: clean up, then raise.
AbortStart(t, cause) ==
  /\ app' = [app EXCEPT ![key[t][1]] = FALSE]
  /\ Suspend(t, "stopping")
  /\ frame' = [frame EXCEPT ![t].exc = cause,
                 ![t].stopped = @ \/ cause = "cancel"]
  /\ UNCHANGED <<obj, author, sock, memory, store, locks, call, key, inputs>>

StartFails(t) == Resumes(t, "starting") /\ UseFault /\ AbortStart(t, "error")

\* except Exception: the device is in error, and so is its row.
Fault(t) ==
  /\ Running(t, "fault")
  /\ status' = [status EXCEPT ![key[t][1]] = "error"]
  /\ Suspend(t, "errorRow")
  /\ UNCHANGED <<network, snap, owners, store, locks, locals, bounds>>

WriteStatusRow(t) ==
  LET d == key[t][1] IN
  /\ Resumes(t, "statusRow") \/ Resumes(t, "errorRow")
  /\ rowStatus' = [rowStatus EXCEPT ![d] = status[d]]
  /\ IF pc[t] = "statusRow" THEN Suspend(t, "statusRecord")
                            ELSE Continue(t, "raise")
  /\ UNCHANGED <<network, memory, rowValue, event, locks, locals, bounds>>

RecordStatus(t) ==
  /\ Resumes(t, "statusRecord")
  /\ Continue(t, "leave")
  /\ UNCHANGED <<network, memory, store, locks, locals, bounds>>

StatusStoreFails(t) ==
  /\ \E l \in {"statusRow", "statusRecord", "errorRow"} : Resumes(t, l)
  /\ UseFault
  /\ Continue(t, "raise")
  /\ UNCHANGED <<network, memory, store, locks, locals, inputs>>

-----------------------------------------------------------------------------
(* How operations end. *)

\* read, write, synchronize, and the refresh after the forced write.
EndCall(t) ==
  LET d == key[t][1] IN
  /\ Running(t, "done")
  /\ call[t] \in {"read", "write", "sync", "force"}
  /\ Release(t)
  /\ IF call[t] = "force"
     THEN Suspend(t, "hold") /\ UNCHANGED locals
     ELSE IF call[t] = "sync" /\ d < ND
     THEN /\ Continue(t, "lock")
          /\ key' = [key EXCEPT ![t] = <<d + 1, 1>>]
          /\ frame' = [frame EXCEPT ![t].idx = 1]
          /\ UNCHANGED call
     ELSE Finish(t)
  /\ UNCHANGED <<network, memory, store, bounds>>

\* Mutant: the owner is not popped.
KeepPoint(t) == UNCHANGED owners

FreePoint(t) == owners' = [owners EXCEPT ![key[t]] = None]

EndOverride(t) ==
  /\ Running(t, "done")
  /\ call[t] = "restore"
  /\ Release(t)
  /\ FreePoint(t)
  /\ Finish(t)
  /\ UNCHANGED <<network, status, snap, store, bounds>>

\* set_device_status returns to device_offline: sleep, or end of its finally.
EndTransition(t) ==
  /\ Running(t, "leave")
  /\ Release(t)
  /\ IF frame[t].final THEN Finish(t)
     ELSE /\ Suspend(t, IF call[t] = "offline" THEN "down" ELSE "up")
          /\ UNCHANGED locals
  /\ UNCHANGED <<network, memory, store, bounds>>

SleepEnds(t) ==
  /\ \/ Resumes(t, "down") /\ Proceed(t, "online")
     \/ Resumes(t, "up") /\ Proceed(t, "offline")
  /\ UNCHANGED <<network, memory, store, locks, frame, bounds>>

\* Mutant: the test of the revision is the wrong way round.
MustRestoreUnwritten(t) == call[t] = "force" /\ frame[t].rev = NoRev

\* The override wrote something it has to take back.
MustRestore(t) == call[t] = "force" /\ frame[t].rev # NoRev

\* An exception or a cancellation leaves the lock and runs the finally blocks.
Unwind(t) ==
  /\ Running(t, "raise")
  /\ Release(t)
  /\ \/ /\ call[t] \in {"read", "write", "sync", "reserve"}
        /\ Finish(t)
        /\ UNCHANGED owners
     \/ /\ MustRestore(t)
        /\ Proceed(t, "restore")
        /\ UNCHANGED <<owners, frame>>
     \/ /\ call[t] \in {"force", "restore"}
        /\ ~MustRestore(t)
        /\ FreePoint(t)
        /\ Finish(t)
     \/ /\ call[t] \in {"offline", "online"}
        /\ Continue(t, "finally")
        /\ UNCHANGED <<owners, locals>>
  /\ UNCHANGED <<network, status, snap, store, bounds>>

\* Mutant: the finally block goes back into the loop.
FinallyLoops(t) ==
  /\ Running(t, "finally")
  /\ Proceed(t, "online")
  /\ UNCHANGED <<network, memory, store, locks, frame, bounds>>

\* finally of DeviceOfflineScenario.run
Finally(t) ==
  /\ Running(t, "finally")
  /\ IF ~frame[t].final /\ status[key[t][1]] = "offline"
     THEN /\ Proceed(t, "online")
          /\ frame' = [frame EXCEPT ![t].final = TRUE]
     ELSE Finish(t)
  /\ UNCHANGED <<network, memory, store, locks, bounds>>

-----------------------------------------------------------------------------
(* BaseScenario.stop cancels a scenario task once, wherever it is suspended. *)

Phase(t) ==
  CASE pc[t] = "waiting" /\ call[t] = "restore" -> "cleanup"
    [] pc[t] \in {"persist", "record"} -> "recording"
    [] pc[t] \in {"stopping", "closing", "starting", "statusRow",
                  "statusRecord", "errorRow"} -> "transition"
    [] OTHER -> "open"

Cancellable(t) ==
  /\ turn = None
  /\ t \in Scenarios
  /\ ~frame[t].stopped
  /\ Phase(t) \notin Shielded

MarkStopped(t) == frame' = [frame EXCEPT ![t].stopped = TRUE]

CancelWaiting(t) ==
  LET d == key[t][1] IN
  /\ Cancellable(t)
  /\ pc[t] = "waiting"
  /\ \E i \in DOMAIN waiters[d] :
       /\ waiters[d][i] = t
       /\ waiters' = [waiters EXCEPT ![d] =
                        SubSeq(@, 1, i - 1) \o SubSeq(@, i + 1, Len(@))]
  /\ Continue(t, "raise")
  /\ MarkStopped(t)
  /\ UNCHANGED <<network, memory, store, holder, call, key, bounds>>

CancelSleep(t) ==
  /\ Cancellable(t)
  /\ pc[t] \in SleepLabels
  /\ IF pc[t] = "hold" THEN Proceed(t, "restore")
     ELSE Continue(t, "raise") /\ UNCHANGED <<call, key>>
  /\ MarkStopped(t)
  /\ UNCHANGED <<network, memory, store, locks, bounds>>

\* A SQLite call runs in its own thread: the commit may be done all the same.
CancelStore(t) ==
  LET d == key[t][1] IN
  /\ Cancellable(t)
  /\ pc[t] \in {"persist", "record", "statusRow", "statusRecord", "errorRow"}
  /\ \/ UNCHANGED store
     \/ /\ pc[t] = "persist"
        /\ rowValue' = [rowValue EXCEPT ![Scanned(t)] = frame[t].got]
        /\ UNCHANGED <<rowStatus, event>>
     \/ /\ pc[t] = "record"
        /\ event' = [event EXCEPT ![Scanned(t)] =
                       [old |-> snap[Scanned(t)], new |-> frame[t].got]]
        /\ UNCHANGED <<rowValue, rowStatus>>
     \/ /\ pc[t] \in {"statusRow", "errorRow"}
        /\ rowStatus' = [rowStatus EXCEPT ![d] = status[d]]
        /\ UNCHANGED <<rowValue, event>>
  /\ Continue(t, "raise")
  /\ MarkStopped(t)
  /\ UNCHANGED <<network, memory, locks, call, key, bounds>>

CancelTransport(t) ==
  /\ Cancellable(t)
  /\ \/ /\ pc[t] \in {"stopping", "closing"}
        /\ Continue(t, "raise")
        /\ MarkStopped(t)
        /\ UNCHANGED <<network, memory, store, locks, call, key, inputs>>
     \/ pc[t] = "starting" /\ AbortStart(t, "cancel")
  /\ UNCHANGED faults

Cancel(t) ==
  CancelWaiting(t) \/ CancelSleep(t) \/ CancelStore(t) \/ CancelTransport(t)

-----------------------------------------------------------------------------
\* After initialize_devices: each device started, or in error with its row saved.
Init ==
  /\ \E v \in Values, up \in [Devices -> BOOLEAN] :
       /\ obj = [k \in Keys |-> NewObject(v)]
       /\ snap = [k \in Keys |-> v]
       /\ rowValue = snap
       /\ event = [k \in Keys |-> [old |-> v, new |-> v]]
       /\ app = up
       /\ sock = up
       /\ status = [d \in Devices |-> IF up[d] THEN "online" ELSE "error"]
       /\ rowStatus = status
  /\ author = [k \in Keys |-> None]
  /\ owners = [k \in Keys |-> None]
  /\ holder = [d \in Devices |-> None]
  /\ waiters = [d \in Devices |-> <<>>]
  /\ turn = None
  /\ pc = [t \in Tasks |-> "idle"]
  /\ call = [t \in Tasks |-> "none"]
  /\ key = [t \in Tasks |-> Home]
  /\ frame = [t \in Tasks |-> Blank]
  /\ inputs = MaxInputs
  /\ faults = MaxFaults

\* Steps a task takes by itself once its operation has begun.
TaskStep(t) ==
  \/ RequestLock(t) \/ TakeLock(t)
  \/ EnterRead(t) \/ EnterWrite(t)
  \/ Scan(t) \/ Persist(t) \/ Record(t)
  \/ Reserve(t) \/ ForceValue(t) \/ HoldEnds(t) \/ Restore(t)
  \/ EnterOffline(t) \/ BeginStop(t) \/ CloseApp(t) \/ EndStop(t)
  \/ EnterOnline(t) \/ EndStart(t) \/ Fault(t)
  \/ WriteStatusRow(t) \/ RecordStatus(t)
  \/ EndCall(t) \/ EndOverride(t) \/ EndTransition(t) \/ SleepEnds(t)
  \/ Unwind(t) \/ Finally(t)

Fails(t) == RefreshFails(t) \/ StartFails(t) \/ StatusStoreFails(t)

Request ==
  \/ \E t \in Apis, d \in Devices : StartRead(t, d)
  \/ \E t \in Apis, k \in Keys, v \in MaybeValue, p \in Priorities :
       StartWrite(t, k, v, p)
  \/ \E t \in Hvacs, k \in Keys, v \in Values : HvacWrite(t, k, v)
  \/ \E t \in Overrides, k \in Keys, v \in Values : StartOverride(t, k, v)
  \/ \E t \in Offlines, d \in Devices : StartOffline(t, d)

Next ==
  \/ \E t \in Tasks : TaskStep(t) \/ Fails(t) \/ Cancel(t)
  \/ \E t \in Syncs : StartSync(t)
  \/ Request
  \/ \E k \in Keys : NativeWrite(k)

Spec == Init /\ [][Next]_vars

(***************************************************************************)
(* asyncio gives every ready task its turn and queues lock waiters first   *)
(* come first served; SQLite calls and socket operations return; timers    *)
(* fire; the telemetry loop calls synchronize again.  Nothing is assumed   *)
(* of requests, stops, BACnet clients and failures.                        *)
(***************************************************************************)
Fairness ==
  /\ \A t \in Tasks : SF_vars(TaskStep(t))
  /\ \A t \in Syncs : SF_vars(StartSync(t))

FairSpec == Spec /\ Fairness
=============================================================================
