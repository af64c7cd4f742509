# A TLA+ model of the BACnet simulator

This directory holds a model of the simulator's own logic in TLA+, the TLC
runs that check it on small instances, and TLAPS proofs of the properties that
matter most for every instance.  Paths below are relative to
`src/bacnet_lab/` unless they start with `docs/`.

## 1. The system

One asyncio process (`docs/architecture.md`) simulates a set of BACnet devices
and publishes what happens to them.  asyncio runs one task at a time and
switches only at an `await` that really suspends; everything that is hard in
this program happens at those points, and at the places where other actors
(BACnet clients, SQLite threads, HTTP receivers, the operating system) act
without asking it.

| Part | Code | State | Operations | Talks to |
|---|---|---|---|---|
| Point objects | `adapters/bacnet/object_builder.py`, `engine.py` (reads and writes) | priority array, relinquish default, sensor value, Out_Of_Service, write revisions | command, relinquish, sensor update, native write | written by DeviceService and by BACnet clients |
| Device lifecycle | `engine.py` (`start_device`, `stop_device`) | `Runtime.app`, sockets | start, stop, stop all | called under the device lock |
| Device service | `application/device_service.py` | `_devices` (status, snapshot of every value), `_locks`, `_owners` | read, write, synchronize, override, status transition | engine, SQLite, event publisher |
| Scenarios | `adapters/scenarios/*.py` | task, status, error, parameters | start, stop, run | device service, event publisher |
| Telemetry loop | `application/telemetry_service.py` | task, error | synchronize every 0.25 s | device service |
| Outbox | `application/event_service.py`, `adapters/persistence/sqlite_repos.py`, `adapters/webhook/delivery.py` | events, deliveries, endpoints, alarms (SQLite); wake flag, worker task | record, deliver, retry, prune, stop | SQLite, receivers |
| Endpoints | `application/endpoint_service.py` | endpoints (SQLite) | create, delete, test | SQLite, receivers |
| Container | `bootstrap.py`, `adapters/persistence/migrations.py` | schema version, all the above | migrate, start, close | everything |

### What is hard in each part, and what makes it correct

**Point objects.** BACnet clients write them at any moment, without the service
and without its locks.  A command of slot 8 (an input's sensor) is counted, so
that an equal value written later still differs from the earlier one.
Correct: arbitration never yields Null, the counter moves with every command of
the place an override uses and with nothing else.

**Device service.** Every operation runs under the lock of its device, but an
override takes the lock three times (reserve, force, restore), awaits SQLite
inside it, and can be cancelled at each of these awaits.  Correct: one owner per
point; whoever ends an override gives its place back; a later command at that
place stays; no device goes offline under an owner; the snapshot never runs
ahead of what SQLite holds and catches up with the objects in the end.

**Device lifecycle.** `stop_device` drops `Runtime.app` before it awaits the
sockets, `start_device` may be refused or run out of its five seconds and then
stops again.  Correct: outside the lock, status, application and socket agree.

**Scenarios.** A stop is a cancellation that lands at whatever `await` the
scenario is at, its own cleanup included; `device_offline` runs a whole
transition in its `finally`.  Correct: a stop ends, leaves no command and no
offline device behind, and each recorded start is followed by a recorded end.

**Outbox.** Publishers, up to four deliveries, retention and endpoint deletion
share three tables through separate connections, and the process may die
between any two of their transactions.  Correct: each endpoint receives its
events in order, a pending delivery is never lost, attempts are counted, the
`delivered` flag tells the truth, the worker does not sleep on work, and every
delivery settles.

**Container, migrations.** A start that fails half-way must release what it took;
closing must go on after a step that fails, and end the users of a resource
before the resource; a migration must be all or nothing, also beside another
program that migrates the same file, keep every value, and refuse what it does
not know; the rows of devices must follow an inventory that changes between
starts, and statuses that change and fail to be recorded within one.

`PROJECT.json` lists every component with its status and every hazard with its
line and the properties that would catch it.

## 2. Modules

| Module | Models | Composition |
|---|---|---|
| `PointObject` | one BACnet object as operators on a record: command, sensor, Out_Of_Service, arbitration, revisions | extended by `DeviceService` |
| `DeviceService` | the service, the engine's start and stop, and the tasks that call them; BACnet clients as an action of their own | state machine |
| `PointLease` | abstract: exclusive control of a point of a serving device | refined by `DeviceService` |
| `DeviceProperties` | types, safety, liveness, the inductive invariants, the refinement mapping | extends `DeviceService` |
| `DeviceTypeProofs`, `DeviceLeaseProofs`, `DeviceProofs`, `DeviceCommandProofs` | the theorems, in this order | extend `DeviceProperties` |
| `Outbox` | publishers, the worker, endpoints, retention, stop and crash | state machine |
| `OutboxQueue` | abstract: a queue of events per endpoint, served from its head | refined by `Outbox` |
| `OutboxProperties` | types, safety, liveness, the refinement mapping | extends `Outbox` |
| `OutboxProofs` | the theorems about it | extends `OutboxProperties` |
| `ScenarioLifecycle` | start, stop, run and end of scenarios, the alarms of `alarm_cycle`, the container that clears old alarms and stops every scenario | state machine |
| `LifecycleProperties` | types, safety, liveness | extends `ScenarioLifecycle` |
| `LifecycleProofs` | the theorems about it | extends `LifecycleProperties` |
| `Migrations` | `run_migrations`: processes that migrate one file | state machine, extended by `Container` |
| `Container` | `create_container`, `Container.start` and `close`, the lifespan; the services seen from outside, `device_offline` as the one that moves devices | state machine, composes `Migrations` with the application |
| `Database` | abstract: a file that is upgraded in one step and used only when it is current | refined by `Migrations` inside `Container` |
| `ContainerProperties` | types, safety, liveness, the refinement mapping | extends `Container` |
| `MigrationProofs`, `ContainerProofs` | the theorems about both, in this order | extend `ContainerProperties` |
| `MCDeviceService` | instances for TLC: the symmetry of values | extends `DeviceProperties` |

The parts meet in three places.  `publish()`: `DeviceService` and
`ScenarioLifecycle` see it as one SQLite call that may fail or be interrupted
(`Record`, `CommitAlarm`, `CommitEnd`), `Outbox` opens it (`Publish`,
`ListTargets`, `Record`, `SetWake`) and forgets where events come from.  The run
of a scenario: `DeviceService` models what it does to devices and forgets how it
was started, `ScenarioLifecycle` models how it starts and ends and abstracts what
it does to devices to `work` and `unwind`.  The process: `Container` models what
is started, stopped and closed in which order and forgets what happens inside a
service but for a device's transition, whose leftovers the closing meets; the three
others model the inside and take the order for granted
(`Outbox` and `ScenarioLifecycle` keep their own start, close and crash).

### DeviceService

*State.* `obj` is the objects of all points, `app` and `sock` the protocol
application and the socket of each device; `status`, `snap` and `owners` are the
fields of the Python service; `rowValue`, `rowStatus` and `event` what SQLite
holds of them (of the events only the last of each point); `holder` and
`waiters` are the `asyncio.Lock`s.  `author` is a history variable: whose
command stands at the control place of a point.

*Control.* `turn` is the task that runs.  While `turn = t` only `t` moves, so the
code between two suspensions is atomic although it is several actions; `pc[t]`,
`call[t]`, `key[t]` and `frame[t]` are where `t` is, in which operation, on
which point and with which locals.  A call of SQLite or of a socket is two
steps: its effect becomes durable while the task is suspended, the task goes on
later; a lock that is free and unqueued does not suspend, as in asyncio.

| Actions | Code |
|---|---|
| `RequestLock`, `TakeLock` | `async with self._locks[...]` |
| `StartRead` `EnterRead`, `StartWrite` `HvacWrite` `EnterWrite`, `StartSync` | `get_device`, `write_point`, `synchronize` up to `_refresh` |
| `Scan` `Persist` `Record` `RefreshFails` | `_refresh`: compare, row, event, then snapshot |
| `StartOverride` `Reserve` `ForceValue` `HoldEnds` `Restore` `EndOverride` | `override`, its three lock acquisitions, `manual_override`'s hold |
| `StartOffline` `EnterOffline` `BeginStop` `CloseApp` `EndStop` `EnterOnline` `EndStart` `StartFails` `Fault` `WriteStatusRow` `RecordStatus` `StatusStoreFails` `EndTransition` `SleepEnds` | `device_offline`, `set_device_status`, `start_device`, `stop_device` |
| `EndCall` `Unwind` `Finally` | returns, and the way of an exception or a cancellation through the `finally` blocks |
| `CancelWaiting` `CancelSleep` `CancelStore` `CancelTransport` | `task.cancel()` of a stop, at each kind of `await` |
| `NativeWrite` | an accepted WriteProperty of a BACnet client |

A cancelled SQLite call may or may not have committed; both are modelled.

*Shielded.* The constant `Shielded` names phases in which no stop arrives:
`"cleanup"` (waiting for the lock of a restoration), `"recording"` (inside the
two SQLite calls of `_refresh`), `"transition"` (inside `stop_device`,
`start_device` and the recording of a status).  With nothing shielded some
properties are false: `NoResidue` (run `VResidue`), `StatusIsTrue` (run `VStatus`)
and, with it, `SnapshotCatchesUp`, for a device without application stops the
synchronization, and `EventsAreAChain`, for a stop between the commit of an event
and the assignment of the snapshot makes the next refresh record the same change
again.  Shielding the phase at fault shows that nothing else breaks them; the
other properties are checked, or proved, with stops anywhere.

### Outbox

*State.* `endpoint` and `filter` are the table of endpoints, `stored`, `flag` and
`row` the tables of events and deliveries (`count` numbers events in commit
order, which is the order of `deliveries.id`); `pub` and `targets` are the
publishers inside `_handle_domain_event`, `worker`, `busy`, `failed` and
`flight` the locals of `_run` and of its `_send` calls, `wake`, `stopping`
and `error` the fields of the service.  Time is abstracted: `due` says that
`next_attempt` has passed, a pruning takes any set of events that are old
enough.  `tried` and `accepted` are histories: what was posted, and what a
receiver answered with 2xx.

| Actions | Code |
|---|---|
| `CreateEndpoint`, `DeleteEndpoint` | `create_endpoint`, `delete` with its cascade |
| `Publish` `ListTargets` `Record` `SetWake` `PublishFails` `CancelPublish` | `publish`, `_handle_domain_event`, `record` with its foreign key |
| `Query` `BatchDone` `Prune` `CycleFails` `Awake` | one turn of `_run` |
| `Post` `FinishRead` `FinishWrite` `SendFails` | `_send`: `deliver`, then `finish_delivery`, whose SELECT is outside its transaction |
| `BackoffEnds` | `next_attempt <= now` |
| `Starting` `Start` `Stop` `StopTimeout` `Crash` | `Container.start`, which clears old alarms before the worker starts; `start`, `stop` with its fifteen seconds, the end of the process |

### ScenarioLifecycle

*State.* `task`, `exc` and `alarm` are a scenario's task: where it is, the
exception it is being left with, the local `alarm_id` of its cycle; `status` and
`lock` are the fields of `BaseScenario`; `at` and `target` are where each caller
is in `start` or `stop`, and of which scenario (`Closer` is the task that runs
`Container.close`, and goes through the scenarios in their order); `log` and
`active` are what SQLite holds: the recorded `ScenarioLifecycleChanged` of each
scenario, and the alarms not cleared.  `process` and `leftover` are where the
container is and which old alarms it has still to clear.

| Actions | Code |
|---|---|
| `Request` `EnterStart` `CommitStart` `BeginRun` | `start`: the test of the task, the recorded event, then status and task |
| `EnterStop` `TaskIsOver` `CommitStop` `Stopped` | `stop`: cancel, await the task, record the end if it raised, forget the task; `Return` goes on with `stop_all` |
| `RecordFails` | the event of a start or a stop cannot be recorded |
| `Resume` `RaiseAlarm` `CommitAlarm` `RunFails` `WorkEnds` | `AlarmScenario.run`; the other scenarios only work and end |
| `Unwound` `CommitEnd` `EndFails` | `_run_wrapper` |
| `Boot` `ClearLeftover` `BootFails` `Serve` `Close` `Crash` | `create_container`, `Container.start`, `lifespan`, `Container.close`, the end of the process |

`Interrupted` says where a cancellation takes a task: nowhere if it has had no
turn or is recording its end, to the `finally` of the alarm cycle inside its `try`,
to the cleanup otherwise - also from inside the `finally`, whose event is then
lost.  `ClearShield` says that no stop arrives there; `AlarmsAreAttended` needs it,
as the run `VAlarm` shows.

### Migrations and Container

*State.* `disk` is what is committed in the file: `user_version`, which parts of
the schema exist, the text each row stores as its value; `work` is the same as
the process `writer` sees it inside its write transaction.  `at` and `saw` are
where each process is in `run_migrations` and the version it read.  A text is
`str(value)` by version 1 and JSON by version 2; the four values are a boolean,
a number, and two strings, one of which looks like version 1's boolean.

`phase` is where the lifespan is, `cursor` the device being initialized or the
step of closing; `apps` (`Runtime.app`), `sock`, `client`, `telemetry` and `worker`
are what is open or runs, `errors` what `engine.stop_all` collects; `status` is
`Device.status`, `rowStatus` its row; `scenario` is where `device_offline` is, `final`
that this is the `finally` of its `run()`.  `missed`, `cut` and `stuck` are histories
that no guard reads: devices the recording of whose last status failed or was cut
by a stop, devices that lost their application to a `stop_device` a stop cut,
resources whose close failed.

| Actions | Code |
|---|---|
| `Connect` `ReadVersion` `BeginWrite` `CreateTables` `AddColumn` `ConvertRows` `CreateDeliveries` `CreateIndexes` `StampVersion` `Commit` | the statements of `run_migrations`, in order; the version is read before the transaction |
| `FindsDeliveries` `MigrationFails` `Rollback` | a statement fails: `CREATE TABLE deliveries` because another process was faster, or any for a fault |
| `Boot` `Migrated` | `create_container` up to `initialize_devices`, with any inventory |
| `StartDevice` `SaveDevice` `Reconcile` `InitializeFails` | `initialize_devices`, `save`, `reconcile` |
| `StopAll` `Aborted` | `stop_all`, and the `except` block of `create_container` |
| `Serve` `StartFails` `Close` | `Container.start`, the `try` and `finally` of `lifespan` |
| `StartScenario` `SleepEnds` `Leave` | `device_offline`: the loop of `run()`, and the way out through its `finally` |
| `GoOffline` `GoOnline` `Started` `WriteStatus` `PublishStatus` `StatusFails` | `set_device_status`: refused, failed before the engine, through it, its row and its event |
| `StartTimesOut` `SocketStops` `SocketSticks` | `start_device` that gives up, `stop_device` under a transition |
| `StopRun` | `task.cancel()` of a stop, of a client or of the closing, at each of these awaits |
| `ScenariosStopped` `TelemetryStopped` `StopWorker` `SocketsClosed` `ClientClosed` `Closed` | the five steps of `close` |
| `Crash`, `Rival` | the end of the process; another program that migrates the same file, once, and may fail or die |

A transaction of a service is one action that waits for `writer`, since it reads
nothing before it begins.  A stop lands at any await of a transition, and again in
the cleanup of an earlier one.  Three things it leaves behind are real, and the
properties name them as exceptions: an online device without application (`cut`,
what `VStatus` shows in `DeviceService`), with a socket that stays open if the stop
came before `app.close()`, because `stop_all` finds no application for it; and a
row that was not written (`missed`).  What a failed close leaves behind is `stuck`; a
failed refresh before `stop_device` is not, since application and socket are still
there to be closed.  When `engine.stop_all` of an aborted start raises, the HTTP
client is not closed; the model does the same, and `NothingLeftOpen` says so.

## 3. Runs

Each run takes at most two minutes on two workers of an idle machine.  Values, which the service
compares and never orders, are symmetric where no liveness is checked.

| Run | Instance | Question |
|---|---|---|
| `MCOverride` | 1 device with a commandable and an input point; an HTTP reader and writer, an override, synchronization, BACnet clients; 3 inputs, 1 failure; cleanup and recording shielded | does anybody write a point another task owns; does an override take back its own command and nothing else; do recorded changes chain; does the service implement `PointLease`? |
| `MCLive` | an override against `device_offline`, 2 inputs, 1 failure, fair; nothing shielded | are locks, owners and transitions consistent; is the snapshot always recorded; does a device go offline under an owner; do leases and stops end? |
| `MCSync` | 2 devices of 2 points, `device_offline`, the HVAC scenario, native writes, 2 inputs, 1 failure, fair; transition shielded | does the status say what the sockets do; does every snapshot catch up? |
| `MCQueue` | 1 endpoint that takes one of two kinds, 3 events, back-off, pruning, 1 failure, 1 crash, 2 attempts | does the outbox implement `OutboxQueue`; is work slept on, dropped, miscounted? |
| `MCSettle` | 3 endpoints, 1 event, batches of 2, 2 attempts, a publisher a stop may cancel, fair | does every delivery settle; does the flag follow the rows? |
| `MCLifecycle` | 3 scenarios (2 alarm cycles), 2 callers with 2 requests and the closing container, 2 alarms, 1 failure, 1 crash, fair; the clearing of an alarm shielded | one run at a time; are ends and alarms accounted for; is a serving process free of old alarms; do stops and the shutdown end with nothing running? |
| `MCContainer` | 2 devices, any inventory at each start, `device_offline` for one of them with stops anywhere, a second program on the file, every content of a version 1 file, 2 failures, 1 crash, fair | is the migration one step to whoever looks; do rows follow devices; is everything closed, in order; do starts and closings end? |

`VReplaced`, `VResidue`, `VStatus`, `VDelivered` and `VAlarm` check a statement of the
documentation that the code does not keep; see below.

Bounds, and why they are enough.  Locks, owners and refreshes of different
devices share nothing, and the points of one device share its lock and the
order of the scan, so one device with one or two points shows every
interference; `MCSync` has two devices because `synchronize` visits them in turn
and stops at one that fails.  Two values tell "the same" from "another".  Slots 8
and 16 are the place of an override and a weaker one; a stronger slot only hides
effective values, which the two slots already do to each other.  Three inputs
allow a command before, during and after an override.  Two attempts
(`MaxAttempts`, five in the code) tell a retry from exhaustion, `VDelivered` has
the real five; a batch limit of two makes three endpoints compete as five do for
four.  One failure and one crash meet every step once; the properties of a
second failure concern counts, which `AttemptsAreCounted`, `EndsRecorded` and
`AlarmsAreAttended` state with the numbers of failures and crashes in them.  Three
scenarios make `stop_all` go on after one that failed, and two alarm cycles have an
alarm each at a crash; two requests and the
closing are a start and a stop, two stops or two starts of one scenario and the
shutdown behind them; two alarms are a cycle and the one after it, or after a
restart.  In `MCContainer` two failures let a step of closing fail after another
failed, and a status be missed and another recorded; one crash is enough because
a start after it forgets all but the file; two devices are one that has been
started and one that has not; one rival is all a write lock lets by at a time.
`device_offline` is one scenario with one target at a time, and what a transition
does to its target does not touch another device, so `Targets` holds one device: the
second one only has to be started, stored and closed beside it.

Each run has, per property, a mutant of the mapped code that breaks it
(`PROJECT.json`): a dropped guard, a missing count, a wrong order.  They are kept
beside the definitions they mutate and marked as mutants.

### Fairness

`DeviceService!Fairness` is strong fairness of each task's own steps and of the
next turn of the telemetry loop.  asyncio runs ready tasks in FIFO order and locks
queue first come first served; a step may be disabled again and again because
another task has the turn, which is why it is strong.  SQLite calls and socket
operations have timeouts (10 s, 5 s), sleeps have ends.  `Outbox!Fairness` is weak
fairness of the worker, of each publisher and of each back-off: they are not
disabled by others.  `ScenarioLifecycle!Fairness` is strong fairness of a caller,
which may find the lock of a scenario taken, and weak fairness of a scenario's
task.  That an alarm cycle's work ends, or that it raises another alarm, is not
assumed.  `Container!Fairness` is weak fairness of the program's own steps, of the
scenario's, and of the rival's statements: a process inside a transaction goes
on until it commits, fails or dies, and SQLite's busy timeout is a failure.  Nothing is assumed of requests, stops, restarts, BACnet
clients, receivers' answers or failures.

### What the violation runs found

| Run | What happens | Against |
|---|---|---|
| `VReplaced` | `override` reads what it will give back under one lock acquisition and forces its value under the next; a BACnet client's priority-8 write in between is lost and an older value comes back | `docs/architecture.md:33` |
| `VResidue` | a stop that reaches an override at the lock of its own cleanup skips the restoration | `docs/scenarios.md:21` |
| `VStatus` | a stop inside `stop_device` leaves a device that says online without an application, and `device_offline`'s `finally` looks for offline | `docs/scenarios.md:34` |
| `VDelivered` | an endpoint deleted inside `finish_delivery` leaves an event flagged delivered that nobody accepted | `docs/webhooks.md:81` |
| `VAlarm` | a stop that arrives while the cycle's `finally` publishes `AlarmCleared` interrupts it: the run ends, the alarm stays active until the process restarts | `docs/scenarios.md:30` |

## 4. Theorems

`tlapm` checks them for any number of devices, points and tasks, any values and
any bounds, under `PointAssumption` (Null is not a value, there is a value,
priorities are BACnet's without 6 and contain 8 and 16) and `ServiceAssumption`
(the kinds of tasks are disjoint, at least one device and one point); for the
container, any number of devices, targets and processes on the file, under
`MigrationAssumption` (version 1 left no text but those modelled, `None` is no process)
and `ContainerAssumption` (at least one device, a row for each, the application is a
process, the targets are devices); for the lifecycle, any number of scenarios and callers, under
`LifecycleAssumption` (at least one scenario; alarm cycles are scenarios; the closing
task is no caller); for the outbox, any number of endpoints, events and publishers,
any batch limit and number of attempts, under `OutboxAssumption` (the limit and the
attempts are positive).  A theorem that needs a shield or that publishers are left
alone says so in its statement.

| Theorem | Module | Says |
|---|---|---|
| `TypeCorrect` | `DeviceLeaseProofs` | `Spec => []TypeOK` |
| `LeaseInvariant` | `DeviceLeaseProofs` | `Spec => []LeaseInv` |
| `ImplementsLease` | `DeviceProofs` | `Spec => LeaseSpec` |
| `OfflineExcluded` | `DeviceProofs` | `Spec => NeverOfflineWhileOwned` |
| `OwnershipExclusive` | `DeviceProofs` | `Spec => OwnerExclusive` |
| `LaterCommandIsKept` | `DeviceCommandProofs` | `Spec => LaterCommandKept` |
| `SnapshotFollows` | `DeviceCommandProofs` | `Spec => SnapshotIsRecorded` |
| `NoResidueIfShielded` | `DeviceCommandProofs` | `"cleanup" \in Shielded` and `Spec` imply `[]NoResidue` |
| `CommandsStand` | `DeviceCommandProofs` | `"cleanup" \in Shielded` and `Spec` imply `[]CommandInv` |
| `EventsFollow` | `DeviceCommandProofs` | `"recording" \in Shielded` and `Spec` imply `EventsAreAChain` |
| `StatusFollowsSockets` | `DeviceProofs` | `"transition" \in Shielded` and `Spec` imply `[]StatusIsTrue` |
| `LifecycleInvariant` | `LifecycleProofs` | `Spec => []LifecycleInv` |
| `LifecycleTypes` | `LifecycleProofs` | `Spec => []TypeOK` |
| `RunsAreNotReplaced` | `LifecycleProofs` | `Spec => OneRun` |
| `StatusFollowsRecord` | `LifecycleProofs` | `Spec => []StatusIsRecorded` |
| `EndsAreRecorded` | `LifecycleProofs` | `Spec => []EndsRecorded` |
| `OldAlarmsAreGone` | `LifecycleProofs` | `Spec => []NoOldAlarms` |
| `AlarmsAttendedIfShielded` | `LifecycleProofs` | `ClearShield` and `Spec` imply `[]AlarmsAreAttended` |
| `ClosedIsDrained` | `LifecycleProofs` | `Spec => []Drained` |
| `OutboxInvariant` | `OutboxProofs` | `Spec => []OutboxInv` |
| `OutboxTypes` | `OutboxProofs` | `Spec => []TypeOK` |
| `OutboxIsAQueue` | `OutboxProofs` | `Spec => QueueSpec` |
| `NoPendingIsLost` | `OutboxProofs` | `Spec => PendingIsKept` |
| `PostsAreOrdered` | `OutboxProofs` | `Spec` implies that the posts of an endpoint are in the order of its events |
| `FlagsFollowRows` | `OutboxProofs` | `Spec => []FlagFollowsRows` |
| `FlaggedWasAccepted` | `OutboxProofs` | `Spec` without `DeleteEndpoint` steps implies `[]DeliveredWasAccepted` |
| `PostsAreCounted` | `OutboxProofs` | `Spec => []AttemptsAreCounted` |
| `NoWakeIsMissed` | `OutboxProofs` | `Stoppable = {}` and `Spec` imply `[]NoMissedWake` |
| `ContainerInvariant` | `ContainerProofs` | `Spec => []ContainerInv` |
| `ContainerTypes` | `ContainerProofs` | `Spec => []TypeOK` |
| `UsersEndFirst` | `ContainerProofs` | `Spec => []UsersGoFirst` |
| `LeavesNothingOpen` | `ContainerProofs` | `Spec => []NothingLeftOpen` |
| `RowsFollowDevices` | `ContainerProofs` | `Spec => []RowsAreTrue` |
| `ImplementsDatabase` | `ContainerProofs` | `Spec => DatabaseSpec` |

*Argument.*  `TypeOK` is preserved by every action (`DeviceTypeProofs`, one lemma
per action), except that a few actions need to know that the locals they use have
been set, so the invariant proved is `LeaseInv`, a conjunction of named parts:

- `KindInv`: which task makes which call, which labels a call has.
- `ArgsInv`: the locals an operation relies on have been set.
- `LockInv`: the task inside a lock is its holder; there is one.
- `OwnerInv`: a point is owned by exactly the override that works on it.
- `TransitionInv`: a transition past its test of `_owners` meets no owner until it
  leaves the lock.  It needs `LockInv`, because only the lock keeps `Reserve` out.
- `OwnedInv`: an owned point's device has its application.  It is what an
  override takes for granted after the reservation, when it no longer checks the
  status.  The reservation establishes it by reading the object, which needs the
  application; `TransitionInv` keeps it in the steps that stop one.

`NeverOfflineWhileOwned`, `OwnerExclusive` and the refinement follow step by step from
`LeaseInv`.  The properties of commands need more: `CommandInv` says that the
revision an override saved equals the object's only if its own command still
stands (`RevisionInv`), that a command of an override still standing belongs to
an override that owns the point and has its cleanup ahead (`ResidueInv`), and
that the row written by a refresh is untouched until its event is recorded
(`RecordedInv`).  `ResidueInv` is where the shielded cleanup enters, and `VResidue`
shows that it must.  `ChainInv`, that a point's latest event reports its snapshot, is
what makes the events a chain; a stop that lands inside the recording of one may
commit an event the snapshot does not follow, hence the shield.

`StatusInv` is about status, application and socket: they agree (`Settled`) on every
device no transition is at work on, and each stage of a transition has done so
much (`TransportOf`: the application dropped, then the socket closed, or both
open and the status still to come).  `LockInv` makes that transition the only one on
its device, and the shield keeps a stop from ending it half-way, which `VStatus`
shows.

*The container.*  `ContainerInv` has two halves.  `MigrationInv` is about the file,
whoever migrates it: an earlier file has nothing of the current schema and a
current one all of it (`FileInv`); the version a process read some time ago is not
above the file's (`SawInv`, versions only grow, because the write lock is taken
after the read); and the transaction of the process that holds the lock has
written exactly what its statements so far make of the committed file
(`WorkInv`).  So a commit either changes nothing or is the whole upgrade, which
keeps what every row means (`Converts`), and that is the step of `Database`.
The other half follows the lifespan: what is open and who works in each phase and
at each step of closing (`StageInv`), what is open (`SocketInv`) and the rows of the
devices initialized so far, then of all (`RowInv`).  `SocketInv` is what makes stops
inside a transition tractable: an application always has a socket; a socket
without one is being closed, or its close failed or was cut; what is online has
both until the sockets are closed, unless its `stop_device` is running or was cut;
and the labels at which the target is known to be offline, or to have its
application, say so.  The halves meet where they have to: a device is
only saved to a file that this process knows to be current.

*The lifecycle.*  `LifecycleInv` ties the actors to the scenarios: a lock is held by
the one actor inside `start` or `stop` (`LockInv`), what that actor found when it got
it still holds (`CallInv`: the task is over, or cancelled and the status written), a
process that does not serve runs nothing and a closing one has ended every
scenario before the one it is at (`ProcessInv`), and alarms have one run and are
newer than any earlier process's (`AlarmInv`).  `OneRun`, `NoOldAlarms` and `Drained` are
read off it.  The records need more.  `RecordInv`: without failures, a run that is
over has its status recorded, or somebody inside the lock will do it.  `EndInv`: two
recorded starts in a row need a mishap each, and one more is available as long as
the last record is a start and nobody is left who would record the end
(`EndAhead`), which only a failure or a crash can bring about; that one is for the
end of the last run in `EndsRecorded`.  An end may be recorded twice, by the wrapper
and by the `stop()` that interrupts it after its commit.  `AlarmsAreAttended`
is inductive beside `LifecycleInv` if `ClearShield` holds.  A crash is not one of the
mishaps it counts: the alarms of a dead process, however many cycles it ran, become
`leftover` at the next start and are attended again.

*The outbox.*  `OutboxInv` ties the three places an event is in: its row, the send in
flight and the history of posts.  A row belongs to a stored event and a live
endpoint, and a pending one has attempts left (`RowInv`); a send is part of a batch,
of the first pending row of its endpoint or of one whose endpoint has gone, and one
that will be written as delivered was accepted (`FlightInv`); and no post lies
behind an event that is pending or in flight (`OrderInv`), which is the order
receivers rely on and what makes each step one of `OutboxQueue`.  Four invariants
stand beside it: `FlagInv` for the flag; `TriesInv`, which balances the posts of a
delivery against its attempts, the post in hand and the mishaps so far; `WakeInv`,
which carries `NoMissedWake` from the query that found nothing through pruning to
sleep; and, where endpoints stay, `SentInv`: what is in flight is pending.

`WakeInv` rests on `EmptyBatch`: a query that finds nothing means that no head is due,
because the first of the due heads is within any limit, which is proved from the
well-foundedness of the numbers.  It needs that nobody cancels a publisher between its
commit and its signal (`Stoppable = {}`); such a delivery is found by the next
half-second poll, but it is slept on.  `FlaggedWasAccepted` is the half of the
documentation's promise about the flag that does hold: `VDelivered` breaks it by
deleting the endpoint of a send in flight, and the theorem says that there is no other
way, neither a failure nor a crash nor retention.

Only model-checked: liveness (`LeaseFairSpec`, whose safety half is `ImplementsLease`,
`StopCompletes`, `SnapshotCatchesUp`, `EveryDeliverySettles`, `StopsReturn`,
`StartsAndClosesEnd`), which is out of the prover's reach.  Every safety property of
a passing run is a theorem.

## 5. Not modelled

- Parsing and rendering of HTTP, the dashboard, authentication, YAML loading,
  configuration, logging: no state of their own.
- BACnet encoding, COV subscriptions, discovery: the work of BACpypes3.  Of its
  arbitration, what the simulator relies on is modelled (`Arbitrate`).
- Validation of values (`Point.validate_value`): `Values` is the set of values that
  pass; a request that fails ends before it touches anything.
- `TelemetrySnapshotTaken`: published by the loop, read by nobody in the process.
- `toggle_endpoint`, which nothing calls, and `failure_count`, `last_delivery_at` and
  `last_error`, which nothing decides by.
- Parameters of scenarios and their validation: they decide whether a start is
  refused (`EnterStart`), and a request that is refused changes nothing.
- A row that runs ahead of its event: when the event fails after the row was
  written and the value then returns to the old snapshot, the refresh finds nothing
  to do and the row stays behind until the next change.  Nothing reads it before
  the next start.

## 6. Plan

1. `PointObject` lemmas stated as theorems: arbitration shows the strongest filled
   slot; an override and its restoration leave the priority array, and what a client
   reads, as they were; no write but one to the control place changes the revision.
2. An abstract `ScenarioRun` (idle, running, ended, each edge recorded) refined by
   `ScenarioLifecycle`, from `LifecycleInv`.
