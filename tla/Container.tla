----------------------------- MODULE Container ------------------------------
(***************************************************************************)
(* The program around its services (bootstrap.py, the lifespan of app.py): *)
(* migrations, the start of the devices, serving, the order of closing,    *)
(* each step of which may fail, and the end of the process at any moment;  *)
(* with device_offline as the scenario that moves devices meanwhile.       *)
(*                                                                         *)
(* The services are seen from outside: telemetry and the webhook worker    *)
(* only run or do not; a transition of a device is the suspensions of      *)
(* set_device_status and of the engine under it, at each of which a stop   *)
(* may arrive (DeviceService has its lock and its refresh).  A row of the  *)
(* database stands for a device with its points.                           *)
(***************************************************************************)
EXTENDS Migrations, Sequences

CONSTANTS ND,       \* devices 1..ND, in the order of their YAML files
          App,      \* the process of the application
          Targets   \* bound: the devices device_offline is started for

Devices == 1..ND

ASSUME ContainerAssumption ==
  /\ ND \in Nat \ {0}
  /\ Rows = Devices
  /\ App \in Processes
  /\ Targets \subseteq Devices

VARIABLES
  phase,      \* of the lifespan
  inventory,  \* the devices of the YAML files
  cursor,     \* the device being initialized, the step of closing
  apps,       \* the devices with a BACnet application (Runtime.app)
  sock,       \* the devices that hold UDP sockets
  status,     \* Device.status of the devices in memory
  rowStatus,  \* devices.status in SQLite
  client,     \* the HTTP client of the webhooks is open
  telemetry,  \* the telemetry task exists
  worker,     \* the outbox worker: off, on, stopping
  errors,     \* engine.stop_all has one to raise
  scenario,   \* where device_offline is
  target,     \* its device
  final,      \* it is in the finally of run()
  missed,     \* history: devices the recording of whose status failed or was cut
  cut,        \* history: devices that lost their application to a cut stop_device
  stuck       \* history: what could not be closed: sockets, the client

process == <<phase, inventory, cursor>>
devices == <<apps, sock, status>>
services == <<client, telemetry, worker, errors>>
transition == <<scenario, target, final>>
history == <<missed, cut, stuck>>
vars == <<database, migration, bounds, process, devices, rowStatus, services,
          transition, history>>

HttpClient == 0  \* among the devices, in stuck

Statuses == {"online", "offline", "error"}
NoStatus == "-"

Enter(p) == phase' = p /\ UNCHANGED inventory

\* A transaction of its own; it waits for another's.
Store(text, st) ==
  /\ writer = None
  /\ disk' = [disk EXCEPT !.text = text]
  /\ work' = disk'
  /\ rowStatus' = st
  /\ UNCHANGED writer

SetStatus(d, st) == status' = [status EXCEPT ![d] = st]

-----------------------------------------------------------------------------
(* create_container *)

FreshMemory ==
  /\ cursor' = 0
  /\ apps' = {} /\ sock' = {}
  /\ status' = [d \in Devices |-> NoStatus]
  /\ client' = FALSE /\ telemetry' = FALSE /\ worker' = "off" /\ errors' = FALSE
  /\ scenario' = "idle" /\ target' = 1 /\ final' = FALSE
  /\ missed' = {} /\ cut' = {} /\ stuck' = {}

\* load_all_devices: the files may have changed since the last start.
Boot ==
  /\ phase \in {"down", "closed"}
  /\ phase' = "migrating"
  /\ inventory' \in (SUBSET Devices) \ {{}}
  /\ FreshMemory
  /\ Connect(App)
  /\ UNCHANGED rowStatus

\* The device of the inventory after d, ND + 1 if there is none.
Following(d) ==
  CHOOSE e \in 1..(ND + 1) :
    /\ e > d /\ (e \in inventory \/ e = ND + 1)
    /\ \A f \in inventory : f > d => e <= f

\* run_migrations returned, or raised.
Migrated ==
  /\ phase = "migrating"
  /\ \/ at[App] = "done"
        /\ Enter("devices") /\ cursor' = Following(0) /\ client' = TRUE
     \/ at[App] = "failed"
        /\ Enter("closed") /\ UNCHANGED <<cursor, client>>
  /\ UNCHANGED <<database, migration, bounds, devices, rowStatus, telemetry,
                 worker, errors, transition, history>>

Initializing(d) == phase = "devices" /\ cursor = d /\ d \in inventory

\* The address may be taken, or the transport not ready in five seconds; then
\* the engine closes what it has opened, which may fail too.
StartDevice(d) ==
  /\ Initializing(d)
  /\ status[d] = NoStatus
  /\ \/ /\ SetStatus(d, "online")
        /\ apps' = apps \cup {d} /\ sock' = sock \cup {d}
        /\ UNCHANGED <<bounds, stuck>>
     \/ SetStatus(d, "error") /\ UNCHANGED <<bounds, apps, sock, stuck>>
     \/ /\ UseFault
        /\ SetStatus(d, "error")
        /\ sock' = sock \cup {d} /\ stuck' = stuck \cup {d} /\ UNCHANGED apps
  /\ UNCHANGED <<database, migration, process, rowStatus, services, transition,
                 missed, cut>>

\* The row of the device, with the YAML's values of its points.
SaveDevice(d) ==
  /\ Initializing(d)
  /\ status[d] # NoStatus
  /\ Store([disk.text EXCEPT ![d] = "21.5"], [rowStatus EXCEPT ![d] = status[d]])
  /\ cursor' = Following(d)
  /\ UNCHANGED <<migration, bounds, phase, inventory, devices, services,
                 transition, history>>

\* Mutant: what is not in the inventory any more is kept.
KeepsRow(d) == TRUE

InInventory(d) == d \in inventory

Reconcile ==
  /\ phase = "devices" /\ cursor = ND + 1
  /\ Store([d \in Devices |-> IF InInventory(d) THEN disk.text[d] ELSE NoRow],
           [d \in Devices |-> IF InInventory(d) THEN rowStatus[d] ELSE NoStatus])
  /\ Enter("alarms")
  /\ UNCHANGED <<migration, bounds, cursor, devices, services, transition, history>>

\* Ports or addresses are refused before the first device, a row after it.
InitializeFails ==
  /\ phase = "devices"
  /\ UseFault
  /\ Enter("aborting")
  /\ UNCHANGED <<database, migration, cursor, devices, rowStatus, services,
                 transition, history>>

-----------------------------------------------------------------------------
(* engine.stop_all: in a start that is given up, and as a step of closing. *)

\* Mutant: a start that is given up only closes the client.
NothingToClose == {}

\* What has no application is not known to be open.
ToClose == apps

CloseSocket(d) ==
  /\ d \in ToClose
  /\ apps' = apps \ {d}
  /\ \/ sock' = sock \ {d} /\ UNCHANGED <<bounds, stuck, errors>>
     \/ /\ UseFault
        /\ stuck' = stuck \cup {d} /\ errors' = TRUE /\ UNCHANGED sock

StopAll ==
  /\ \E d \in Devices : CloseSocket(d)
  /\ UNCHANGED <<database, migration, process, status, rowStatus, client,
                 telemetry, worker, transition, missed, cut>>

\* If stop_all raised, the client is not closed; its own close may fail.
Aborted ==
  /\ phase = "aborting"
  /\ ToClose = {}
  /\ \/ errors /\ UNCHANGED <<bounds, client, stuck>>
     \/ ~errors /\ client' = FALSE /\ UNCHANGED <<bounds, stuck>>
     \/ /\ ~errors /\ UseFault
        /\ stuck' = stuck \cup {HttpClient} /\ UNCHANGED client
  /\ Enter("closed")
  /\ UNCHANGED <<database, migration, cursor, devices, rowStatus, telemetry,
                 worker, errors, transition, missed, cut>>

-----------------------------------------------------------------------------
(* Container.start *)

\* The old alarms are cleared (ScenarioLifecycle), then the tasks begin.
Serve ==
  /\ phase = "alarms"
  /\ worker' = "on" /\ telemetry' = TRUE
  /\ Enter("up")
  /\ UNCHANGED <<database, migration, bounds, cursor, devices, rowStatus, client,
                 errors, transition, history>>

BeginClose == Enter("closing") /\ cursor' = 1

\* An alarm cannot be cleared: the lifespan closes what it has.
StartFails ==
  /\ phase = "alarms"
  /\ UseFault
  /\ BeginClose
  /\ UNCHANGED <<database, migration, devices, rowStatus, services, transition,
                 history>>

-----------------------------------------------------------------------------
(* device_offline: set_device_status in a loop, and once more in a finally. *)

Running(label) == scenario = label /\ phase \in {"up", "closing"}
Turn(label) == scenario' = label /\ UNCHANGED <<target, final>>

RunEnds == scenario' = "idle" /\ target' = 1 /\ final' = FALSE

\* Mutant: the restoration is tried again when it is left.
Retries ==
  IF status'[target] = "offline" THEN Turn("goOnline") ELSE RunEnds

\* An error or a stop leaves run(); its finally brings an offline device back.
Leave ==
  IF status'[target] = "offline" /\ ~final
  THEN scenario' = "goOnline" /\ final' = TRUE /\ UNCHANGED target
  ELSE RunEnds

\* validate: "Target device must be online"
StartScenario(d) ==
  /\ phase = "up"
  /\ scenario = "idle"
  /\ d \in inventory \cap Targets /\ status[d] = "online"
  /\ scenario' = "goOffline" /\ target' = d /\ UNCHANGED final
  /\ UNCHANGED <<database, migration, bounds, process, devices, rowStatus,
                 services, history>>

\* stop_device drops the application before it suspends.  An override refuses
\* the transition; the refresh before it fails, and without an application it
\* fails for every device that has points.
GoOffline ==
  /\ Running("goOffline")
  /\ \/ /\ target \in apps /\ apps' = apps \ {target}
        /\ Turn("stopping") /\ UNCHANGED <<bounds, status>>
     \/ /\ target \notin apps /\ SetStatus(target, "offline")
        /\ Turn("offlineRow") /\ UNCHANGED <<bounds, apps>>
     \/ /\ UseFault \/ (target \notin apps /\ UNCHANGED bounds)
        /\ SetStatus(target, "error")
        /\ Turn("errorRow") /\ UNCHANGED apps
     \/ UNCHANGED <<bounds, apps, status>> /\ Leave
  /\ UNCHANGED <<database, migration, process, sock, rowStatus, services, history>>

\* start_device fails at once on an address that is taken, by a socket of its
\* own that is still open for instance.
GoOnline ==
  /\ Running("goOnline")
  /\ \/ /\ target \notin sock
        /\ apps' = apps \cup {target} /\ sock' = sock \cup {target}
        /\ Turn("starting") /\ UNCHANGED <<bounds, status>>
     \/ /\ UseFault \/ (target \in sock /\ UNCHANGED bounds)
        /\ SetStatus(target, "error")
        /\ Turn("errorRow") /\ UNCHANGED <<apps, sock>>
  /\ UNCHANGED <<database, migration, process, rowStatus, services, history>>

Started ==
  /\ Running("starting")
  /\ SetStatus(target, "online") /\ cut' = cut \ {target}
  /\ Turn("onlineRow")
  /\ UNCHANGED <<database, migration, bounds, process, apps, sock, rowStatus,
                 services, missed, stuck>>

\* The transport is not ready in time: start_device stops it again.
StartTimesOut ==
  /\ Running("starting")
  /\ UseFault
  /\ apps' = apps \ {target} /\ Turn("aborting")
  /\ UNCHANGED <<database, migration, process, sock, status, rowStatus, services,
                 history>>

\* stop_device is awaited: of a transition, of a start that timed out, of a
\* start that was stopped.
StopLabels == {"stopping", "aborting", "undoing"}

SocketStops ==
  /\ scenario \in StopLabels /\ Running(scenario)
  /\ sock' = sock \ {target}
  /\ \/ scenario = "stopping" /\ SetStatus(target, "offline") /\ Turn("offlineRow")
     \/ scenario = "aborting" /\ SetStatus(target, "error") /\ Turn("errorRow")
     \/ scenario = "undoing" /\ UNCHANGED status /\ Leave
  /\ UNCHANGED <<database, migration, bounds, process, apps, rowStatus, services,
                 history>>

SocketSticks ==
  /\ scenario \in StopLabels /\ Running(scenario)
  /\ UseFault
  /\ stuck' = stuck \cup {target}
  /\ SetStatus(target, "error") /\ Turn("errorRow")
  /\ UNCHANGED <<database, migration, process, apps, sock, rowStatus, services,
                 missed, cut>>

RowLabels == {"offlineRow", "onlineRow", "errorRow"}

\* update_status of the target commits.
StoreStatus ==
  /\ Store(disk.text, [rowStatus EXCEPT ![target] = status[target]])
  /\ missed' = missed \ {target}

\* The error of a transition is raised when it has been recorded.
WriteStatus ==
  /\ scenario \in RowLabels /\ Running(scenario)
  /\ StoreStatus
  /\ UNCHANGED status
  /\ CASE scenario = "offlineRow" -> Turn("offlineEvent")
       [] scenario = "onlineRow" -> Turn("onlineEvent")
       [] scenario = "errorRow" -> Leave
  /\ UNCHANGED <<migration, bounds, process, apps, sock, services, cut, stuck>>

\* publish(DeviceStatusChanged); the transition of the finally is the last.
PublishStatus ==
  /\ writer = None
  /\ \/ Running("offlineEvent") /\ Turn("offline")
     \/ Running("onlineEvent") /\ ~final /\ Turn("online")
     \/ Running("onlineEvent") /\ final /\ RunEnds
  /\ UNCHANGED <<database, migration, bounds, process, devices, rowStatus,
                 services, history>>

StatusFails ==
  /\ scenario \in RowLabels \cup {"offlineEvent", "onlineEvent"}
  /\ Running(scenario)
  /\ UseFault
  /\ missed' = IF scenario \in RowLabels THEN missed \cup {target} ELSE missed
  /\ UNCHANGED status /\ Leave
  /\ UNCHANGED <<database, migration, process, apps, sock, rowStatus, services,
                 cut, stuck>>

SleepEnds ==
  /\ \/ Running("offline") /\ Turn("goOnline")
     \/ Running("online") /\ Turn("goOffline")
  /\ UNCHANGED <<database, migration, bounds, process, devices, rowStatus,
                 services, history>>

(***************************************************************************)
(* A stop cancels the run at the await it is at, in the finally too.       *)
(***************************************************************************)
StopRun ==
  /\ Running(scenario)
  /\ \/ \* at a lock, a sleep, inside publish
        /\ scenario \in {"goOffline", "goOnline", "offlineEvent", "offline",
                         "onlineEvent", "online"}
        /\ UNCHANGED <<database, devices, rowStatus, history>> /\ Leave
     \/ \* inside stop_device, before or after it has closed the socket
        /\ scenario \in StopLabels
        /\ sock' \in {sock, sock \ {target}} /\ cut' = cut \cup {target}
        /\ UNCHANGED <<database, apps, status, rowStatus, missed, stuck>> /\ Leave
     \/ \* inside start_device, which stops what it has started
        /\ scenario = "starting"
        /\ apps' = apps \ {target} /\ Turn("undoing")
        /\ UNCHANGED <<database, sock, status, rowStatus, history>>
     \/ \* inside update_status, which has committed or not
        /\ scenario \in RowLabels
        /\ \/ StoreStatus
           \/ missed' = missed \cup {target} /\ UNCHANGED <<database, rowStatus>>
        /\ UNCHANGED <<devices, cut, stuck>> /\ Leave
  /\ UNCHANGED <<migration, bounds, process, services>>

-----------------------------------------------------------------------------
(* Container.close *)

\* Mutant: the outbox is stopped before those who publish.
OutboxFirst == <<"worker", "scenarios", "telemetry", "devices", "client">>

CloseOrder == <<"scenarios", "telemetry", "worker", "devices", "client">>

\* The server is told to stop.
Close ==
  /\ phase = "up"
  /\ BeginClose
  /\ UNCHANGED <<database, migration, bounds, devices, rowStatus, services,
                 transition, history>>

Closing(step) ==
  phase = "closing" /\ cursor <= Len(CloseOrder) /\ CloseOrder[cursor] = step

AfterFailure == cursor' = cursor + 1 /\ UNCHANGED <<phase, inventory>>

NextStep == cursor' = cursor + 1 /\ UNCHANGED <<phase, inventory>>

\* stop_all returns, or raises, when every run is over.
ScenariosStopped ==
  /\ Closing("scenarios")
  /\ scenario = "idle"
  /\ \/ NextStep /\ UNCHANGED bounds
     \/ AfterFailure /\ UseFault
  /\ UNCHANGED <<database, migration, devices, rowStatus, services, transition,
                 history>>

TelemetryStopped ==
  /\ Closing("telemetry")
  /\ telemetry' = FALSE
  /\ NextStep
  /\ UNCHANGED <<database, migration, bounds, devices, rowStatus, client, worker,
                 errors, transition, history>>

\* stop() lets the batch end, or cancels it after fifteen seconds.
StopWorker ==
  /\ Closing("worker")
  /\ \/ worker = "on" /\ worker' = "stopping" /\ UNCHANGED process
     \/ worker \in {"off", "stopping"} /\ worker' = "off" /\ NextStep
  /\ UNCHANGED <<database, migration, bounds, devices, rowStatus, client, telemetry,
                 errors, transition, history>>

SocketsClosed ==
  /\ Closing("devices")
  /\ ToClose = {}
  /\ IF errors THEN AfterFailure ELSE NextStep
  /\ UNCHANGED <<database, migration, bounds, devices, rowStatus, services,
                 transition, history>>

ClientClosed ==
  /\ Closing("client")
  /\ \/ client' = FALSE /\ UNCHANGED <<bounds, stuck>>
        /\ NextStep
     \/ UseFault /\ stuck' = stuck \cup {HttpClient} /\ UNCHANGED client
        /\ AfterFailure
  /\ UNCHANGED <<database, migration, devices, rowStatus, telemetry, worker,
                 errors, transition, missed, cut>>

Closed ==
  /\ phase = "closing" /\ cursor > Len(CloseOrder)
  /\ Enter("closed")
  /\ UNCHANGED <<database, migration, bounds, cursor, devices, rowStatus, services,
                 transition, history>>

-----------------------------------------------------------------------------
Crash ==
  /\ phase \notin {"down", "closed"}
  /\ UseCrash
  /\ Enter("down")
  /\ FreshMemory
  /\ Dies(App)
  /\ UNCHANGED rowStatus

container == <<process, devices, rowStatus, services, transition, history>>

\* Another program on the same file: it migrates it once, as this one does.
Rival(m) ==
  /\ m # App
  /\ \/ at[m] = "idle" /\ Connect(m)
     \/ MigrationStep(m)
     \/ MigrationFails(m)
     \/ at[m] # "idle" /\ UseCrash /\ Dies(m)
  /\ UNCHANGED container

Init ==
  /\ MigrationInit
  /\ phase = "down" /\ inventory = {} /\ cursor = 0
  /\ apps = {} /\ sock = {} /\ status = [d \in Devices |-> NoStatus]
  /\ rowStatus = [d \in Devices |->
       IF disk.text[d] = NoRow THEN NoStatus ELSE "online"]
  /\ client = FALSE /\ telemetry = FALSE /\ worker = "off" /\ errors = FALSE
  /\ scenario = "idle" /\ target = 1 /\ final = FALSE
  /\ missed = {} /\ cut = {} /\ stuck = {}

ScenarioStep ==
  \/ GoOffline \/ GoOnline \/ Started \/ SocketStops
  \/ WriteStatus \/ PublishStatus \/ SleepEnds

\* Steps the program takes by itself.
ContainerStep ==
  \/ MigrationStep(App) /\ UNCHANGED container
  \/ Migrated
  \/ \E d \in Devices : StartDevice(d) \/ SaveDevice(d)
  \/ Reconcile \/ Aborted \/ Serve
  \/ (phase = "aborting" \/ Closing("devices")) /\ StopAll
  \/ Closing("scenarios") /\ StopRun
  \/ ScenariosStopped \/ TelemetryStopped \/ StopWorker \/ SocketsClosed
  \/ ClientClosed \/ Closed

Fails ==
  \/ MigrationFails(App) /\ UNCHANGED container
  \/ InitializeFails \/ StartFails
  \/ StartTimesOut \/ SocketSticks \/ StatusFails

Next ==
  \/ Boot \/ Close \/ Crash \/ Fails \/ StopRun
  \/ ContainerStep \/ ScenarioStep
  \/ \E d \in Devices : StartScenario(d)
  \/ \E m \in Processes : Rival(m)

Spec == Init /\ [][Next]_vars

(***************************************************************************)
(* The event loop runs what is ready, SQLite and timers answer, and a      *)
(* process inside a transaction goes on until it commits or dies.  Nobody  *)
(* has to start, to stop or to fail.                                       *)
(***************************************************************************)
Fairness ==
  /\ WF_vars(ContainerStep)
  /\ WF_vars(ScenarioStep)
  /\ \A m \in Processes \ {App} : WF_vars(MigrationStep(m) /\ UNCHANGED container)

FairSpec == Spec /\ Fairness
=============================================================================
