-------------------------- MODULE ContainerProofs ---------------------------
(***************************************************************************)
(* The program around its services, for every instance: types, what is     *)
(* open at each stage, the rows of the devices, and that the file is the   *)
(* Database it promises to be.                                             *)
(***************************************************************************)
EXTENDS MigrationProofs, WellFoundedInduction

AppType ==
  /\ phase \in {"down", "migrating", "devices", "aborting", "alarms", "up",
                "closing", "closed"}
  /\ inventory \subseteq Devices
  /\ cursor \in 0..(ND + 1) \cup 1..6
  /\ apps \subseteq Devices /\ sock \subseteq Devices
  /\ status \in [Devices -> Statuses \cup {NoStatus}]
  /\ rowStatus \in [Devices -> Statuses \cup {NoStatus}]
  /\ client \in BOOLEAN /\ telemetry \in BOOLEAN
  /\ worker \in {"off", "on", "stopping"} /\ errors \in BOOLEAN
  /\ scenario \in ScenarioLabels
  /\ target \in Devices /\ final \in BOOLEAN
  /\ missed \subseteq Devices /\ cut \subseteq Devices
  /\ stuck \subseteq Devices \cup {HttpClient}

Resting == scenario = "idle" /\ telemetry = FALSE /\ worker = "off"

\* What is open, and who works, in each phase of the lifespan.
StageInv ==
  /\ phase \in {"devices", "aborting", "alarms", "up", "closing"} => at[App] = "done"
  /\ phase \in {"down", "migrating"} =>
       Resting /\ apps = {} /\ sock = {} /\ client = FALSE /\ stuck = {}
  /\ phase \in {"devices", "aborting", "alarms"} => Resting /\ client = TRUE
  /\ phase = "up" => worker = "on" /\ client = TRUE
  /\ phase = "closing" =>
       /\ cursor \in 1..6
       /\ cursor > 1 => scenario = "idle"
       /\ cursor > 2 => telemetry = FALSE
       /\ cursor > 3 => worker = "off"
       /\ cursor > 4 => apps = {}
       /\ cursor <= 5 => client = TRUE
       /\ cursor > 5 /\ client = TRUE => HttpClient \in stuck
       /\ scenario # "idle" \/ telemetry = TRUE => worker = "on"
  /\ phase = "closed" =>
       /\ Resting /\ apps = {}
       /\ (client = TRUE => errors = TRUE \/ HttpClient \in stuck)

\* Where the target of a transition is offline.
OfflineLabels ==
  {"offlineRow", "offlineEvent", "offline", "goOnline", "starting", "aborting",
   "undoing"}

\* What has an application has a socket, a socket without one is being closed or
\* was given up, and what is online has both until the sockets are closed.
SocketInv ==
  /\ apps \subseteq sock
  /\ \A d \in sock \ apps : \/ scenario \in StopLabels /\ target = d
                           \/ d \in stuck \cup cut
  /\ scenario = "starting" => target \in apps
  /\ scenario \in StopLabels => target \notin apps
  /\ scenario \in OfflineLabels => status[target] = "offline"
  /\ \/ phase \in {"down", "migrating", "devices", "alarms", "up"}
     \/ phase = "closing" /\ cursor <= 3
     => \A d \in Devices : status[d] = "online" =>
          d \in apps \/ d \in cut \/ (scenario = "stopping" /\ target = d)

Moving(d) == scenario \in RowLabels /\ target = d

\* The rows of the devices that have been initialized, and then of all.
RowInv ==
  /\ phase = "migrating" => status = [d \in Devices |-> NoStatus]
  /\ phase \in {"migrating", "devices", "alarms"} => missed = {}
  /\ phase \in {"devices", "alarms"} =>
       \A d \in Devices \ inventory : status[d] = NoStatus
  /\ phase = "devices" =>
       \A d \in inventory : d < cursor => disk.text[d] # NoRow /\ rowStatus[d] = status[d]
  /\ phase \in {"alarms", "up", "closing"} =>
       \A d \in Devices :
         /\ disk.text[d] # NoRow <=> d \in inventory
         /\ Moving(d) \/ d \in missed \/ rowStatus[d] = status[d]

ContainerInv == MigrationInv /\ AppType /\ StageInv /\ SocketInv /\ RowInv

-----------------------------------------------------------------------------
(* Small facts *)

\* The five steps of closing, and where each of them is.
LEMMA ClosingSteps ==
  /\ Len(CloseOrder) = 5
  /\ StageInv =>
       /\ Closing("scenarios") <=> phase = "closing" /\ cursor = 1
       /\ Closing("telemetry") <=> phase = "closing" /\ cursor = 2
       /\ Closing("worker") <=> phase = "closing" /\ cursor = 3
       /\ Closing("devices") <=> phase = "closing" /\ cursor = 4
       /\ Closing("client") <=> phase = "closing" /\ cursor = 5
<1>1. Len(CloseOrder) = 5
  BY DEF CloseOrder
<1>2. ASSUME StageInv
      PROVE  /\ Closing("scenarios") <=> phase = "closing" /\ cursor = 1
             /\ Closing("telemetry") <=> phase = "closing" /\ cursor = 2
             /\ Closing("worker") <=> phase = "closing" /\ cursor = 3
             /\ Closing("devices") <=> phase = "closing" /\ cursor = 4
             /\ Closing("client") <=> phase = "closing" /\ cursor = 5
  <2>1. CASE phase # "closing"
    BY <2>1 DEF Closing
  <2>2. CASE phase = "closing"
    <3>1. cursor \in 1..6
      BY <1>2, <2>2 DEF StageInv
    <3>2. CASE cursor = 6
      BY <1>1, <3>2 DEF Closing
    <3>3. CASE cursor \in 1..5
      BY <1>1, <2>2, <3>3 DEF Closing, CloseOrder
    <3> QED BY <3>1, <3>2, <3>3
  <2> QED BY <2>1, <2>2
<1> QED BY <1>1, <1>2

\* initialize_devices goes on with the next device of the inventory.
LEMMA FollowingDevice ==
  ASSUME inventory \subseteq Devices, NEW d \in 0..ND
  PROVE  /\ Following(d) \in 1..(ND + 1) /\ Following(d) > d
         /\ \A f \in inventory : f > d => Following(d) <= f
<1> DEFINE Later == {e \in 1..(ND + 1) : e > d /\ (e \in inventory \/ e = ND + 1)}
<1>1. ND \in Nat
  BY ContainerAssumption
<1>2. Later \subseteq Nat /\ ND + 1 \in Later
  BY <1>1
<1>3. PICK e \in Later : \A f \in Later : ~ (<<f, e>> \in OpToRel(<, Nat))
  <2> HIDE DEF Later
  <2> QED BY <1>2, NatLessThanWellFounded, WFMin
<1>4. \A f \in Later : e <= f
  <2> SUFFICES ASSUME NEW f \in Later, ~ (e <= f) PROVE FALSE
    OBVIOUS
  <2>1. f \in Nat /\ e \in Nat /\ f < e
    BY <1>2
  <2>2. <<f, e>> \in OpToRel(<, Nat)
    BY <2>1 DEF OpToRel
  <2> QED BY <1>3, <2>2
<1>5. \A f \in inventory : f > d => e <= f
  BY <1>1, <1>4 DEF Devices
<1>6. \E x \in 1..(ND + 1) :
        /\ x > d /\ (x \in inventory \/ x = ND + 1)
        /\ \A f \in inventory : f > d => x <= f
  BY <1>5
<1> QED BY <1>6 DEF Following

-----------------------------------------------------------------------------
(* The steps of Next, in three groups. *)

\* Steps of the application that do not touch the file.
MemoryStep ==
  \/ Migrated \/ (\E d \in Devices : StartDevice(d)) \/ InitializeFails
  \/ (phase = "aborting" \/ Closing("devices")) /\ StopAll
  \/ Aborted \/ Serve \/ StartFails
  \/ (\E d \in Devices : StartScenario(d)) \/ GoOffline \/ GoOnline
  \/ Started \/ StartTimesOut \/ SocketStops \/ SocketSticks
  \/ PublishStatus \/ StatusFails \/ SleepEnds
  \/ StopRun /\ UNCHANGED database
  \/ Close \/ ScenariosStopped \/ TelemetryStopped \/ StopWorker
  \/ SocketsClosed \/ ClientClosed \/ Closed

\* Its transactions.
StoreStep ==
  \/ (\E d \in Devices : SaveDevice(d)) \/ Reconcile \/ WriteStatus
  \/ StopRun /\ StoreStatus

\* Steps of a migration, with the application as it is.
FileStep ==
  /\ UNCHANGED container
  /\ \/ MigrationStep(App) \/ MigrationFails(App)
     \/ \E m \in Processes \ {App} :
          \/ Connect(m) \/ MigrationStep(m) \/ MigrationFails(m)
          \/ UseCrash /\ Dies(m)

LEMMA Steps == Next => MemoryStep \/ StoreStep \/ FileStep \/ Boot \/ Crash
<1>1. ASSUME NEW m \in Processes, Rival(m) PROVE FileStep
  BY <1>1 DEF Rival, FileStep
<1>2. Fails => MemoryStep \/ FileStep
  BY DEF Fails, MemoryStep, FileStep
<1>6. StopRun => MemoryStep \/ StoreStep
  BY DEF StopRun, MemoryStep, StoreStep
<1>3. ContainerStep => MemoryStep \/ StoreStep \/ FileStep
  BY <1>6 DEF ContainerStep, MemoryStep, StoreStep, FileStep
<1>4. ScenarioStep => MemoryStep \/ StoreStep
  BY DEF ScenarioStep, MemoryStep, StoreStep
<1>5. Close \/ (\E d \in Devices : StartScenario(d)) => MemoryStep
  BY DEF MemoryStep
<1> QED BY <1>1, <1>2, <1>3, <1>4, <1>5, <1>6 DEF Next

LEMMA MemoryStepLeavesFile ==
  ASSUME MigrationInv, MemoryStep
  PROVE  /\ UNCHANGED <<database, migration>>
         /\ faults' \in 0..MaxFaults /\ crashes' \in 0..MaxCrashes
<1> USE MigrationAssumption DEF MigrationInv, MigrationType, UseFault, bounds
<1>1. CASE Migrated
  BY <1>1 DEF Migrated
<1>2. ASSUME NEW d \in Devices, StartDevice(d)
      PROVE  /\ UNCHANGED <<database, migration>>
             /\ faults' \in 0..MaxFaults /\ crashes' \in 0..MaxCrashes
  BY <1>2 DEF StartDevice
<1>3. CASE InitializeFails
  BY <1>3 DEF InitializeFails
<1>4. CASE StopAll
  BY <1>4 DEF StopAll, CloseSocket
<1>5. CASE Aborted
  BY <1>5 DEF Aborted
<1>6. CASE Serve
  BY <1>6 DEF Serve
<1>7. CASE StartFails
  BY <1>7 DEF StartFails
<1>8. ASSUME NEW d \in Devices, StartScenario(d)
      PROVE  /\ UNCHANGED <<database, migration>>
             /\ faults' \in 0..MaxFaults /\ crashes' \in 0..MaxCrashes
  BY <1>8 DEF StartScenario
<1>9. CASE GoOffline
  BY <1>9 DEF GoOffline
<1>10. CASE GoOnline
  BY <1>10 DEF GoOnline
<1>11. CASE PublishStatus
  BY <1>11 DEF PublishStatus
<1>12. CASE StatusFails
  BY <1>12 DEF StatusFails
<1>13. CASE SleepEnds
  BY <1>13 DEF SleepEnds
<1>14. CASE Close
  BY <1>14 DEF Close
<1>15. CASE ScenariosStopped
  BY <1>15 DEF ScenariosStopped
<1>16. CASE TelemetryStopped
  BY <1>16 DEF TelemetryStopped
<1>17. CASE StopWorker
  BY <1>17 DEF StopWorker
<1>18. CASE SocketsClosed
  BY <1>18 DEF SocketsClosed
<1>19. CASE ClientClosed
  BY <1>19 DEF ClientClosed
<1>20. CASE Closed
  BY <1>20 DEF Closed
<1>21. CASE Started
  BY <1>21 DEF Started
<1>22. CASE StartTimesOut
  BY <1>22 DEF StartTimesOut
<1>23. CASE SocketStops
  BY <1>23 DEF SocketStops
<1>24. CASE SocketSticks
  BY <1>24 DEF SocketSticks
<1>25. CASE StopRun /\ UNCHANGED database
  BY <1>25 DEF StopRun
<1> QED BY <1>1, <1>2, <1>3, <1>4, <1>5, <1>6, <1>7, <1>8, <1>9, <1>10, <1>11, <1>12,
        <1>13, <1>14, <1>15, <1>16, <1>17, <1>18, <1>19, <1>20, <1>21, <1>22, <1>23,
        <1>24, <1>25 DEF MemoryStep

Used ==
  /\ disk.version = Current /\ disk'.version = Current /\ disk'.schema = disk.schema
  /\ disk'.text \in [Rows -> JsonTexts \cup {NoRow}]

\* What any step does to the file.
LEMMA FileIsKept ==
  ASSUME MigrationInv, AppType, StageInv, [Next]_vars
  PROVE  MigrationInv' /\ (disk' = disk \/ Upgraded \/ Used)
<1>1. ASSUME UNCHANGED <<database, migration>>,
             faults' \in 0..MaxFaults, crashes' \in 0..MaxCrashes
      PROVE  MigrationInv' /\ disk' = disk
  <2> USE <1>1 DEF database, migration
  <2>1. MigrationType'
    BY DEF MigrationInv, MigrationType
  <2>2. FileInv' /\ SawInv'
    BY DEF MigrationInv, FileInv, SawInv
  <2>3. WorkInv'
    BY DEF MigrationInv, WorkInv, WorkOf, Holds, Converted
  <2> QED BY <2>1, <2>2, <2>3 DEF MigrationInv
<1>2. CASE MemoryStep
  BY <1>1, <1>2, MemoryStepLeavesFile
<1>3. CASE UNCHANGED vars
  BY <1>1, <1>3 DEF vars, bounds, MigrationInv, MigrationType
<1>4. CASE FileStep \/ Boot \/ Crash
  <2>1. \E m \in Processes :
          \/ Connect(m) \/ MigrationStep(m) \/ MigrationFails(m)
          \/ UseCrash /\ Dies(m)
    BY <1>4, ContainerAssumption DEF FileStep, Boot, Crash
  <2> QED BY <2>1, ProcessKeeps
<1>5. CASE StoreStep
  <2>1. phase \in {"devices", "up", "closing"}
    BY <1>5 DEF StoreStep, SaveDevice, Initializing, Reconcile, WriteStatus, StopRun,
                Running
  <2>2. disk.version = Current /\ \A r \in Rows : disk.text[r] \in JsonTexts \cup {NoRow}
    BY <2>1, ContainerAssumption DEF MigrationInv, StageInv, SawInv, FileInv, Current
  <2>3. disk.text \in [Rows -> JsonTexts \cup {NoRow}]
    BY <2>2 DEF MigrationInv, MigrationType, FileType
  <2>4. \E text \in [Rows -> JsonTexts \cup {NoRow}], st \in {rowStatus'} :
          Store(text, st) /\ UNCHANGED <<migration, bounds>>
    <3>1. ASSUME NEW d \in Devices, SaveDevice(d)
          PROVE  Store([disk.text EXCEPT ![d] = "21.5"], rowStatus')
      BY <3>1 DEF SaveDevice, Store
    <3>2. ASSUME NEW d \in Devices
          PROVE  [disk.text EXCEPT ![d] = "21.5"] \in [Rows -> JsonTexts \cup {NoRow}]
      BY <2>3 DEF JsonTexts
    <3>3. CASE \E d \in Devices : SaveDevice(d)
      BY <3>1, <3>2, <3>3 DEF SaveDevice
    <3>4. CASE Reconcile
      <4> DEFINE t == [d \in Devices |-> IF InInventory(d) THEN disk.text[d] ELSE NoRow]
      <4>1. t \in [Rows -> JsonTexts \cup {NoRow}]
        BY <2>3, ContainerAssumption
      <4>2. Store(t, rowStatus')
        BY <3>4 DEF Reconcile, Store
      <4> QED BY <3>4, <4>1, <4>2 DEF Reconcile
    <3>5. CASE WriteStatus
      BY <2>3, <3>5 DEF WriteStatus, StoreStatus, Store
    <3>6. CASE StopRun /\ StoreStatus
      BY <2>3, <3>6 DEF StopRun, StoreStatus, Store
    <3> QED BY <1>5, <3>3, <3>4, <3>5, <3>6 DEF StoreStep
  <2>5. PICK text \in [Rows -> JsonTexts \cup {NoRow}] :
          Store(text, rowStatus') /\ UNCHANGED <<migration, bounds>>
    BY <2>4
  <2> QED BY <2>2, <2>5, StoreKeeps DEF Used
<1> QED BY <1>2, <1>3, <1>4, <1>5, Steps

-----------------------------------------------------------------------------
(* Each step keeps types, stages, sockets and rows. *)

LEMMA MigratedKeeps ==
  ASSUME ContainerInv, Migrated
  PROVE  AppType' /\ StageInv' /\ SocketInv' /\ RowInv'
<1> USE ContainerAssumption, ClosingSteps
        DEF ContainerInv, AppType, Migrated, Enter, process, devices, services,
            transition, history, database, migration, bounds
<1>0. /\ Following(0) \in 1..(ND + 1) /\ Following(0) > 0
      /\ \A f \in inventory : f > 0 => Following(0) <= f
  BY FollowingDevice DEF Devices
<1>1. AppType'
  <2>1. cursor' \in 0..(ND + 1) \cup 1..6
    BY <1>0 DEF Devices
  <2> QED BY <2>1 DEF Statuses, ScenarioLabels, RowLabels, StopLabels
<1>2. StageInv'
  BY DEF StageInv, Resting
<1>3. SocketInv'
  BY DEF SocketInv, StageInv, Resting, NoStatus, StopLabels, OfflineLabels
<1>4. RowInv'
  <2>1. \A f \in inventory : ~ (f < Following(0))
    BY <1>0 DEF Devices
  <2> QED BY <2>1 DEF RowInv, StageInv, Resting
<1> QED BY <1>1, <1>2, <1>3, <1>4

LEMMA StartDeviceKeeps ==
  ASSUME ContainerInv, NEW d \in Devices, StartDevice(d)
  PROVE  AppType' /\ StageInv' /\ SocketInv' /\ RowInv'
<1> USE ContainerAssumption, ClosingSteps
        DEF ContainerInv, AppType, StartDevice, Initializing, SetStatus, process,
            devices, services, transition, history, database, migration, bounds
<1>1. AppType'
  <2>1. cursor' \in 0..(ND + 1) \cup 1..6
    BY DEF Devices
  <2> QED BY <2>1 DEF Statuses, ScenarioLabels, RowLabels, StopLabels
<1>2. StageInv'
  BY DEF StageInv, Resting
<1>3. SocketInv'
  BY DEF SocketInv, StageInv, Resting, NoStatus, StopLabels, OfflineLabels
<1>4. RowInv'
  BY DEF RowInv, StageInv, Moving, Resting, RowLabels, Devices
<1> QED BY <1>1, <1>2, <1>3, <1>4

LEMMA SaveDeviceKeeps ==
  ASSUME ContainerInv, NEW d \in Devices, SaveDevice(d)
  PROVE  AppType' /\ StageInv' /\ SocketInv' /\ RowInv'
<1> USE ContainerAssumption, ClosingSteps
        DEF ContainerInv, AppType, SaveDevice, Initializing, Store, process, devices,
            services, transition, history, database, migration, bounds
<1>0. /\ Following(d) \in 1..(ND + 1) /\ Following(d) > d
      /\ \A f \in inventory : f > d => Following(d) <= f
  BY FollowingDevice DEF Devices
<1>1. AppType'
  <2>1. cursor' \in 0..(ND + 1) \cup 1..6
    BY <1>0 DEF Devices
  <2> QED BY <2>1 DEF Statuses, ScenarioLabels, RowLabels, StopLabels
<1>2. StageInv'
  BY DEF StageInv, Resting
<1>3. SocketInv'
  BY DEF SocketInv, StageInv, Resting, NoStatus, StopLabels, OfflineLabels
<1>4. RowInv'
  <2>1. \A f \in inventory : f < Following(d) => f = d \/ f < d
    BY <1>0 DEF Devices
  <2>2. disk.text \in [Devices -> V1Texts \cup JsonTexts \cup {NoRow}]
    BY DEF MigrationInv, MigrationType, FileType
  <2>3. /\ disk'.text[d] = "21.5" /\ rowStatus'[d] = status[d]
        /\ \A f \in inventory \ {d} :
             disk'.text[f] = disk.text[f] /\ rowStatus'[f] = rowStatus[f]
    BY <2>2 DEF MigrationInv, MigrationType, FileType
  <2>4. \A f \in inventory : f < cursor' => disk'.text[f] # NoRow /\ rowStatus'[f] = status'[f]
    BY <2>1, <2>3 DEF RowInv, NoRow
  <2> QED BY <2>4 DEF RowInv, StageInv, Resting
<1> QED BY <1>1, <1>2, <1>3, <1>4

LEMMA ReconcileKeeps ==
  ASSUME ContainerInv, Reconcile
  PROVE  AppType' /\ StageInv' /\ SocketInv' /\ RowInv'
<1> USE ContainerAssumption, ClosingSteps
        DEF ContainerInv, AppType, Reconcile, Enter, Store, InInventory, process,
            devices, services, transition, history, database, migration, bounds
<1>1. AppType'
  <2>1. cursor' \in 0..(ND + 1) \cup 1..6
    BY DEF Devices
  <2> QED BY <2>1 DEF Statuses, ScenarioLabels, RowLabels, StopLabels
<1>2. StageInv'
  BY DEF StageInv, Resting
<1>3. SocketInv'
  BY DEF SocketInv, StageInv, Resting, NoStatus, StopLabels, OfflineLabels
<1>4. RowInv'
  BY DEF RowInv, StageInv, Moving, Resting, RowLabels, Devices, MigrationInv,
     MigrationType, FileType
<1> QED BY <1>1, <1>2, <1>3, <1>4

LEMMA InitializeFailsKeeps ==
  ASSUME ContainerInv, InitializeFails
  PROVE  AppType' /\ StageInv' /\ SocketInv' /\ RowInv'
<1> USE ContainerAssumption, ClosingSteps
        DEF ContainerInv, AppType, InitializeFails, Enter, process, devices, services,
            transition, history, database, migration, bounds
<1>1. AppType'
  <2>1. cursor' \in 0..(ND + 1) \cup 1..6
    BY DEF Devices
  <2> QED BY <2>1 DEF Statuses, ScenarioLabels, RowLabels, StopLabels
<1>2. StageInv'
  BY DEF StageInv, Resting
<1>3. SocketInv'
  BY DEF SocketInv, StageInv, Resting, NoStatus, StopLabels, OfflineLabels
<1>4. RowInv'
  BY DEF RowInv, StageInv, Moving, Resting, RowLabels, Devices
<1> QED BY <1>1, <1>2, <1>3, <1>4

LEMMA StopAllKeeps ==
  ASSUME ContainerInv, phase = "aborting" \/ Closing("devices"), StopAll
  PROVE  AppType' /\ StageInv' /\ SocketInv' /\ RowInv'
<1> USE ContainerAssumption, ClosingSteps
        DEF ContainerInv, AppType, StopAll, CloseSocket, ToClose, process, devices,
            services, transition, history, database, migration, bounds
<1>1. AppType'
  <2>1. cursor' \in 0..(ND + 1) \cup 1..6
    BY DEF Devices
  <2> QED BY <2>1 DEF Statuses, ScenarioLabels, RowLabels, StopLabels
<1>2. StageInv'
  BY DEF StageInv, Resting
<1>3. SocketInv'
  BY DEF SocketInv, StageInv, Resting, NoStatus, StopLabels, OfflineLabels
<1>4. RowInv'
  BY DEF RowInv, StageInv, Moving, Resting, RowLabels, Devices
<1> QED BY <1>1, <1>2, <1>3, <1>4

LEMMA AbortedKeeps ==
  ASSUME ContainerInv, Aborted
  PROVE  AppType' /\ StageInv' /\ SocketInv' /\ RowInv'
<1> USE ContainerAssumption, ClosingSteps
        DEF ContainerInv, AppType, Aborted, Enter, ToClose, process, devices, services,
            transition, history, database, migration, bounds
<1>1. AppType'
  <2>1. cursor' \in 0..(ND + 1) \cup 1..6
    BY DEF Devices
  <2> QED BY <2>1 DEF Statuses, ScenarioLabels, RowLabels, StopLabels
<1>2. StageInv'
  BY DEF StageInv, Resting
<1>3. SocketInv'
  BY DEF SocketInv, StageInv, Resting, NoStatus, StopLabels, OfflineLabels
<1>4. RowInv'
  BY DEF RowInv, StageInv, Moving, Resting, RowLabels, Devices
<1> QED BY <1>1, <1>2, <1>3, <1>4

LEMMA ServeKeeps ==
  ASSUME ContainerInv, Serve
  PROVE  AppType' /\ StageInv' /\ SocketInv' /\ RowInv'
<1> USE ContainerAssumption, ClosingSteps
        DEF ContainerInv, AppType, Serve, Enter, process, devices, services, transition,
            history, database, migration, bounds
<1>1. AppType'
  <2>1. cursor' \in 0..(ND + 1) \cup 1..6
    BY DEF Devices
  <2> QED BY <2>1 DEF Statuses, ScenarioLabels, RowLabels, StopLabels
<1>2. StageInv'
  BY DEF StageInv, Resting
<1>3. SocketInv'
  BY DEF SocketInv, StageInv, Resting, NoStatus, StopLabels, OfflineLabels
<1>4. RowInv'
  BY DEF RowInv, StageInv, Moving, Resting, RowLabels, Devices
<1> QED BY <1>1, <1>2, <1>3, <1>4

LEMMA StartFailsKeeps ==
  ASSUME ContainerInv, StartFails
  PROVE  AppType' /\ StageInv' /\ SocketInv' /\ RowInv'
<1> USE ContainerAssumption, ClosingSteps
        DEF ContainerInv, AppType, StartFails, Enter, BeginClose, process, devices,
            services, transition, history, database, migration, bounds
<1>1. AppType'
  <2>1. cursor' \in 0..(ND + 1) \cup 1..6
    BY DEF Devices
  <2> QED BY <2>1 DEF Statuses, ScenarioLabels, RowLabels, StopLabels
<1>2. StageInv'
  BY DEF StageInv, Resting
<1>3. SocketInv'
  BY DEF SocketInv, StageInv, Resting, NoStatus, StopLabels, OfflineLabels
<1>4. RowInv'
  BY DEF RowInv, StageInv, Moving, Resting, RowLabels, Devices
<1> QED BY <1>1, <1>2, <1>3, <1>4

LEMMA StartScenarioKeeps ==
  ASSUME ContainerInv, NEW d \in Devices, StartScenario(d)
  PROVE  AppType' /\ StageInv' /\ SocketInv' /\ RowInv'
<1> USE ContainerAssumption, ClosingSteps
        DEF ContainerInv, AppType, StartScenario, process, devices, services,
            transition, history, database, migration, bounds
<1>1. AppType'
  <2>1. cursor' \in 0..(ND + 1) \cup 1..6
    BY DEF Devices
  <2> QED BY <2>1 DEF Statuses, ScenarioLabels, RowLabels, StopLabels
<1>2. StageInv'
  BY DEF StageInv, Resting
<1>3. SocketInv'
  BY DEF SocketInv, StageInv, Resting, NoStatus, StopLabels, OfflineLabels
<1>4. RowInv'
  BY DEF RowInv, StageInv, Moving, Resting, RowLabels, Devices
<1> QED BY <1>1, <1>2, <1>3, <1>4

LEMMA GoOfflineKeeps ==
  ASSUME ContainerInv, GoOffline
  PROVE  AppType' /\ StageInv' /\ SocketInv' /\ RowInv'
<1> USE ContainerAssumption, ClosingSteps
        DEF ContainerInv, AppType, GoOffline, Running, Turn, Leave, RunEnds, SetStatus,
            process, devices, services, transition, history, database, migration,
            bounds
<1>1. AppType'
  <2>1. cursor' \in 0..(ND + 1) \cup 1..6 /\ 1 \in Devices
    BY DEF Devices
  <2> QED BY <2>1 DEF Statuses, ScenarioLabels, RowLabels, StopLabels
<1>2. StageInv'
  BY DEF StageInv, Resting, StopLabels, RowLabels
<1>3. SocketInv'
  BY DEF SocketInv, StageInv, Resting, NoStatus, StopLabels, OfflineLabels, RowLabels
<1>4. RowInv'
  BY DEF RowInv, StageInv, Moving, Resting, RowLabels, StopLabels, Devices
<1> QED BY <1>1, <1>2, <1>3, <1>4

LEMMA GoOnlineKeeps ==
  ASSUME ContainerInv, GoOnline
  PROVE  AppType' /\ StageInv' /\ SocketInv' /\ RowInv'
<1> USE ContainerAssumption, ClosingSteps
        DEF ContainerInv, AppType, GoOnline, Running, Turn, SetStatus, process, devices,
            services, transition, history, database, migration, bounds
<1>1. AppType'
  <2>1. cursor' \in 0..(ND + 1) \cup 1..6 /\ 1 \in Devices
    BY DEF Devices
  <2> QED BY <2>1 DEF Statuses, ScenarioLabels, RowLabels, StopLabels
<1>2. StageInv'
  BY DEF StageInv, Resting, StopLabels, RowLabels
<1>3. SocketInv'
  BY DEF SocketInv, StageInv, Resting, NoStatus, StopLabels, OfflineLabels, RowLabels
<1>4. RowInv'
  BY DEF RowInv, StageInv, Moving, Resting, RowLabels, StopLabels, Devices
<1> QED BY <1>1, <1>2, <1>3, <1>4

LEMMA StartedKeeps ==
  ASSUME ContainerInv, Started
  PROVE  AppType' /\ StageInv' /\ SocketInv' /\ RowInv'
<1> USE ContainerAssumption, ClosingSteps
        DEF ContainerInv, AppType, Started, Running, Turn, SetStatus, process, devices,
            services, transition, history, database, migration, bounds
<1>1. AppType'
  <2>1. cursor' \in 0..(ND + 1) \cup 1..6 /\ 1 \in Devices
    BY DEF Devices
  <2> QED BY <2>1 DEF Statuses, ScenarioLabels, RowLabels, StopLabels
<1>2. StageInv'
  BY DEF StageInv, Resting, StopLabels, RowLabels
<1>3. SocketInv'
  BY DEF SocketInv, StageInv, Resting, NoStatus, StopLabels, OfflineLabels, RowLabels
<1>4. RowInv'
  BY DEF RowInv, StageInv, Moving, Resting, RowLabels, StopLabels, Devices
<1> QED BY <1>1, <1>2, <1>3, <1>4

LEMMA StartTimesOutKeeps ==
  ASSUME ContainerInv, StartTimesOut
  PROVE  AppType' /\ StageInv' /\ SocketInv' /\ RowInv'
<1> USE ContainerAssumption, ClosingSteps
        DEF ContainerInv, AppType, StartTimesOut, Running, Turn, process, devices,
            services, transition, history, database, migration, bounds
<1>1. AppType'
  <2>1. cursor' \in 0..(ND + 1) \cup 1..6 /\ 1 \in Devices
    BY DEF Devices
  <2> QED BY <2>1 DEF Statuses, ScenarioLabels, RowLabels, StopLabels
<1>2. StageInv'
  BY DEF StageInv, Resting, StopLabels, RowLabels
<1>3. SocketInv'
  BY DEF SocketInv, StageInv, Resting, NoStatus, StopLabels, OfflineLabels, RowLabels
<1>4. RowInv'
  BY DEF RowInv, StageInv, Moving, Resting, RowLabels, StopLabels, Devices
<1> QED BY <1>1, <1>2, <1>3, <1>4

LEMMA SocketStopsKeeps ==
  ASSUME ContainerInv, SocketStops
  PROVE  AppType' /\ StageInv' /\ SocketInv' /\ RowInv'
<1> USE ContainerAssumption, ClosingSteps
        DEF ContainerInv, AppType, SocketStops, Running, Turn, Leave, RunEnds,
            SetStatus, process, devices, services, transition, history, database,
            migration, bounds
<1>1. AppType'
  <2>1. cursor' \in 0..(ND + 1) \cup 1..6 /\ 1 \in Devices
    BY DEF Devices
  <2> QED BY <2>1 DEF Statuses, ScenarioLabels, RowLabels, StopLabels
<1>2. StageInv'
  BY DEF StageInv, Resting, StopLabels, RowLabels
<1>3. SocketInv'
  <2>1. CASE scenario \in {"stopping", "aborting"}
    BY <2>1 DEF SocketInv, StageInv, Resting, NoStatus, StopLabels, OfflineLabels,
         RowLabels
  <2>2. CASE scenario = "undoing"
    BY <2>2 DEF SocketInv, StageInv, Resting, NoStatus, StopLabels, OfflineLabels,
         RowLabels
  <2> QED BY <2>1, <2>2 DEF StopLabels
<1>4. RowInv'
  BY DEF RowInv, StageInv, Moving, Resting, RowLabels, StopLabels, Devices
<1> QED BY <1>1, <1>2, <1>3, <1>4

LEMMA SocketSticksKeeps ==
  ASSUME ContainerInv, SocketSticks
  PROVE  AppType' /\ StageInv' /\ SocketInv' /\ RowInv'
<1> USE ContainerAssumption, ClosingSteps
        DEF ContainerInv, AppType, SocketSticks, Running, Turn, SetStatus, process,
            devices, services, transition, history, database, migration, bounds
<1>1. AppType'
  <2>1. cursor' \in 0..(ND + 1) \cup 1..6 /\ 1 \in Devices
    BY DEF Devices
  <2> QED BY <2>1 DEF Statuses, ScenarioLabels, RowLabels, StopLabels
<1>2. StageInv'
  BY DEF StageInv, Resting, StopLabels, RowLabels
<1>3. SocketInv'
  BY DEF SocketInv, StageInv, Resting, NoStatus, StopLabels, OfflineLabels, RowLabels
<1>4. RowInv'
  BY DEF RowInv, StageInv, Moving, Resting, RowLabels, StopLabels, Devices
<1> QED BY <1>1, <1>2, <1>3, <1>4

LEMMA WriteStatusKeeps ==
  ASSUME ContainerInv, WriteStatus
  PROVE  AppType' /\ StageInv' /\ SocketInv' /\ RowInv'
<1> USE ContainerAssumption, ClosingSteps
        DEF ContainerInv, AppType, WriteStatus, Running, Turn, Leave, RunEnds,
            StoreStatus, Store, process, devices, services, transition, history,
            database, migration, bounds
<1>1. AppType'
  <2>1. cursor' \in 0..(ND + 1) \cup 1..6 /\ 1 \in Devices
    BY DEF Devices
  <2> QED BY <2>1 DEF Statuses, ScenarioLabels, RowLabels, StopLabels
<1>2. StageInv'
  BY DEF StageInv, Resting, StopLabels, RowLabels
<1>3. SocketInv'
  BY DEF SocketInv, StageInv, Resting, NoStatus, StopLabels, OfflineLabels, RowLabels
<1>4. RowInv'
  BY DEF RowInv, StageInv, Moving, Resting, RowLabels, StopLabels, Devices,
     MigrationInv, MigrationType, FileType
<1> QED BY <1>1, <1>2, <1>3, <1>4

LEMMA PublishStatusKeeps ==
  ASSUME ContainerInv, PublishStatus
  PROVE  AppType' /\ StageInv' /\ SocketInv' /\ RowInv'
<1> USE ContainerAssumption, ClosingSteps
        DEF ContainerInv, AppType, PublishStatus, Running, Turn, RunEnds, process,
            devices, services, transition, history, database, migration, bounds
<1>1. AppType'
  <2>1. cursor' \in 0..(ND + 1) \cup 1..6 /\ 1 \in Devices
    BY DEF Devices
  <2> QED BY <2>1 DEF Statuses, ScenarioLabels, RowLabels, StopLabels
<1>2. StageInv'
  BY DEF StageInv, Resting, StopLabels, RowLabels
<1>3. SocketInv'
  BY DEF SocketInv, StageInv, Resting, NoStatus, StopLabels, OfflineLabels, RowLabels
<1>4. RowInv'
  BY DEF RowInv, StageInv, Moving, Resting, RowLabels, StopLabels, Devices
<1> QED BY <1>1, <1>2, <1>3, <1>4

LEMMA StatusFailsKeeps ==
  ASSUME ContainerInv, StatusFails
  PROVE  AppType' /\ StageInv' /\ SocketInv' /\ RowInv'
<1> USE ContainerAssumption, ClosingSteps
        DEF ContainerInv, AppType, StatusFails, Running, Leave, RunEnds, process,
            devices, services, transition, history, database, migration, bounds
<1>1. AppType'
  <2>1. cursor' \in 0..(ND + 1) \cup 1..6 /\ 1 \in Devices
    BY DEF Devices
  <2> QED BY <2>1 DEF Statuses, ScenarioLabels, RowLabels, StopLabels
<1>2. StageInv'
  BY DEF StageInv, Resting, StopLabels, RowLabels
<1>3. SocketInv'
  BY DEF SocketInv, StageInv, Resting, NoStatus, StopLabels, OfflineLabels, RowLabels
<1>4. RowInv'
  BY DEF RowInv, StageInv, Moving, Resting, RowLabels, StopLabels, Devices
<1> QED BY <1>1, <1>2, <1>3, <1>4

LEMMA SleepEndsKeeps ==
  ASSUME ContainerInv, SleepEnds
  PROVE  AppType' /\ StageInv' /\ SocketInv' /\ RowInv'
<1> USE ContainerAssumption, ClosingSteps
        DEF ContainerInv, AppType, SleepEnds, Running, Turn, process, devices, services,
            transition, history, database, migration, bounds
<1>1. AppType'
  <2>1. cursor' \in 0..(ND + 1) \cup 1..6 /\ 1 \in Devices
    BY DEF Devices
  <2> QED BY <2>1 DEF Statuses, ScenarioLabels, RowLabels, StopLabels
<1>2. StageInv'
  BY DEF StageInv, Resting, StopLabels, RowLabels
<1>3. SocketInv'
  BY DEF SocketInv, StageInv, Resting, NoStatus, StopLabels, OfflineLabels, RowLabels
<1>4. RowInv'
  BY DEF RowInv, StageInv, Moving, Resting, RowLabels, StopLabels, Devices
<1> QED BY <1>1, <1>2, <1>3, <1>4

LEMMA StopRunKeeps ==
  ASSUME ContainerInv, StopRun
  PROVE  AppType' /\ StageInv' /\ SocketInv' /\ RowInv'
<1> USE ContainerAssumption, ClosingSteps
        DEF ContainerInv, AppType, StopRun, Running, Turn, Leave, RunEnds, StoreStatus,
            Store, process, devices, services, transition, history, database, migration,
            bounds
<1>1. AppType'
  <2>1. cursor' \in 0..(ND + 1) \cup 1..6 /\ 1 \in Devices
    BY DEF Devices
  <2> QED BY <2>1 DEF Statuses, ScenarioLabels, RowLabels, StopLabels
<1>2. StageInv'
  BY DEF StageInv, Resting, StopLabels, RowLabels
<1>3. SocketInv'
  <2>1. CASE scenario \in StopLabels
    <3>1. apps' = apps /\ status' = status /\ stuck' = stuck /\ cut' = cut \cup {target}
          /\ sock' \in {sock, sock \ {target}} /\ UNCHANGED <<phase, cursor>>
      BY <2>1 DEF StopLabels, RowLabels
    <3>2. scenario' \in OfflineLabels =>
            scenario' = "goOnline" /\ target' = target /\ status'[target] = "offline"
      BY <2>1 DEF StopLabels, RowLabels, OfflineLabels
    <3>3. scenario' \notin StopLabels /\ scenario' # "starting"
      BY <2>1 DEF StopLabels, RowLabels
    <3>4. target \notin apps
      BY <2>1 DEF SocketInv
    <3> QED BY <2>1, <3>1, <3>2, <3>3, <3>4 DEF SocketInv
  <2>2. CASE scenario = "starting"
    BY <2>2 DEF SocketInv, StageInv, Resting, NoStatus, StopLabels, OfflineLabels,
         RowLabels
  <2>3. CASE scenario \notin StopLabels \cup {"starting"}
    BY <2>3 DEF SocketInv, StageInv, Resting, NoStatus, StopLabels, OfflineLabels,
         RowLabels
  <2> QED BY <2>1, <2>2, <2>3
<1>4. RowInv'
  BY DEF RowInv, StageInv, Moving, Resting, RowLabels, StopLabels, Devices,
     MigrationInv, MigrationType, FileType
<1> QED BY <1>1, <1>2, <1>3, <1>4

LEMMA CloseKeeps ==
  ASSUME ContainerInv, Close
  PROVE  AppType' /\ StageInv' /\ SocketInv' /\ RowInv'
<1> USE ContainerAssumption, ClosingSteps
        DEF ContainerInv, AppType, Close, Enter, BeginClose, process, devices, services,
            transition, history, database, migration, bounds
<1>1. AppType'
  <2>1. cursor' \in 0..(ND + 1) \cup 1..6
    BY DEF Devices
  <2> QED BY <2>1 DEF Statuses, ScenarioLabels, RowLabels, StopLabels
<1>2. StageInv'
  BY DEF StageInv, Resting
<1>3. SocketInv'
  BY DEF SocketInv, StageInv, Resting, NoStatus, StopLabels, OfflineLabels
<1>4. RowInv'
  BY DEF RowInv, StageInv, Moving, Resting, RowLabels, Devices
<1> QED BY <1>1, <1>2, <1>3, <1>4

LEMMA ScenariosStoppedKeeps ==
  ASSUME ContainerInv, ScenariosStopped
  PROVE  AppType' /\ StageInv' /\ SocketInv' /\ RowInv'
<1> USE ContainerAssumption, ClosingSteps
        DEF ContainerInv, AppType, ScenariosStopped, NextStep, AfterFailure, process,
            devices, services, transition, history, database, migration, bounds
<1>1. AppType'
  <2>1. cursor' \in 0..(ND + 1) \cup 1..6
    BY DEF Devices
  <2> QED BY <2>1 DEF Statuses, ScenarioLabels, RowLabels, StopLabels
<1>2. StageInv'
  BY DEF StageInv, Resting
<1>3. SocketInv'
  BY DEF SocketInv, StageInv, Resting, NoStatus, StopLabels, OfflineLabels
<1>4. RowInv'
  BY DEF RowInv, StageInv, Moving, Resting, RowLabels, Devices
<1> QED BY <1>1, <1>2, <1>3, <1>4

LEMMA TelemetryStoppedKeeps ==
  ASSUME ContainerInv, TelemetryStopped
  PROVE  AppType' /\ StageInv' /\ SocketInv' /\ RowInv'
<1> USE ContainerAssumption, ClosingSteps
        DEF ContainerInv, AppType, TelemetryStopped, NextStep, process, devices,
            services, transition, history, database, migration, bounds
<1>1. AppType'
  <2>1. cursor' \in 0..(ND + 1) \cup 1..6
    BY DEF Devices
  <2> QED BY <2>1 DEF Statuses, ScenarioLabels, RowLabels, StopLabels
<1>2. StageInv'
  BY DEF StageInv, Resting
<1>3. SocketInv'
  BY DEF SocketInv, StageInv, Resting, NoStatus, StopLabels, OfflineLabels
<1>4. RowInv'
  BY DEF RowInv, StageInv, Moving, Resting, RowLabels, Devices
<1> QED BY <1>1, <1>2, <1>3, <1>4

LEMMA StopWorkerKeeps ==
  ASSUME ContainerInv, StopWorker
  PROVE  AppType' /\ StageInv' /\ SocketInv' /\ RowInv'
<1> USE ContainerAssumption, ClosingSteps
        DEF ContainerInv, AppType, StopWorker, NextStep, process, devices, services,
            transition, history, database, migration, bounds
<1>1. AppType'
  <2>1. cursor' \in 0..(ND + 1) \cup 1..6
    BY DEF Devices
  <2> QED BY <2>1 DEF Statuses, ScenarioLabels, RowLabels, StopLabels
<1>2. StageInv'
  BY DEF StageInv, Resting
<1>3. SocketInv'
  BY DEF SocketInv, StageInv, Resting, NoStatus, StopLabels, OfflineLabels
<1>4. RowInv'
  BY DEF RowInv, StageInv, Moving, Resting, RowLabels, Devices
<1> QED BY <1>1, <1>2, <1>3, <1>4

LEMMA SocketsClosedKeeps ==
  ASSUME ContainerInv, SocketsClosed
  PROVE  AppType' /\ StageInv' /\ SocketInv' /\ RowInv'
<1> USE ContainerAssumption, ClosingSteps
        DEF ContainerInv, AppType, SocketsClosed, NextStep, AfterFailure, ToClose,
            process, devices, services, transition, history, database, migration,
            bounds
<1>1. AppType'
  <2>1. cursor' \in 0..(ND + 1) \cup 1..6
    BY DEF Devices
  <2> QED BY <2>1 DEF Statuses, ScenarioLabels, RowLabels, StopLabels
<1>2. StageInv'
  BY DEF StageInv, Resting
<1>3. SocketInv'
  BY DEF SocketInv, StageInv, Resting, NoStatus, StopLabels, OfflineLabels
<1>4. RowInv'
  BY DEF RowInv, StageInv, Moving, Resting, RowLabels, Devices
<1> QED BY <1>1, <1>2, <1>3, <1>4

LEMMA ClientClosedKeeps ==
  ASSUME ContainerInv, ClientClosed
  PROVE  AppType' /\ StageInv' /\ SocketInv' /\ RowInv'
<1> USE ContainerAssumption, ClosingSteps
        DEF ContainerInv, AppType, ClientClosed, NextStep, AfterFailure, process,
            devices, services, transition, history, database, migration, bounds
<1>1. AppType'
  <2>1. cursor' \in 0..(ND + 1) \cup 1..6
    BY DEF Devices
  <2> QED BY <2>1 DEF Statuses, ScenarioLabels, RowLabels, StopLabels
<1>2. StageInv'
  BY DEF StageInv, Resting
<1>3. SocketInv'
  BY DEF SocketInv, StageInv, Resting, NoStatus, StopLabels, OfflineLabels
<1>4. RowInv'
  BY DEF RowInv, StageInv, Moving, Resting, RowLabels, Devices
<1> QED BY <1>1, <1>2, <1>3, <1>4

LEMMA ClosedKeeps ==
  ASSUME ContainerInv, Closed
  PROVE  AppType' /\ StageInv' /\ SocketInv' /\ RowInv'
<1> USE ContainerAssumption, ClosingSteps
        DEF ContainerInv, AppType, Closed, Enter, process, devices, services,
            transition, history, database, migration, bounds
<1>1. AppType'
  <2>1. cursor' \in 0..(ND + 1) \cup 1..6
    BY DEF Devices
  <2> QED BY <2>1 DEF Statuses, ScenarioLabels, RowLabels, StopLabels
<1>2. StageInv'
  BY DEF StageInv, Resting
<1>3. SocketInv'
  BY DEF SocketInv, StageInv, Resting, NoStatus, StopLabels, OfflineLabels
<1>4. RowInv'
  BY DEF RowInv, StageInv, Moving, Resting, RowLabels, Devices
<1> QED BY <1>1, <1>2, <1>3, <1>4

LEMMA BootKeeps ==
  ASSUME ContainerInv, Boot
  PROVE  AppType' /\ StageInv' /\ SocketInv' /\ RowInv'
<1> USE ContainerAssumption, ClosingSteps
        DEF ContainerInv, AppType, Boot, FreshMemory, Connect, GoOn, process, devices,
            services, transition, history, database, migration, bounds
<1>1. AppType'
  <2>1. cursor' \in 0..(ND + 1) \cup 1..6
    BY DEF Devices
  <2>2. 1 \in Devices
    BY DEF Devices
  <2> QED BY <2>1, <2>2 DEF Statuses, ScenarioLabels, RowLabels, StopLabels
<1>2. StageInv'
  BY DEF StageInv, Resting
<1>3. SocketInv'
  BY DEF SocketInv, StageInv, Resting, NoStatus, StopLabels, OfflineLabels
<1>4. RowInv'
  BY DEF RowInv, StageInv, Moving, Resting, RowLabels, Devices
<1> QED BY <1>1, <1>2, <1>3, <1>4

LEMMA CrashKeeps ==
  ASSUME ContainerInv, Crash
  PROVE  AppType' /\ StageInv' /\ SocketInv' /\ RowInv'
<1> USE ContainerAssumption, ClosingSteps
        DEF ContainerInv, AppType, Crash, Enter, FreshMemory, Dies, GoOn, process,
            devices, services, transition, history, database, migration, bounds
<1>1. AppType'
  <2>1. cursor' \in 0..(ND + 1) \cup 1..6
    BY DEF Devices
  <2>2. 1 \in Devices
    BY DEF Devices
  <2> QED BY <2>1, <2>2 DEF Statuses, ScenarioLabels, RowLabels, StopLabels
<1>2. StageInv'
  BY DEF StageInv, Resting
<1>3. SocketInv'
  BY DEF SocketInv, StageInv, Resting, NoStatus, StopLabels, OfflineLabels
<1>4. RowInv'
  BY DEF RowInv, StageInv, Moving, Resting, RowLabels, Devices
<1> QED BY <1>1, <1>2, <1>3, <1>4

LEMMA FileStepKeeps ==
  ASSUME ContainerInv, FileStep
  PROVE  AppType' /\ StageInv' /\ SocketInv' /\ RowInv'
<1>1. PICK m \in Processes :
        /\ \/ Connect(m) \/ MigrationStep(m) \/ MigrationFails(m)
           \/ UseCrash /\ Dies(m)
        /\ m = App => MigrationStep(m) \/ MigrationFails(m)
  BY ContainerAssumption DEF FileStep
<1>2. disk' = disk \/ Upgraded
  BY <1>1, ProcessKeeps DEF ContainerInv
<1>3. at \in [Processes -> MigrationLabels] /\ (writer = m => at[m] \in Inside)
  BY DEF ContainerInv, MigrationInv, MigrationType
<1>4. at[App] = "done" => at'[App] = "done"
  <2>1. CASE m = App
    BY <1>1, <1>3, <2>1 DEF MigrationStep, MigrationFails, ReadVersion, BeginWrite,
       CreateTables,
       AddColumn, ConvertRows, CreateDeliveries, FindsDeliveries, CreateIndexes,
          StampVersion,
       Commit, In, Inside
  <2>2. CASE m # App
    <3>1. Connect(m) \/ MigrationStep(m) => \E label : GoOn(m, label)
      BY DEF Connect, MigrationStep, ReadVersion, BeginWrite, CreateTables, AddColumn,
         ConvertRows, CreateDeliveries, FindsDeliveries, CreateIndexes, StampVersion,
            Commit,
         Rollback
    <3>2. MigrationFails(m) \/ Dies(m) => \E label : GoOn(m, label)
      BY DEF MigrationFails, Dies, Rollback
    <3>3. PICK label : GoOn(m, label)
      BY <1>1, <3>1, <3>2
    <3>4. at'[App] = at[App]
      BY <1>3, <2>2, <3>3, ContainerAssumption DEF GoOn
    <3> QED BY <3>4
  <2> QED BY <2>1, <2>2
<1>5. phase \in {"devices", "aborting", "alarms", "up", "closing"} =>
        disk' = disk /\ at'[App] = "done"
  <2>1. phase \in {"devices", "aborting", "alarms", "up", "closing"} => at[App] = "done"
    BY DEF ContainerInv, StageInv
  <2>2. at[App] = "done" => disk.version = Current
    BY ContainerAssumption DEF ContainerInv, MigrationInv, SawInv
  <2>3. Upgraded => disk.version # Current
    BY DEF Upgraded, Current
  <2> QED BY <1>2, <1>4, <2>1, <2>2, <2>3
<1> USE DEF FileStep, container, process, devices, services, transition, history,
   ContainerInv
<1>6. AppType'
  BY DEF AppType
<1>7. StageInv'
  BY <1>5 DEF StageInv, Resting
<1>8. SocketInv'
  BY DEF SocketInv
<1>9. RowInv'
  BY <1>5 DEF RowInv, Moving
<1> QED BY <1>6, <1>7, <1>8, <1>9

LEMMA ContainerStarts == Init => ContainerInv
<1> SUFFICES ASSUME Init PROVE ContainerInv
  OBVIOUS
<1>1. MigrationInv
  BY MigrationStarts DEF Init
<1>2. AppType
  <2>1. 1 \in Devices
    BY ContainerAssumption DEF Devices
  <2>2. cursor \in 0..(ND + 1) \cup 1..6
    BY ContainerAssumption DEF Init
  <2> QED BY <2>1, <2>2 DEF Init, AppType, Statuses, ScenarioLabels
<1>3. StageInv /\ SocketInv /\ RowInv
  BY DEF Init, StageInv, SocketInv, RowInv, Resting, NoStatus, StopLabels, OfflineLabels
<1> QED BY <1>1, <1>2, <1>3 DEF ContainerInv

LEMMA ContainerSteps == ContainerInv /\ [Next]_vars => ContainerInv'
<1> SUFFICES ASSUME ContainerInv, [Next]_vars PROVE ContainerInv'
  OBVIOUS
<1>1. MigrationInv'
  BY FileIsKept DEF ContainerInv
<1> DEFINE Keeps == AppType' /\ StageInv' /\ SocketInv' /\ RowInv'
<1>2. ASSUME MemoryStep PROVE Keeps
  BY <1>2, MigratedKeeps, StartDeviceKeeps, InitializeFailsKeeps, StopAllKeeps,
     AbortedKeeps, ServeKeeps, StartFailsKeeps, StartScenarioKeeps,
     GoOfflineKeeps, GoOnlineKeeps, StartedKeeps, StartTimesOutKeeps,
     SocketStopsKeeps, SocketSticksKeeps, PublishStatusKeeps, StatusFailsKeeps,
     SleepEndsKeeps, StopRunKeeps, CloseKeeps, ScenariosStoppedKeeps,
        TelemetryStoppedKeeps,
     StopWorkerKeeps, SocketsClosedKeeps, ClientClosedKeeps, ClosedKeeps DEF MemoryStep
<1>3. ASSUME StoreStep PROVE Keeps
  BY <1>3, SaveDeviceKeeps, ReconcileKeeps, WriteStatusKeeps, StopRunKeeps DEF StoreStep
<1>4. ASSUME FileStep \/ Boot \/ Crash PROVE Keeps
  BY <1>4, FileStepKeeps, BootKeeps, CrashKeeps
<1>5. ASSUME UNCHANGED vars PROVE Keeps
  <2> USE <1>5 DEF vars, database, migration, process, devices, services, transition,
     history,
          ContainerInv
  <2>1. AppType' /\ SocketInv'
    BY DEF AppType, SocketInv
  <2>2. StageInv' /\ RowInv'
    BY DEF StageInv, RowInv, Resting, Moving
  <2> QED BY <2>1, <2>2
<1>6. Keeps
  BY <1>2, <1>3, <1>4, <1>5, Steps
<1> QED BY <1>1, <1>6 DEF ContainerInv

-----------------------------------------------------------------------------
(***************************************************************************)
(* The inductive invariant: what is open and what is recorded at every     *)
(* stage of the life of the process and of the migration of its file.      *)
(***************************************************************************)
THEOREM ContainerInvariant == Spec => []ContainerInv
  BY ContainerStarts, ContainerSteps, PTL DEF Spec

(***************************************************************************)
(* Every variable keeps its type, and the open transaction is the one of   *)
(* the process that holds the write lock (TypeOK).                         *)
(***************************************************************************)
THEOREM ContainerTypes == Spec => []TypeOK
<1>1. ContainerInv => TypeOK
  <2> SUFFICES ASSUME ContainerInv PROVE TypeOK
    OBVIOUS
  <2>1. \A m \in Processes : writer = m <=> at[m] \in MigrationLabels
                                       \ {"idle", "version", "begin", "done", "failed"}
    BY DEF ContainerInv, MigrationInv, MigrationType, MigrationLabels, Inside
  <2>2. Len(CloseOrder) = 5
    BY DEF CloseOrder
  <2> QED BY <2>1, <2>2 DEF ContainerInv, MigrationInv, MigrationType, AppType, TypeOK
<1> QED BY <1>1, ContainerInvariant, PTL

(***************************************************************************)
(* Whoever may publish has an outbox that is served, and an application    *)
(* and a socket behind what is online, but for a device that is just being *)
(* stopped or whose stop_device a stop cut; the worker never meets a       *)
(* closed client.  The order of Container.close is right whatever step     *)
(* fails and wherever a stop lands.                                        *)
(***************************************************************************)
THEOREM UsersEndFirst == Spec => []UsersGoFirst
<1>1. ContainerInv => UsersGoFirst
  BY DEF ContainerInv, AppType, StageInv, SocketInv, Resting, UsersGoFirst, Working
<1> QED BY <1>1, ContainerInvariant, PTL

(***************************************************************************)
(* A process that is closed, or gave up its start, leaves nothing running, *)
(* no socket but one whose close failed or was cut by a stop, and the      *)
(* client only if its close failed or stop_all raised.                     *)
(***************************************************************************)
THEOREM LeavesNothingOpen == Spec => []NothingLeftOpen
<1>1. ContainerInv => NothingLeftOpen
  BY DEF ContainerInv, AppType, StageInv, SocketInv, Resting, StopLabels,
         NothingLeftOpen, Working
<1> QED BY <1>1, ContainerInvariant, PTL

(***************************************************************************)
(* While a process serves, the rows of its database are the devices of its *)
(* inventory, each with the status of its device unless this is just being *)
(* recorded or its last recording failed or was cut by a stop, for any     *)
(* inventory, any number of devices and any history of the file.           *)
(***************************************************************************)
THEOREM RowsFollowDevices == Spec => []RowsAreTrue
<1>1. ContainerInv => RowsAreTrue
  BY DEF ContainerInv, RowInv, Moving, RowsAreTrue
<1> QED BY <1>1, ContainerInvariant, PTL

\* A step of the file is one of the Database, or none.
LEMMA FileSteps ==
  ASSUME MigrationInv, MigrationInv', disk' = disk \/ Upgraded \/ Used
  PROVE  [Promised!Next]_(Promised!vars)
<1> DEFINE Value == [r \in Rows |-> Meaning(disk.text[r])]
<1>1. /\ disk \in FileType /\ disk' \in FileType
      /\ \A r \in Rows : disk.text[r] \in V1Texts \cup JsonTexts \cup {NoRow}
  BY DEF MigrationInv, MigrationType, FileType
<1>2. CASE disk' = disk
  <2>1. Value' = Value
    BY <1>2 DEF Meaning
  <2> QED BY <1>2, <2>1 DEF Promised!vars
<1>3. CASE Upgraded
  <2>1. /\ disk.version < Current /\ disk'.version = Current /\ disk'.schema = Parts
        /\ ~ (disk'.version < Current)
    BY <1>3 DEF Upgraded, Current
  <2>2. ASSUME NEW r \in Rows PROVE Meaning(disk.text[r])' = Meaning(disk.text[r])
    <3>1. disk'.text[r] = Convert(disk.text[r])
      BY <1>3 DEF Upgraded, Converted
    <3>2. disk.text[r] \in V1Texts \cup {NoRow}
      BY <2>1 DEF MigrationInv, FileInv
    <3>3. NoRow \notin V1Texts
      BY MigrationAssumption DEF NoRow
    <3> QED BY <2>1, <3>1, <3>2, <3>3, Converts DEF Meaning
  <2>3. Value' = Value
    BY <2>2
  <2> QED BY <2>1, <2>3 DEF Promised!Next, Promised!Upgrade
<1>4. CASE Used
  <2>1. ~ (disk'.version < Current) /\ disk.version = Current /\ disk'.version = disk.version
        /\ disk'.schema = disk.schema
    BY <1>4 DEF Used, Current
  <2>2. ASSUME NEW r \in Rows PROVE Meaning(disk.text[r])' \in JsonValues \cup {NoRow}
    <3>1. disk'.text[r] \in JsonTexts \cup {NoRow}
      BY <1>4 DEF Used
    <3> QED BY <2>1, <3>1, Parses DEF Meaning
  <2>3. Value' \in [Rows -> JsonValues \cup {NoRow}]
    BY <2>2
  <2> QED BY <2>1, <2>3 DEF Promised!Next, Promised!Use, JsonValues
<1> QED BY <1>2, <1>3, <1>4

LEMMA FileStarts == Init => Promised!Init
<1> SUFFICES ASSUME Init PROVE Promised!Init
  OBVIOUS
<1>1. MigrationInv /\ disk.version \in Nat
  BY MigrationStarts DEF Init, MigrationInv, MigrationType, FileType, Current
<1>2. ASSUME NEW r \in Rows PROVE Meaning(disk.text[r]) \in JsonValues \cup {NoRow}
  <2>1. /\ disk.version < Current => disk.text[r] \in V1Texts \cup {NoRow}
        /\ ~ (disk.version < Current) => disk.text[r] \in JsonTexts \cup {NoRow}
    BY <1>1 DEF MigrationInv, FileInv, Current
  <2> QED BY <2>1, Parses DEF Meaning
<1>3. [r \in Rows |-> Meaning(disk.text[r])] \in [Rows -> JsonValues \cup {NoRow}]
  BY <1>2
<1>4. \/ /\ disk.version < Current /\ disk.schema = {}
         /\ [r \in Rows |-> Meaning(disk.text[r])] = [r \in Rows |-> NoRow]
      \/ disk.version < Current /\ disk.schema = {"tables"}
      \/ disk.version >= Current /\ disk.schema = Parts
  <2>1. disk.text = NoRows => [r \in Rows |-> Meaning(disk.text[r])] = [r \in Rows |-> NoRow]
    BY DEF NoRows, Meaning
  <2> QED BY <2>1 DEF Init, MigrationInit, File, Current
<1> QED BY <1>1, <1>3, <1>4 DEF Promised!Init, JsonValues

(***************************************************************************)
(* To whoever opens the file the migration is one step that keeps every    *)
(* value, whatever number of processes run, fail and die in it, and only a *)
(* current file is written: the program implements Database.               *)
(***************************************************************************)
THEOREM ImplementsDatabase == Spec => DatabaseSpec
<1>1. Init => Promised!Init
  BY FileStarts
<1>2. ContainerInv /\ ContainerInv' /\ [Next]_vars => [Promised!Next]_(Promised!vars)
  BY FileIsKept, FileSteps DEF ContainerInv
<1> QED BY <1>1, <1>2, ContainerInvariant, PTL DEF Spec, DatabaseSpec, Promised!Spec
=============================================================================
