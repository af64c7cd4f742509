------------------------ MODULE ContainerProperties ------------------------
(***************************************************************************)
(* What the program around the services has to guarantee.                  *)
(***************************************************************************)
EXTENDS Container

FileType ==
  [version : 0..(Current + 1), schema : SUBSET Parts,
   text : [Rows -> V1Texts \cup JsonTexts \cup {NoRow}]]

MigrationLabels ==
  {"idle", "version", "begin", "tables", "column", "convert", "deliveries",
   "indexes", "stamp", "commit", "done", "failed"}

ScenarioLabels ==
  RowLabels \cup StopLabels
  \cup {"idle", "goOffline", "offlineEvent", "offline", "goOnline", "starting",
        "onlineEvent", "online"}

(***************************************************************************)
(* Every variable has its type, and the transaction that is open is the    *)
(* one of the process that holds the write lock.                           *)
(***************************************************************************)
TypeOK ==
  /\ disk \in FileType /\ work \in FileType
  /\ writer \in Processes \cup {None}
  /\ at \in [Processes -> MigrationLabels]
  /\ saw \in [Processes -> 0..(Current + 1)]
  /\ \A m \in Processes :
       writer = m <=> at[m] \in MigrationLabels
                        \ {"idle", "version", "begin", "done", "failed"}
  /\ faults \in 0..MaxFaults /\ crashes \in 0..MaxCrashes
  /\ phase \in {"down", "migrating", "devices", "aborting", "alarms", "up",
                "closing", "closed"}
  /\ inventory \subseteq Devices
  /\ cursor \in 0..(ND + 1) \cup 1..(Len(CloseOrder) + 1)
  /\ apps \subseteq Devices /\ sock \subseteq Devices
  /\ status \in [Devices -> Statuses \cup {NoStatus}]
  /\ rowStatus \in [Devices -> Statuses \cup {NoStatus}]
  /\ client \in BOOLEAN /\ telemetry \in BOOLEAN
  /\ worker \in {"off", "on", "stopping"} /\ errors \in BOOLEAN
  /\ scenario \in ScenarioLabels
  /\ target \in Devices /\ final \in BOOLEAN
  /\ missed \subseteq Devices /\ cut \subseteq Devices
  /\ stuck \subseteq Devices \cup {HttpClient}

\* Who reads, writes and publishes.
Working == scenario # "idle" \/ telemetry

(***************************************************************************)
(* "Shutdown: scenarios -> synchronization -> current webhook batch ->     *)
(* device sockets -> HTTP client" (docs/architecture.md): as long as       *)
(* somebody may publish the outbox is served, and every online device has  *)
(* its application and its socket unless it is just being stopped, or a    *)
(* stop of device_offline cut the stop_device of its last transition       *)
(* (VStatus shows that one).  The worker never meets a closed client.      *)
(***************************************************************************)
UsersGoFirst ==
  /\ Working => /\ worker = "on"
                /\ \A d \in inventory : status[d] = "online" =>
                     \/ d \in apps \cap sock
                     \/ scenario = "stopping" /\ target = d
                     \/ d \in cut
  /\ worker # "off" => client

(***************************************************************************)
(* "FastAPI lifespan owns the container and all resources": when a process *)
(* has closed, or given up its start after any device, nothing is left     *)
(* running, and no socket open but one whose close failed, or whose        *)
(* stop_device a stop of the scenario cut: the engine has no application   *)
(* for it any more.  The client stays open if its close failed, or if      *)
(* stop_all raised in a start that was given up.                           *)
(***************************************************************************)
NothingLeftOpen ==
  phase \in {"down", "closed"} =>
    /\ ~Working /\ worker = "off"
    /\ apps = {} /\ sock \subseteq stuck \cup cut
    /\ client => errors \/ HttpClient \in stuck

(***************************************************************************)
(* "YAML inventory/values reloaded, stale devices/points reconciled": a    *)
(* process that serves has one row for each device of its inventory and    *)
(* no other, whatever earlier starts, crashes and transitions left, and    *)
(* but while a status is being recorded the row says what the device is,   *)
(* unless the recording of its last status failed or was cut by a stop.    *)
(***************************************************************************)
RowsAreTrue ==
  phase \in {"up", "closing"} =>
    \A d \in Devices :
      /\ disk.text[d] # NoRow <=> d \in inventory
      /\ \/ scenario \in RowLabels /\ target = d
         \/ d \in missed
         \/ rowStatus[d] = status[d]

(***************************************************************************)
(* Nothing hangs: a start that began serves, fails or dies, and a closing  *)
(* ends, whatever step fails and whoever holds the database meanwhile.     *)
(***************************************************************************)
StartsAndClosesEnd ==
  phase \in {"migrating", "devices", "aborting", "alarms", "closing"}
    ~> phase \in {"up", "closed", "down"}

-----------------------------------------------------------------------------
\* What a row of the file means to the program of the file's version.
Meaning(text) ==
  IF text = NoRow THEN NoRow
  ELSE IF disk.version < Current THEN V1Value(text) ELSE JsonLoads(text)

Promised == INSTANCE Database WITH
  Absent <- NoRow, Values <- {"yes", "number", "auto", "True"},
  OldParts <- {"tables"},
  version <- disk.version, schema <- disk.schema,
  value <- [r \in Rows |-> Meaning(disk.text[r])]

(***************************************************************************)
(* "Migrate atomically; retain v1 data and reject unknown future schemas"  *)
(* (migrations.py:75): to whoever opens the file, the migration is the one *)
(* step of Database, with any number of processes, failures and crashes,   *)
(* and the services write to a current file only.                          *)
(***************************************************************************)
DatabaseSpec == Promised!Spec
=============================================================================
