----------------------------- MODULE Migrations -----------------------------
(***************************************************************************)
(* run_migrations (adapters/persistence/migrations.py): processes that     *)
(* bring one database file to the current schema, each in one write        *)
(* transaction that begins after it has read the version.                  *)
(*                                                                         *)
(* An action is a SQL statement, or a loop of them.  What a transaction    *)
(* has written is visible to nobody else until it commits; a crash or a    *)
(* rollback forgets it.  A text is what a row of points stores as its      *)
(* value: str(value) by version 1, JSON by version 2.                      *)
(***************************************************************************)
EXTENDS Integers, FiniteSets

CONSTANTS Processes,   \* processes that open the database
          Rows,        \* rows of points
          V1Texts,     \* the texts version 1 may have left in them
          None,        \* no process
          MaxFaults,   \* bound: failures of SQLite, sockets and cleanups
          MaxCrashes   \* bound: crashes

Current == 2
Parts == {"tables", "state_text", "deliveries", "indexes"}

NoRow == "-"
JsonTexts == {"true", "21.5", "'auto'", "'True'"}

ASSUME MigrationAssumption ==
  /\ None \notin Processes
  /\ V1Texts \subseteq {"True", "21.5", "auto"}
  /\ MaxFaults \in Nat /\ MaxCrashes \in Nat

VARIABLES
  disk,    \* what is committed: user_version, schema, the texts of the rows
  work,    \* the same, as the open write transaction sees it
  writer,  \* the process in that transaction
  at,      \* where each process is in run_migrations
  saw,     \* the version it read
  faults, crashes

database == <<disk, work, writer>>
migration == <<at, saw>>
bounds == <<faults, crashes>>

UseFault == faults > 0 /\ faults' = faults - 1 /\ UNCHANGED crashes
UseCrash == crashes > 0 /\ crashes' = crashes - 1 /\ UNCHANGED faults

-----------------------------------------------------------------------------
(* Values and texts. *)

\* json.loads of a JSON text.
JsonLoads(text) ==
  CASE text = "true" -> "yes"
    [] text = "21.5" -> "number"
    [] text = "'auto'" -> "auto"
    [] text = "'True'" -> "True"

JsonDumps(v) == CHOOSE text \in JsonTexts : JsonLoads(text) = v

\* Mutant: only what json.loads accepts is parsed.
ParseJsonOnly(text) == IF text \in JsonTexts THEN JsonLoads(text) ELSE text

\* "Legacy v1 values were untyped strings; new writes use JSON exclusively."
ParseValue(text) ==
  CASE text = "True" -> "yes"
    [] text \in JsonTexts -> JsonLoads(text)
    [] OTHER -> text

\* What version 1 meant by a text it stored.
V1Value(text) ==
  CASE text = "True" -> "yes" [] text = "21.5" -> "number" [] OTHER -> text

-----------------------------------------------------------------------------
(* run_migrations *)

GoOn(m, label) == at' = [at EXCEPT ![m] = label]
In(m, label) == writer = m /\ at[m] = label

Connect(m) ==
  /\ at[m] \in {"idle", "done", "failed"}
  /\ GoOn(m, "version")
  /\ UNCHANGED <<database, saw, bounds>>

\* Mutant: any version is taken for an older one or the current one.
KnownAny(version) == TRUE

\* "Unsupported database schema version"
Known(version) == version <= Current

\* PRAGMA user_version, outside any transaction.
ReadVersion(m) ==
  /\ at[m] = "version"
  /\ saw' = [saw EXCEPT ![m] = disk.version]
  /\ GoOn(m, IF Known(disk.version) THEN "begin" ELSE "failed")
  /\ UNCHANGED <<database, bounds>>

\* BEGIN IMMEDIATE waits for the write lock.
BeginWrite(m) ==
  /\ at[m] = "begin"
  /\ writer = None
  /\ writer' = m
  /\ work' = disk
  /\ GoOn(m, "tables")
  /\ UNCHANGED <<disk, saw, bounds>>

\* Mutant: each statement commits by itself.
WriteThrough(m, d) == work' = d /\ disk' = d /\ UNCHANGED writer

Write(m, d) == work' = d /\ UNCHANGED <<disk, writer>>

Add(m, part) == Write(m, [work EXCEPT !.schema = @ \cup {part}])

\* CREATE TABLE IF NOT EXISTS; a current database needs no more.
CreateTables(m) ==
  /\ In(m, "tables")
  /\ Add(m, "tables")
  /\ GoOn(m, IF saw[m] < Current THEN "column" ELSE "commit")
  /\ UNCHANGED <<saw, bounds>>

AddColumn(m) ==
  /\ In(m, "column")
  /\ Add(m, "state_text")
  /\ GoOn(m, "convert")
  /\ UNCHANGED <<saw, bounds>>

ConvertRows(m) ==
  /\ In(m, "convert")
  /\ Write(m, [work EXCEPT !.text = [r \in Rows |->
       IF @[r] = NoRow THEN NoRow ELSE JsonDumps(ParseValue(@[r]))]])
  /\ GoOn(m, "deliveries")
  /\ UNCHANGED <<saw, bounds>>

\* CREATE TABLE and CREATE INDEX fail for what is there already.
CreateDeliveries(m) ==
  /\ In(m, "deliveries")
  /\ "deliveries" \notin work.schema
  /\ Add(m, "deliveries")
  /\ GoOn(m, "indexes")
  /\ UNCHANGED <<saw, bounds>>

CreateIndexes(m) ==
  /\ In(m, "indexes")
  /\ Add(m, "indexes")
  /\ GoOn(m, "stamp")
  /\ UNCHANGED <<saw, bounds>>

StampVersion(m) ==
  /\ In(m, "stamp")
  /\ Write(m, [work EXCEPT !.version = Current])
  /\ GoOn(m, "commit")
  /\ UNCHANGED <<saw, bounds>>

Commit(m) ==
  /\ In(m, "commit")
  /\ disk' = work
  /\ writer' = None
  /\ GoOn(m, "done")
  /\ UNCHANGED <<work, saw, bounds>>

\* Mutant: the error leaves the transaction open.
NoRollback(m) == GoOn(m, "failed") /\ UNCHANGED <<database, saw>>

Rollback(m) ==
  /\ work' = disk
  /\ writer' = None
  /\ GoOn(m, "failed")
  /\ UNCHANGED <<disk, saw>>

\* Another process was faster than this one's transaction.
FindsDeliveries(m) ==
  /\ In(m, "deliveries")
  /\ "deliveries" \in work.schema
  /\ Rollback(m)
  /\ UNCHANGED bounds

\* The file cannot be read, is locked for too long, is full.
MigrationFails(m) ==
  /\ UseFault
  /\ \/ writer = m /\ Rollback(m)
     \/ at[m] \in {"version", "begin"} /\ GoOn(m, "failed") /\ UNCHANGED <<database, saw>>

MigrationStep(m) ==
  \/ ReadVersion(m) \/ BeginWrite(m)
  \/ CreateTables(m) \/ AddColumn(m) \/ ConvertRows(m)
  \/ CreateDeliveries(m) \/ FindsDeliveries(m)
  \/ CreateIndexes(m) \/ StampVersion(m) \/ Commit(m)

\* The process is gone; SQLite forgets its transaction.
Dies(m) ==
  /\ IF writer = m THEN work' = disk /\ writer' = None
                   ELSE UNCHANGED <<work, writer>>
  /\ GoOn(m, "idle")
  /\ saw' = [saw EXCEPT ![m] = 0]
  /\ UNCHANGED disk

File(version, schema, text) == [version |-> version, schema |-> schema, text |-> text]

NoRows == [r \in Rows |-> NoRow]

\* No file yet, one of version 1, a current one, one of a later program.
MigrationInit ==
  /\ disk \in {File(0, {}, NoRows)}
       \cup {File(0, {"tables"}, text) : text \in [Rows -> V1Texts \cup {NoRow}]}
       \cup {File(v, Parts, NoRows) : v \in {Current, Current + 1}}
  /\ work = disk
  /\ writer = None
  /\ at = [m \in Processes |-> "idle"]
  /\ saw = [m \in Processes |-> 0]
  /\ faults = MaxFaults /\ crashes = MaxCrashes
=============================================================================
