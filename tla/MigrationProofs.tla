-------------------------- MODULE MigrationProofs ---------------------------
(***************************************************************************)
(* run_migrations for any number of processes: what the file holds, what   *)
(* the open transaction has made of it, and that no conversion changes     *)
(* what a row means.  The steps of the container use these lemmas.         *)
(***************************************************************************)
EXTENDS ContainerProperties, TLAPS

-----------------------------------------------------------------------------
(* Texts *)

LEMMA Loads ==
  /\ JsonLoads("true") = "yes" /\ JsonLoads("21.5") = "number"
  /\ JsonLoads("'auto'") = "auto" /\ JsonLoads("'True'") = "True"
  BY DEF JsonLoads

JsonValues == {"yes", "number", "auto", "True"}

\* json.loads undoes json.dumps.
LEMMA Dumps ==
  ASSUME NEW v \in JsonValues
  PROVE  JsonDumps(v) \in JsonTexts /\ JsonLoads(JsonDumps(v)) = v
<1>1. \E text \in JsonTexts : JsonLoads(text) = v
  BY Loads DEF JsonValues, JsonTexts
<1> QED BY <1>1 DEF JsonDumps

\* _parse_value gives a value of JSON for every text either version stores.
LEMMA Parses ==
  /\ \A text \in JsonTexts : JsonLoads(text) \in JsonValues
  /\ \A text \in V1Texts : ParseValue(text) = V1Value(text)
  /\ \A text \in V1Texts \cup JsonTexts : ParseValue(text) \in JsonValues
<1>1. \A text \in JsonTexts : JsonLoads(text) \in JsonValues
  BY Loads DEF JsonTexts, JsonValues
<1>2. \A text \in V1Texts : ParseValue(text) = V1Value(text) /\ V1Value(text) \in JsonValues
  BY Loads, MigrationAssumption DEF ParseValue, V1Value, JsonTexts, JsonValues
<1>3. \A text \in JsonTexts : ParseValue(text) = JsonLoads(text)
  BY DEF ParseValue, JsonTexts
<1> QED BY <1>1, <1>2, <1>3

Convert(text) == IF text = NoRow THEN NoRow ELSE JsonDumps(ParseValue(text))

\* A row that is converted keeps its meaning, one that is none stays none.
LEMMA Converts ==
  /\ \A text \in V1Texts \cup JsonTexts \cup {NoRow} : Convert(text) \in JsonTexts \cup {NoRow}
  /\ \A text \in V1Texts :
       /\ Convert(text) # NoRow
       /\ JsonLoads(Convert(text)) = V1Value(text)
  /\ Convert(NoRow) = NoRow
<1>1. NoRow \notin V1Texts \cup JsonTexts
  BY MigrationAssumption DEF NoRow, JsonTexts
<1> QED BY <1>1, Parses, Dumps DEF Convert

-----------------------------------------------------------------------------
(* The invariant of the file *)

Inside == {"tables", "column", "convert", "deliveries", "indexes", "stamp", "commit"}

MigrationType ==
  /\ disk \in FileType /\ work \in FileType
  /\ writer \in Processes \cup {None}
  /\ at \in [Processes -> MigrationLabels]
  /\ saw \in [Processes -> 0..(Current + 1)]
  /\ \A m \in Processes : writer = m <=> at[m] \in Inside
  /\ faults \in 0..MaxFaults /\ crashes \in 0..MaxCrashes

\* A file of an earlier version has nothing of the current one, and conversely.
FileInv ==
  /\ disk.version < Current => /\ disk.schema \subseteq {"tables"}
                               /\ \A r \in Rows : disk.text[r] \in V1Texts \cup {NoRow}
  /\ disk.version >= Current => /\ disk.schema = Parts
                                /\ \A r \in Rows : disk.text[r] \in JsonTexts \cup {NoRow}

\* What a process knows of the version it read some time ago.
SawInv ==
  \A m \in Processes :
    /\ at[m] \in Inside \cup {"begin"} => saw[m] <= disk.version /\ disk.version <= Current
    /\ at[m] = "done" => disk.version = Current

Converted == [r \in Rows |-> Convert(disk.text[r])]

Holds(version, schema, text) ==
  work.version = version /\ work.schema = schema /\ work.text = text

\* What the transaction of m has written, after each statement.
WorkOf(m) ==
  /\ at[m] = "tables" => work = disk
  /\ at[m] = "column" => Holds(disk.version, disk.schema \cup {"tables"}, disk.text)
  /\ at[m] = "convert" =>
       Holds(disk.version, disk.schema \cup {"tables", "state_text"}, disk.text)
  /\ at[m] = "deliveries" =>
       Holds(disk.version, disk.schema \cup {"tables", "state_text"}, Converted)
  /\ at[m] = "indexes" =>
       /\ disk.version < Current
       /\ Holds(disk.version, {"tables", "state_text", "deliveries"}, Converted)
  /\ at[m] = "stamp" => disk.version < Current /\ Holds(disk.version, Parts, Converted)
  /\ at[m] = "commit" =>
       \/ disk.version = Current /\ work = disk
       \/ disk.version < Current /\ Holds(Current, Parts, Converted)

WorkInv ==
  /\ writer = None => work = disk
  /\ \A m \in Processes : writer = m => WorkOf(m)

MigrationInv == MigrationType /\ FileInv /\ SawInv /\ WorkInv

LEMMA MigrationStarts == MigrationInit => MigrationInv
<1> SUFFICES ASSUME MigrationInit PROVE MigrationInv
  OBVIOUS
<1>1. MigrationType
  BY MigrationAssumption DEF MigrationInit, MigrationType, FileType, File, NoRows,
     Current,
     Inside, MigrationLabels, Parts
<1>2. FileInv
  BY DEF MigrationInit, FileInv, File, NoRows, Current, Parts
<1>3. SawInv /\ WorkInv
  BY MigrationAssumption DEF MigrationInit, SawInv, WorkInv, Inside
<1> QED BY <1>1, <1>2, <1>3 DEF MigrationInv

-----------------------------------------------------------------------------
(* Each statement keeps the invariant. *)

LEMMA ReadVersionKeeps ==
  ASSUME MigrationInv, NEW m \in Processes, ReadVersion(m)
  PROVE  MigrationInv'
<1>1. MigrationType'
  BY DEF MigrationInv, MigrationType, ReadVersion, FileType, GoOn, Inside,
     MigrationLabels,
     database, bounds, Current
<1>2. FileInv'
  BY DEF MigrationInv, FileInv, ReadVersion, database
<1>3. SawInv'
  BY DEF MigrationInv, MigrationType, FileType, SawInv, ReadVersion, GoOn, Known,
     Inside, database
<1>4. WorkInv'
  BY DEF MigrationInv, MigrationType, WorkInv, WorkOf, Holds, Converted, ReadVersion,
     GoOn,
     Inside, database
<1> QED BY <1>1, <1>2, <1>3, <1>4 DEF MigrationInv

LEMMA BeginKeeps ==
  ASSUME MigrationInv, NEW m \in Processes, BeginWrite(m)
  PROVE  MigrationInv'
<1>1. MigrationType'
  BY MigrationAssumption DEF MigrationInv, MigrationType, BeginWrite, FileType, GoOn,
     Inside,
     MigrationLabels, bounds
<1>2. FileInv'
  BY DEF MigrationInv, FileInv, BeginWrite
<1>3. SawInv'
  BY DEF MigrationInv, MigrationType, SawInv, BeginWrite, GoOn, Inside
<1>4. WorkInv'
  BY MigrationAssumption DEF MigrationInv, MigrationType, WorkInv, WorkOf, BeginWrite,
     GoOn
<1> QED BY <1>1, <1>2, <1>3, <1>4 DEF MigrationInv

\* What the statements inside the transaction have in common.
LEMMA WriteKeeps ==
  ASSUME MigrationInv, NEW m \in Processes, writer = m, NEW label \in Inside,
         GoOn(m, label), work' \in FileType, UNCHANGED <<disk, writer, saw, bounds>>,
         WorkOf(m)'
  PROVE  MigrationInv'
<1>1. MigrationType'
  BY DEF MigrationInv, MigrationType, GoOn, Inside, MigrationLabels, bounds
<1>2. FileInv'
  BY DEF MigrationInv, FileInv
<1>3. SawInv'
  BY DEF MigrationInv, MigrationType, SawInv, GoOn, Inside
<1>4. WorkInv'
  BY MigrationAssumption DEF MigrationInv, MigrationType, WorkInv
<1> QED BY <1>1, <1>2, <1>3, <1>4 DEF MigrationInv

LEMMA StatementKeeps ==
  ASSUME MigrationInv, NEW m \in Processes,
         \/ CreateTables(m) \/ AddColumn(m) \/ ConvertRows(m)
         \/ CreateDeliveries(m) \/ CreateIndexes(m) \/ StampVersion(m)
  PROVE  MigrationInv'
<1> USE DEF MigrationInv, MigrationType, FileType, Current, In, Write, Add, GoOn,
   Inside, Holds
<1>1. writer = m /\ WorkOf(m) /\ saw[m] <= disk.version /\ disk.version <= Current
  BY DEF WorkInv, SawInv, CreateTables, AddColumn, ConvertRows, CreateDeliveries,
     CreateIndexes, StampVersion
<1>2. CASE CreateTables(m)
  <2>1. work = disk
    BY <1>1, <1>2 DEF WorkOf, CreateTables
  <2>2. work' \in FileType
    BY <1>2 DEF CreateTables, Parts
  <2>3. saw[m] = Current => disk.version = Current /\ work' = disk
    BY <1>1, <1>2, <2>1 DEF CreateTables, FileInv, Parts
  <2>4. WorkOf(m)'
    BY <1>1, <1>2, <2>1, <2>3 DEF CreateTables, WorkOf
  <2> QED BY <1>1, <1>2, <2>2, <2>4, WriteKeeps DEF CreateTables
<1>3. CASE AddColumn(m)
  <2>1. work' \in FileType
    BY <1>3 DEF AddColumn, Parts
  <2>2. WorkOf(m)'
    BY <1>1, <1>3 DEF AddColumn, WorkOf
  <2> QED BY <1>1, <1>3, <2>1, <2>2, WriteKeeps DEF AddColumn
<1>4. CASE ConvertRows(m)
  <2>1. work'.text = Converted /\ work'.version = work.version /\ work'.schema = work.schema
    BY <1>1, <1>4 DEF ConvertRows, WorkOf, Converted, Convert
  <2>2. Converted \in [Rows -> V1Texts \cup JsonTexts \cup {NoRow}]
    BY Converts DEF Converted
  <2>3. work' \in FileType
    BY <1>4, <2>1, <2>2 DEF ConvertRows
  <2>4. WorkOf(m)'
    BY <1>1, <1>4, <2>1 DEF ConvertRows, WorkOf, Converted
  <2> QED BY <1>1, <1>4, <2>3, <2>4, WriteKeeps DEF ConvertRows
<1>5. CASE CreateDeliveries(m)
  <2>1. work' \in FileType
    BY <1>5 DEF CreateDeliveries, Parts
  <2>2. disk.version < Current /\ disk.schema \subseteq {"tables"}
    BY <1>1, <1>5 DEF CreateDeliveries, WorkOf, FileInv, Parts
  <2>3. WorkOf(m)'
    BY <1>1, <1>5, <2>2 DEF CreateDeliveries, WorkOf, Converted
  <2> QED BY <1>1, <1>5, <2>1, <2>3, WriteKeeps DEF CreateDeliveries
<1>6. CASE CreateIndexes(m)
  <2>1. work' \in FileType
    BY <1>6 DEF CreateIndexes, Parts
  <2>2. WorkOf(m)'
    BY <1>1, <1>6 DEF CreateIndexes, WorkOf, Converted, Parts
  <2> QED BY <1>1, <1>6, <2>1, <2>2, WriteKeeps DEF CreateIndexes
<1>7. CASE StampVersion(m)
  <2>1. work' \in FileType
    BY <1>7 DEF StampVersion
  <2>2. WorkOf(m)'
    BY <1>1, <1>7 DEF StampVersion, WorkOf, Converted
  <2> QED BY <1>1, <1>7, <2>1, <2>2, WriteKeeps DEF StampVersion
<1> QED BY <1>2, <1>3, <1>4, <1>5, <1>6, <1>7

\* What the file is to the next process: the same, or current and converted.
LEMMA CommitKeeps ==
  ASSUME MigrationInv, NEW m \in Processes, Commit(m)
  PROVE  /\ MigrationInv'
         /\ \/ disk' = disk
            \/ /\ disk.version < Current
               /\ disk'.version = Current /\ disk'.schema = Parts /\ disk'.text = Converted
<1> USE DEF MigrationInv, MigrationType, FileType, Current, Commit, In, GoOn, Inside,
   Holds
<1>1. writer = m /\ WorkOf(m)
  BY DEF WorkInv
<1>2. \/ disk.version = Current /\ work = disk
      \/ disk.version < Current /\ Holds(Current, Parts, Converted)
  BY <1>1 DEF WorkOf
<1>3. MigrationType'
  BY MigrationAssumption DEF MigrationLabels, bounds
<1>4. FileInv'
  BY <1>2, Converts DEF FileInv, Converted
<1>5. SawInv'
  BY <1>1, <1>2 DEF SawInv
<1>6. WorkInv'
  BY MigrationAssumption DEF WorkInv
<1> QED BY <1>2, <1>3, <1>4, <1>5, <1>6

\* A transaction that does not commit leaves the file as it was.
LEMMA AbandonKeeps ==
  ASSUME MigrationInv, NEW m \in Processes, writer = m, NEW label \in {"idle", "failed"},
         GoOn(m, label), work' = disk, writer' = None, disk' = disk,
         saw' \in [Processes -> 0..(Current + 1)],
         \A n \in Processes \ {m} : saw'[n] = saw[n],
         faults' \in 0..MaxFaults, crashes' \in 0..MaxCrashes
  PROVE  MigrationInv'
<1> USE DEF MigrationInv, MigrationType, GoOn, Inside
<1>1. MigrationType'
  BY MigrationAssumption DEF MigrationLabels
<1>2. FileInv'
  BY DEF FileInv
<1>3. SawInv'
  BY DEF SawInv
<1>4. WorkInv'
  BY MigrationAssumption DEF WorkInv
<1> QED BY <1>1, <1>2, <1>3, <1>4

\* One move of a process that leaves file, transaction and lock alone.
LEMMA MoveKeeps ==
  ASSUME MigrationInv, NEW m \in Processes, writer # m, NEW label \in MigrationLabels,
         label \notin Inside \cup {"begin", "done"}, GoOn(m, label),
         UNCHANGED database, saw' \in [Processes -> 0..(Current + 1)],
         \A n \in Processes \ {m} : saw'[n] = saw[n],
         faults' \in 0..MaxFaults, crashes' \in 0..MaxCrashes
  PROVE  MigrationInv'
<1> USE DEF MigrationInv, MigrationType, GoOn, database
<1>1. MigrationType'
  OBVIOUS
<1>2. FileInv'
  BY DEF FileInv
<1>3. SawInv'
  BY DEF SawInv
<1>4. WorkInv'
  BY DEF WorkInv, WorkOf, Holds, Converted
<1> QED BY <1>1, <1>2, <1>3, <1>4

Upgraded ==
  /\ disk.version < Current
  /\ disk'.version = Current /\ disk'.schema = Parts /\ disk'.text = Converted

\* Whatever a process does about the migration, the file stays or is upgraded.
LEMMA ProcessKeeps ==
  ASSUME MigrationInv, NEW m \in Processes,
         \/ Connect(m) \/ MigrationStep(m) \/ MigrationFails(m)
         \/ UseCrash /\ Dies(m)
  PROVE  MigrationInv' /\ (disk' = disk \/ Upgraded)
<1>0. MigrationType
  BY DEF MigrationInv
<1>1. CASE Connect(m)
  <2>1. writer # m
    BY <1>0, <1>1 DEF Connect, MigrationType, Inside
  <2> QED BY <1>0, <1>1, <2>1, MoveKeeps DEF Connect, MigrationType, MigrationLabels,
     Inside,
     database, bounds
<1>2. CASE ReadVersion(m) \/ BeginWrite(m)
  BY <1>2, ReadVersionKeeps, BeginKeeps DEF ReadVersion, BeginWrite, database
<1>3. CASE \/ CreateTables(m) \/ AddColumn(m) \/ ConvertRows(m)
           \/ CreateDeliveries(m) \/ CreateIndexes(m) \/ StampVersion(m)
  <2>1. disk' = disk
    BY <1>3 DEF CreateTables, AddColumn, ConvertRows, CreateDeliveries, CreateIndexes,
       StampVersion, Write, Add
  <2> QED BY <1>3, <2>1, StatementKeeps
<1>4. CASE Commit(m)
  BY <1>4, CommitKeeps DEF Upgraded
<1>5. CASE FindsDeliveries(m)
  BY <1>0, <1>5, AbandonKeeps DEF FindsDeliveries, Rollback, In, MigrationType, bounds
<1>6. CASE MigrationFails(m)
  <2>1. faults' \in 0..MaxFaults /\ crashes' \in 0..MaxCrashes
    BY <1>0, <1>6, MigrationAssumption DEF MigrationFails, UseFault, MigrationType
  <2>2. CASE writer = m /\ Rollback(m)
    BY <1>0, <2>1, <2>2, AbandonKeeps DEF Rollback, MigrationType
  <2>3. CASE /\ at[m] \in {"version", "begin"} /\ GoOn(m, "failed")
             /\ UNCHANGED <<database, saw>>
    <3>1. writer # m
      BY <1>0, <2>3 DEF MigrationType, Inside
    <3> QED BY <1>0, <2>1, <2>3, <3>1, MoveKeeps DEF MigrationType, MigrationLabels,
       Inside,
       database
  <2> QED BY <1>6, <2>2, <2>3 DEF MigrationFails
<1>7. CASE UseCrash /\ Dies(m)
  <2>1. faults' \in 0..MaxFaults /\ crashes' \in 0..MaxCrashes
    BY <1>0, <1>7, MigrationAssumption DEF UseCrash, MigrationType
  <2>2. /\ saw' \in [Processes -> 0..(Current + 1)]
        /\ \A n \in Processes \ {m} : saw'[n] = saw[n]
    BY <1>0, <1>7 DEF Dies, MigrationType, Current
  <2>3. CASE writer = m
    BY <1>7, <2>1, <2>2, <2>3, AbandonKeeps DEF Dies
  <2>4. CASE writer # m
    BY <1>7, <2>1, <2>2, <2>4, MoveKeeps DEF Dies, MigrationLabels, Inside, database
  <2> QED BY <2>3, <2>4, <1>7 DEF Dies
<1> QED BY <1>1, <1>2, <1>3, <1>4, <1>5, <1>6, <1>7 DEF MigrationStep

\* A transaction of the services on a current file.
LEMMA StoreKeeps ==
  ASSUME MigrationInv, NEW text \in [Rows -> JsonTexts \cup {NoRow}], NEW st,
         Store(text, st), disk.version = Current, UNCHANGED <<migration, bounds>>
  PROVE  /\ MigrationInv'
         /\ disk'.version = Current /\ disk'.schema = disk.schema /\ disk'.text = text
<1> USE DEF MigrationInv, MigrationType, FileType, Store, migration, bounds, Current
<1>1. disk'.version = Current /\ disk'.schema = disk.schema /\ disk'.text = text
  OBVIOUS
<1>2. MigrationType'
  OBVIOUS
<1>3. FileInv'
  BY <1>1 DEF FileInv
<1>4. SawInv'
  BY <1>1 DEF SawInv
<1>5. WorkInv'
  BY MigrationAssumption DEF WorkInv
<1> QED BY <1>1, <1>2, <1>3, <1>4, <1>5
=============================================================================
