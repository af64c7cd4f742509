------------------------- MODULE ScenarioLifecycle -------------------------
(***************************************************************************)
(* How scenarios start, run, end and are stopped (scenarios/base.py), the  *)
(* alarms of AlarmScenario over the alarms table, and the container that   *)
(* clears old alarms when the process starts and stops every scenario when *)
(* it ends.                                                                *)
(*                                                                         *)
(* An action is the code between two awaits.  A publish() is committed at  *)
(* one step and its caller goes on at another; a cancellation may come     *)
(* before or between them.  What a scenario does to devices is abstracted  *)
(* to "work", which may end, fail or be interrupted, and "unwind", the     *)
(* cleanup of its context managers.                                        *)
(***************************************************************************)
EXTENDS Integers, Sequences, FiniteSets

CONSTANTS NS,           \* scenarios 1..NS, in order of registration
          AlarmCycles,  \* those of them that run AlarmScenario.run
          Callers,      \* HTTP request handlers
          Closer,       \* the task that closes the container
          None,         \* nobody
          ClearShield,  \* whether no stop arrives while an alarm is cleared
          NA,           \* bound: alarms raised
          MaxCalls,     \* bound: start and stop requests
          MaxFaults,    \* bound: failures of SQLite and of cleanups
          MaxCrashes    \* bound: crashes

Scenarios == 1..NS
Actors == Callers \cup {Closer}

ASSUME LifecycleAssumption ==
  /\ NS \in Nat \ {0}
  /\ AlarmCycles \subseteq Scenarios
  /\ Closer \notin Callers /\ None \notin Actors
  /\ ClearShield \in BOOLEAN
  /\ NA \in Nat /\ MaxCalls \in Nat /\ MaxFaults \in Nat /\ MaxCrashes \in Nat

VARIABLES
  process,   \* down, starting, up, closing, closed
  leftover,  \* old alarms Container.start has still to clear
  at,        \* where each actor is in start() or stop()
  target,    \* the scenario it starts or stops
  lock,      \* the actor inside a scenario's _lock
  task,      \* where a scenario's task is; "none" if _task is None
  exc,       \* the exception its run is being left with
  alarm,     \* the alarm_id of its last cycle, 0 before the first
  status,    \* BaseScenario._status
  log,       \* the recorded ScenarioLifecycleChanged of each scenario
  active,    \* rows of alarms with cleared_at IS NULL
  raised,    \* alarms raised so far
  epoch,     \* history: alarms raised before this process started
  calls, faults, crashes

container == <<process, leftover>>
actors == <<at, target, lock>>
runs == <<task, exc, alarm>>
store == <<log, active>>
counters == <<raised, epoch>>
bounds == <<calls, faults, crashes>>
vars == <<container, actors, runs, status, store, counters, bounds>>

\* _task is None or done(): ended by itself, or with a CancelledError.
Over(s) == task[s] \in {"none", "done", "cancelled"}

UseFault == faults > 0 /\ faults' = faults - 1

Log(s, st) == log' = [log EXCEPT ![s] = Append(@, st)]
Turn(s, label) == task' = [task EXCEPT ![s] = label]
GoTo(c, label) == at' = [at EXCEPT ![c] = label]
Lock(s, c) == lock[s] = None /\ lock' = [lock EXCEPT ![s] = c]
Unlock(s) == lock' = [lock EXCEPT ![s] = None]

-----------------------------------------------------------------------------
(* ScenarioService.start_scenario and stop_scenario. *)

Request(c, s) ==
  /\ process = "up"
  /\ at[c] = "idle"
  /\ calls > 0 /\ calls' = calls - 1
  /\ \E op \in {"start", "stop"} : GoTo(c, op)
  /\ target' = [target EXCEPT ![c] = s]
  /\ UNCHANGED <<container, lock, runs, status, store, counters, faults, crashes>>

\* Mutant: the test looks at the status, not at the task.
MayStartByStatus(s) == status[s] # "running"

MayStart(s) == Over(s)

\* A task not done, wrong parameters or a target that is not there end the call.
EnterStart(c) ==
  LET s == target[c] IN
  /\ at[c] = "start"
  /\ \/ lock[s] = None /\ GoTo(c, "idle") /\ UNCHANGED lock
     \/ Lock(s, c) /\ MayStart(s) /\ GoTo(c, "recordStart")
  /\ UNCHANGED <<container, target, runs, status, store, counters, bounds>>

CommitStart(c) ==
  /\ at[c] = "recordStart"
  /\ GoTo(c, "recordedStart")
  /\ Log(target[c], "running")
  /\ UNCHANGED <<container, target, lock, runs, status, active, counters, bounds>>

BeginRun(c) ==
  LET s == target[c] IN
  /\ at[c] = "recordedStart"
  /\ GoTo(c, "idle")
  /\ Unlock(s)
  /\ status' = [status EXCEPT ![s] = "running"]
  /\ Turn(s, "created")
  /\ exc' = [exc EXCEPT ![s] = "none"]
  /\ UNCHANGED <<container, target, alarm, store, counters, bounds>>

\* Mutants: stop_all looks for one scenario too many, or gives up at a failure.
MoreToStopPastEnd(c) == c = Closer /\ target[c] <= NS
MoreToStopUnlessFailed(c) == c = Closer /\ target[c] < NS /\ faults = MaxFaults

MoreToStop(c) == c = Closer /\ target[c] < NS

\* A stop has come to its end, or failed: stop_all goes on to the next one.
Return(c) ==
  IF MoreToStop(c)
  THEN /\ target' = [target EXCEPT ![c] = @ + 1]
       /\ GoTo(c, "stop")
       /\ UNCHANGED process
  ELSE /\ process' = IF c = Closer THEN "closed" ELSE process
       /\ GoTo(c, "idle")
       /\ UNCHANGED target

\* Mutant: the alarm is raised before the try statement.
InTryLate == {"hold"}

\* Where the run of an alarm cycle is inside its try statement.
InTry == {"raise", "raised", "hold"}

\* Where a cancelled task is next: without its first turn it never enters a
\* finally; the finally of a cycle clears; that of the wrapper does not go on.
Interrupted(label) ==
  CASE label \in {"created", "recordEnd", "recordedEnd"} -> "cancelled"
    [] label \in InTry -> "clear"
    [] OTHER -> "unwind"

EnterStop(c) ==
  LET s == target[c] IN
  /\ at[c] = "stop"
  /\ \/ /\ Over(s) /\ lock[s] = None
        /\ Turn(s, "none")
        /\ Return(c)
        /\ UNCHANGED <<lock, exc>>
     \/ /\ ~Over(s) /\ Lock(s, c)
        /\ ClearShield => task[s] \notin {"clear", "cleared"}
        /\ Turn(s, Interrupted(task[s]))
        /\ exc' = [exc EXCEPT ![s] = "cancel"]
        /\ GoTo(c, "await")
        /\ UNCHANGED <<process, target>>
  /\ UNCHANGED <<leftover, alarm, status, store, counters, bounds>>

\* Mutant: stop() ignores the CancelledError.
StopRecordsNothing(s) == FALSE

\* "A task cancelled before its first turn never enters its finally."
StopRecords(s) == task[s] = "cancelled"

\* await self._task: it returns, or raises for a cancelled task.
TaskIsOver(c) ==
  LET s == target[c] IN
  /\ at[c] = "await"
  /\ Over(s)
  /\ IF StopRecords(s)
     THEN /\ status' = [status EXCEPT ![s] = "stopped"]
          /\ GoTo(c, "recordStop")
          /\ UNCHANGED <<process, target, lock, task>>
     ELSE /\ Turn(s, "none")
          /\ Unlock(s)
          /\ Return(c)
          /\ UNCHANGED status
  /\ UNCHANGED <<leftover, exc, alarm, store, counters, bounds>>

CommitStop(c) ==
  /\ at[c] = "recordStop"
  /\ GoTo(c, "recordedStop")
  /\ Log(target[c], "stopped")
  /\ UNCHANGED <<container, target, lock, runs, status, active, counters, bounds>>

Stopped(c) ==
  /\ at[c] = "recordedStop"
  /\ Turn(target[c], "none")
  /\ Unlock(target[c])
  /\ Return(c)
  /\ UNCHANGED <<leftover, exc, alarm, status, store, counters, bounds>>

\* The event of a start or a stop cannot be recorded: the call fails.
RecordFails(c) ==
  /\ at[c] \in {"recordStart", "recordStop"}
  /\ UseFault
  /\ Unlock(target[c])
  /\ Return(c)
  /\ UNCHANGED <<leftover, runs, status, store, counters, calls, crashes>>

-----------------------------------------------------------------------------
(* BaseScenario._run_wrapper and AlarmScenario.run: the scenario's task. *)

\* Mutant: the cancellation ends the cycle, not the run.
AfterClearAgain(s) == "work"

\* The next cycle, unless the run is being left.
AfterClear(s) == IF exc[s] = "none" THEN "work" ELSE "unwind"

\* The first turn, an answered publish(), the end of alarm_duration.
Resume(s) ==
  /\ \/ task[s] = "created" /\ Turn(s, "work")
     \/ task[s] = "raised" /\ Turn(s, "hold")
     \/ task[s] = "hold" /\ Turn(s, "clear")
     \/ task[s] = "cleared" /\ Turn(s, AfterClear(s))
     \/ task[s] = "recordedEnd" /\ Turn(s, "done")
  /\ UNCHANGED <<container, actors, exc, alarm, status, store, counters, bounds>>

\* The override of the alarm's point is in force.
RaiseAlarm(s) ==
  /\ s \in AlarmCycles
  /\ task[s] = "work"
  /\ raised < NA
  /\ raised' = raised + 1
  /\ alarm' = [alarm EXCEPT ![s] = raised']
  /\ Turn(s, "raise")
  /\ UNCHANGED <<container, actors, exc, status, store, epoch, bounds>>

CommitAlarm(s) ==
  /\ \/ task[s] = "raise" /\ Turn(s, "raised") /\ active' = active \cup {alarm[s]}
     \/ task[s] = "clear" /\ Turn(s, "cleared") /\ active' = active \ {alarm[s]}
  /\ UNCHANGED <<container, actors, exc, alarm, status, log, counters, bounds>>

\* The failure of a publish() or of the cleanup replaces what the run was being
\* left with.
RunFails(s) ==
  /\ \/ task[s] = "raise" /\ Turn(s, "clear")
     \/ task[s] \in {"clear", "unwind"} /\ Turn(s, "unwind")
  /\ UseFault
  /\ exc' = [exc EXCEPT ![s] = "error"]
  /\ UNCHANGED <<container, actors, alarm, status, store, counters, calls, crashes>>

\* run() returns (manual_override), or fails: a conflict, a device offline.
WorkEnds(s) ==
  /\ task[s] = "work"
  /\ \/ s \notin AlarmCycles /\ UNCHANGED exc
     \/ exc' = [exc EXCEPT ![s] = "error"]
  /\ Turn(s, "unwind")
  /\ UNCHANGED <<container, actors, alarm, status, store, counters, bounds>>

\* The cleanup is over and the wrapper sets the status.
Unwound(s) ==
  /\ task[s] = "unwind"
  /\ status' = [status EXCEPT ![s] =
                  IF exc[s] = "error" THEN "error" ELSE "stopped"]
  /\ Turn(s, "recordEnd")
  /\ UNCHANGED <<container, actors, exc, alarm, store, counters, bounds>>

CommitEnd(s) ==
  /\ task[s] = "recordEnd"
  /\ Log(s, status[s])
  /\ Turn(s, "recordedEnd")
  /\ UNCHANGED <<container, actors, exc, alarm, status, active, counters, bounds>>

\* "Lifecycle recording failed"
EndFails(s) ==
  /\ task[s] = "recordEnd"
  /\ UseFault
  /\ status' = [status EXCEPT ![s] = "error"]
  /\ Turn(s, "done")
  /\ UNCHANGED <<container, actors, exc, alarm, store, counters, calls, crashes>>

-----------------------------------------------------------------------------
(* The process: Container.start, Container.close, a crash. *)

\* Every object is new; what is recorded stays.
FreshMemory ==
  /\ at' = [c \in Actors |-> "idle"]
  /\ target' = [c \in Actors |-> 1]
  /\ lock' = [s \in Scenarios |-> None]
  /\ task' = [s \in Scenarios |-> "none"]
  /\ exc' = [s \in Scenarios |-> "none"]
  /\ alarm' = [s \in Scenarios |-> 0]
  /\ status' = [s \in Scenarios |-> "idle"]

\* get_active: the alarms the last process left.
Boot ==
  /\ process \in {"down", "closed"}
  /\ process' = "starting"
  /\ leftover' = active
  /\ epoch' = raised
  /\ FreshMemory
  /\ UNCHANGED <<store, raised, bounds>>

ClearLeftover(a) ==
  /\ process = "starting"
  /\ a \in leftover
  /\ leftover' = leftover \ {a}
  /\ active' = active \ {a}
  /\ UNCHANGED <<process, actors, runs, status, log, counters, bounds>>

\* A failed publish() ends the lifespan before it serves anything.
BootFails ==
  /\ process = "starting"
  /\ UseFault
  /\ process' = "closed"
  /\ leftover' = {}
  /\ UNCHANGED <<actors, runs, status, store, counters, calls, crashes>>

\* Mutant: old alarms are cleared in the background.
ReadyAtOnce == TRUE

Ready == leftover = {}

Serve ==
  /\ process = "starting"
  /\ Ready
  /\ process' = "up"
  /\ UNCHANGED <<leftover, actors, runs, status, store, counters, bounds>>

\* The server has let its requests end before the lifespan does.
Close ==
  /\ process = "up"
  /\ \A c \in Callers : at[c] = "idle"
  /\ process' = "closing"
  /\ target' = [target EXCEPT ![Closer] = 1]
  /\ GoTo(Closer, "stop")
  /\ UNCHANGED <<leftover, lock, runs, status, store, counters, bounds>>

Crash ==
  /\ process \in {"starting", "up", "closing"}
  /\ crashes > 0 /\ crashes' = crashes - 1
  /\ process' = "down"
  /\ leftover' = {}
  /\ FreshMemory
  /\ UNCHANGED <<store, counters, calls, faults>>

Init ==
  /\ process = "down" /\ leftover = {}
  /\ at = [c \in Actors |-> "idle"]
  /\ target = [c \in Actors |-> 1]
  /\ lock = [s \in Scenarios |-> None]
  /\ task = [s \in Scenarios |-> "none"]
  /\ exc = [s \in Scenarios |-> "none"]
  /\ alarm = [s \in Scenarios |-> 0]
  /\ status = [s \in Scenarios |-> "idle"]
  /\ log = [s \in Scenarios |-> <<>>]
  /\ active = {} /\ raised = 0 /\ epoch = 0
  /\ calls = MaxCalls /\ faults = MaxFaults /\ crashes = MaxCrashes

\* Steps an actor or a scenario's task takes by itself.
ActorStep(c) ==
  \/ EnterStart(c) \/ CommitStart(c) \/ BeginRun(c)
  \/ EnterStop(c) \/ TaskIsOver(c) \/ CommitStop(c) \/ Stopped(c)

RunStep(s) == Resume(s) \/ CommitAlarm(s) \/ Unwound(s) \/ CommitEnd(s)

Next ==
  \/ \E c \in Callers, s \in Scenarios : Request(c, s)
  \/ \E c \in Actors : ActorStep(c) \/ RecordFails(c)
  \/ \E s \in Scenarios :
       RunStep(s) \/ RaiseAlarm(s) \/ WorkEnds(s) \/ RunFails(s) \/ EndFails(s)
  \/ \E a \in leftover : ClearLeftover(a)
  \/ Boot \/ BootFails \/ Serve \/ Close \/ Crash

Spec == Init /\ [][Next]_vars

(***************************************************************************)
(* The event loop runs every ready task, SQLite calls and timers return,   *)
(* and locks are given first come first served (strong fairness: another   *)
(* call may have the lock).  Nobody has to ask for anything.               *)
(***************************************************************************)
Fairness ==
  /\ \A c \in Actors : SF_vars(ActorStep(c))
  /\ \A s \in Scenarios : WF_vars(RunStep(s))

FairSpec == Spec /\ Fairness
=============================================================================
