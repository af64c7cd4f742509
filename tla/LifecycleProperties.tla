------------------------ MODULE LifecycleProperties ------------------------
(***************************************************************************)
(* What the life of scenarios and alarms has to guarantee.                 *)
(***************************************************************************)
EXTENDS ScenarioLifecycle

Statuses == {"idle", "running", "stopped", "error"}

RunLabels == {"created", "work", "raise", "raised", "hold", "clear", "cleared",
              "unwind", "recordEnd", "recordedEnd"}

(***************************************************************************)
(* Every variable has its type, and stop_all never leaves the registry.    *)
(***************************************************************************)
TypeOK ==
  /\ process \in {"down", "starting", "up", "closing", "closed"}
  /\ leftover \subseteq active
  /\ at \in [Actors -> {"idle", "start", "recordStart", "recordedStart",
                        "stop", "await", "recordStop", "recordedStop"}]
  /\ target \in [Actors -> Scenarios]
  /\ lock \in [Scenarios -> Actors \cup {None}]
  /\ task \in [Scenarios -> RunLabels \cup {"none", "done", "cancelled"}]
  /\ exc \in [Scenarios -> {"none", "cancel", "error"}]
  /\ alarm \in [Scenarios -> 0..NA]
  /\ status \in [Scenarios -> Statuses]
  /\ log \in [Scenarios -> Seq(Statuses \ {"idle"})]
  /\ active \subseteq 1..raised
  /\ raised \in 0..NA /\ epoch \in 0..raised
  /\ calls \in 0..MaxCalls
  /\ faults \in 0..MaxFaults
  /\ crashes \in 0..MaxCrashes

\* Failures and crashes so far.
Mishaps == (MaxFaults - faults) + (MaxCrashes - crashes)

(***************************************************************************)
(* A scenario has one task: no start replaces one that is not done, even   *)
(* one whose run is over and whose end is still being recorded.            *)
(***************************************************************************)
OneRun ==
  [][\A s \in Scenarios :
       task'[s] = "created" /\ task[s] # "created" => Over(s)]_vars

\* The recorded starts no recorded end follows: the next record is a start too,
\* or there is none, the run is over and nobody is inside start or stop.
Unrecorded(s) ==
  {i \in 1..Len(log[s]) :
     /\ log[s][i] = "running"
     /\ IF i < Len(log[s]) THEN log[s][i + 1] = "running" ELSE Over(s) /\ lock[s] = None}

(***************************************************************************)
(* "transitions emit events" (docs/scenarios.md): every recorded start is  *)
(* followed by a recorded end, the last one too as soon as its run is      *)
(* over, but for one with each failure and each crash; the wrapper or      *)
(* stop() records it, or both, whatever a stop interrupts.                 *)
(***************************************************************************)
EndsRecorded == \A s \in Scenarios : Cardinality(Unrecorded(s)) <= Mishaps

(***************************************************************************)
(* At rest, what a scenario shows is the last thing recorded of it, unless *)
(* a recording failed.                                                     *)
(***************************************************************************)
StatusIsRecorded ==
  \A s \in Scenarios :
    lock[s] = None /\ Over(s) /\ status[s] # "idle" /\ faults = MaxFaults
      => log[s][Len(log[s])] = status[s]

\* An alarm some run, or the starting process, is on its way to clear.
Attended(a) ==
  \/ \E s \in Scenarios :
       alarm[s] = a /\ task[s] \in {"raised", "hold", "clear"}
  \/ process = "starting" /\ a \in leftover

(***************************************************************************)
(* While the process lives, an alarm of whatever age is active only if     *)
(* somebody is on his way to clear it, but for one alarm with each failure,*)
(* as long as no stop arrives while an alarm is being cleared.             *)
(***************************************************************************)
AlarmsAreAttended ==
  process \in {"starting", "up", "closing"} =>
    Cardinality({a \in active : ~Attended(a)}) <= MaxFaults - faults

(***************************************************************************)
(* "process restart clears leftover alarms" (docs/scenarios.md): a process *)
(* that serves shows no alarm of an earlier one.                           *)
(***************************************************************************)
NoOldAlarms ==
  process \in {"up", "closing"} => \A a \in active : a > epoch

(***************************************************************************)
(* When Container.close goes on to telemetry and the outbox, no scenario   *)
(* runs, publishes or is being started any more, whatever failed.          *)
(***************************************************************************)
Drained ==
  process = "closed" =>
    /\ \A s \in Scenarios : Over(s) /\ lock[s] = None
    /\ \A c \in Actors : at[c] = "idle"

(***************************************************************************)
(* "Stop waits for cleanup", and cleanup ends: every stop returns, and so  *)
(* does the closing of the container, unless the process dies.             *)
(***************************************************************************)
StopsReturn ==
  \A c \in Actors :
    at[c] \in {"stop", "await", "recordStop", "recordedStop"} ~> at[c] = "idle"

(***************************************************************************)
(* "Stop clears the active alarm" (docs/scenarios.md:30): after a stop,    *)
(* no alarm of the run is active.                                          *)
(***************************************************************************)
StopClearsAlarm ==
  \A s \in AlarmCycles : task[s] = "none" => alarm[s] \notin active
=============================================================================
