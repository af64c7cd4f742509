-------------------------- MODULE LifecycleProofs --------------------------
(***************************************************************************)
(* Scenarios and alarms, for any number of scenarios and of callers: types *)
(* and the lock of start and stop, what the process still has to end or to *)
(* clear, and the bookkeeping of recorded ends.                            *)
(***************************************************************************)
EXTENDS LifecycleProperties, FiniteSetTheorems, TLAPS

StopLabels == {"stop", "await", "recordStop", "recordedStop"}
Holding == {"recordStart", "recordedStart", "await", "recordStop", "recordedStop"}
Serving == {"up", "closing"}

\* Nothing runs in a process that does not serve, and a closing one has ended
\* the scenarios before the one it is at.
ProcessInv ==
  /\ process \notin Serving =>
       /\ \A c \in Actors : at[c] = "idle"
       /\ \A s \in Scenarios : lock[s] = None /\ Over(s)
  /\ process # "starting" => leftover = {}
  /\ process # "closing" => at[Closer] = "idle"
  /\ process = "closing" =>
       /\ at[Closer] \in StopLabels
       /\ \A c \in Callers : at[c] = "idle"
       /\ \A s \in Scenarios : s < target[Closer] => Over(s)

\* The lock of a scenario is held by the one actor that starts or stops it.
LockInv ==
  /\ \A c \in Actors : at[c] \in Holding => lock[target[c]] = c
  /\ \A s \in Scenarios : lock[s] # None =>
       at[lock[s]] \in Holding /\ target[lock[s]] = s

\* What a start and a stop have found, and keep as long as they hold the lock;
\* what a wrapper records.
CallInv ==
  /\ \A c \in Actors :
       /\ at[c] \in {"recordStart", "recordedStart"} => Over(target[c])
       /\ at[c] \in {"recordStop", "recordedStop"} =>
            task[target[c]] = "cancelled" /\ status[target[c]] = "stopped"
  /\ \A s \in Scenarios : task[s] = "recordEnd" => status[s] \in {"stopped", "error"}

\* Alarms have one scenario, and those of this process are newer than any before.
AlarmInv ==
  /\ \A s \in Scenarios : alarm[s] # 0 => epoch < alarm[s] /\ alarm[s] <= raised
  /\ \A s, t \in Scenarios : alarm[s] = alarm[t] /\ alarm[s] # 0 => s = t
  /\ \A s \in Scenarios : task[s] \in InTry \cup {"clear"} => alarm[s] # 0
  /\ process \in Serving \cup {"starting"} =>
       \A a \in active : a > epoch \/ a \in leftover

LifecycleInv == TypeOK /\ ProcessInv /\ LockInv /\ CallInv /\ AlarmInv

-----------------------------------------------------------------------------
\* The last thing recorded of s is st.
LastIs(s, st) == Len(log[s]) > 0 /\ log[s][Len(log[s])] = st

\* Where the holder of the lock of s is.
CallOf(s) == IF lock[s] = None THEN "none" ELSE at[lock[s]]

\* Without failures, the status of a run that is over is recorded, or about to be.
RecordInv ==
  faults = MaxFaults => \A s \in Scenarios :
    /\ /\ task[s] \in {"none", "done", "recordedEnd"}
       /\ status[s] # "idle"
       /\ CallOf(s) # "recordedStart"
       => LastIs(s, status[s])
    /\ task[s] = "cancelled" => CallOf(s) \in {"await", "recordStop", "recordedStop"}
    /\ CallOf(s) = "recordedStop" => LastIs(s, "stopped")

\* Somebody has still to record the end of the run whose start is recorded.
EndAhead(s) ==
  \/ task[s] \in RunLabels \ {"recordedEnd"}
  \/ CallOf(s) = "recordedStart"
  \/ task[s] = "cancelled" /\ CallOf(s) \in {"await", "recordStop"}

Repeats(s) == {i \in 1..(Len(log[s]) - 1) :
                 log[s][i] = "running" /\ log[s][i + 1] = "running"}

EndInv ==
  \A s \in Scenarios :
    /\ Cardinality(Repeats(s)) <= Mishaps
    /\ LastIs(s, "running") /\ ~EndAhead(s) => Cardinality(Repeats(s)) < Mishaps

Unattended == {a \in active : ~Attended(a)}

ClearInv == ClearShield => AlarmsAreAttended

-----------------------------------------------------------------------------
(* Types *)

\* A registered scenario follows the one that is not the last.
LEMMA ReturnType ==
  ASSUME TypeOK, NEW c \in Actors, Return(c)
  PROVE  /\ process' \in {"down", "starting", "up", "closing", "closed"}
         /\ \E label \in {"idle", "stop"} : GoTo(c, label)
         /\ target' \in [Actors -> Scenarios]
<1> USE LifecycleAssumption DEF TypeOK, Return, GoTo, MoreToStop
<1>1. CASE MoreToStop(c)
  <2>1. target[c] + 1 \in Scenarios
    BY <1>1 DEF Scenarios
  <2> QED BY <1>1, <2>1
<1>2. CASE ~MoreToStop(c)
  BY <1>2
<1> QED BY <1>1, <1>2

LEMMA FreshTypes ==
  ASSUME FreshMemory
  PROVE  /\ at' \in [Actors -> {"idle"}] /\ target' \in [Actors -> Scenarios]
         /\ lock' \in [Scenarios -> Actors \cup {None}]
         /\ task' \in [Scenarios -> {"none"}] /\ exc' \in [Scenarios -> {"none"}]
         /\ alarm' \in [Scenarios -> {0}] /\ status' \in [Scenarios -> {"idle"}]
  BY LifecycleAssumption DEF FreshMemory, Scenarios

\* The types, but for two conjuncts that need more: an alarm that is raised has
\* been numbered, and only a starting process has old alarms to clear.
Typed ==
  /\ process \in {"down", "starting", "up", "closing", "closed"}
  /\ at \in [Actors -> {"idle", "start", "recordStart", "recordedStart",
                        "stop", "await", "recordStop", "recordedStop"}]
  /\ target \in [Actors -> Scenarios]
  /\ lock \in [Scenarios -> Actors \cup {None}]
  /\ task \in [Scenarios -> RunLabels \cup {"none", "done", "cancelled"}]
  /\ exc \in [Scenarios -> {"none", "cancel", "error"}]
  /\ alarm \in [Scenarios -> 0..NA]
  /\ status \in [Scenarios -> Statuses]
  /\ log \in [Scenarios -> Seq(Statuses \ {"idle"})]
  /\ raised \in 0..NA /\ epoch \in 0..raised
  /\ calls \in 0..MaxCalls
  /\ faults \in 0..MaxFaults
  /\ crashes \in 0..MaxCrashes

LEMMA CallTypes ==
  ASSUME TypeOK, NEW c \in Actors, ActorStep(c) \/ RecordFails(c)
  PROVE  Typed'
<1> USE LifecycleAssumption DEF TypeOK, Typed, Statuses, RunLabels, container, actors,
   runs, store, counters, bounds, GoTo, Turn, Log, Lock, Unlock, UseFault
<1>1. CASE EnterStart(c)
  <2>1. CASE lock[target[c]] = None /\ GoTo(c, "idle") /\ UNCHANGED lock
    BY <1>1, <2>1 DEF EnterStart
  <2>2. CASE Lock(target[c], c) /\ GoTo(c, "recordStart")
    BY <1>1, <2>2 DEF EnterStart
  <2> QED BY <1>1, <2>1, <2>2 DEF EnterStart
<1>2. CASE CommitStart(c)
  BY <1>2 DEF CommitStart
<1>3. CASE BeginRun(c)
  BY <1>3 DEF BeginRun
<1>4. CASE EnterStop(c)
  <2>1. CASE Over(target[c]) /\ Return(c)
    <3>1. task' = [task EXCEPT ![target[c]] = "none"]
      BY <1>4, <2>1 DEF EnterStop
    <3> QED BY <1>4, <2>1, <3>1, ReturnType DEF EnterStop
  <2>2. CASE ~Over(target[c])
    <3>1. Interrupted(task[target[c]]) \in {"cancelled", "clear", "unwind"}
      BY DEF Interrupted
    <3>2. /\ task' = [task EXCEPT ![target[c]] = Interrupted(task[target[c]])]
          /\ exc' = [exc EXCEPT ![target[c]] = "cancel"]
          /\ lock' = [lock EXCEPT ![target[c]] = c]
          /\ at' = [at EXCEPT ![c] = "await"]
          /\ UNCHANGED <<process, target, alarm, status, store, counters, bounds>>
      BY <1>4, <2>2 DEF EnterStop
    <3> QED BY <3>1, <3>2
  <2> QED BY <1>4, <2>1, <2>2 DEF EnterStop
<1>5. CASE TaskIsOver(c)
  <2>1. CASE StopRecords(target[c])
    BY <1>5, <2>1 DEF TaskIsOver
  <2>2. CASE ~StopRecords(target[c])
    <3>1. /\ Return(c) /\ Unlock(target[c]) /\ Turn(target[c], "none")
          /\ UNCHANGED <<exc, alarm, status, store, counters, bounds>>
      BY <1>5, <2>2 DEF TaskIsOver
    <3> QED BY <3>1, ReturnType
  <2> QED BY <2>1, <2>2
<1>6. CASE CommitStop(c)
  BY <1>6 DEF CommitStop
<1>7. CASE Stopped(c)
  BY <1>7, ReturnType DEF Stopped
<1>8. CASE RecordFails(c)
  <2>1. faults' \in 0..MaxFaults
    BY <1>8 DEF RecordFails
  <2> QED BY <1>8, <2>1, ReturnType DEF RecordFails
<1> QED BY <1>1, <1>2, <1>3, <1>4, <1>5, <1>6, <1>7, <1>8 DEF ActorStep

LEMMA RunTypes ==
  ASSUME TypeOK, NEW s \in Scenarios,
         task[s] = "recordEnd" => status[s] \in {"stopped", "error"},
         RunStep(s) \/ RaiseAlarm(s) \/ WorkEnds(s) \/ RunFails(s) \/ EndFails(s)
  PROVE  Typed'
<1> USE LifecycleAssumption DEF TypeOK, Typed, Statuses, RunLabels, container, actors,
   runs, store, counters, bounds, GoTo, Turn, Log, Lock, Unlock, UseFault
<1>1. CASE Resume(s)
  BY <1>1 DEF Resume, AfterClear
<1>2. CASE CommitAlarm(s)
  BY <1>2 DEF CommitAlarm
<1>3. CASE Unwound(s)
  BY <1>3 DEF Unwound
<1>4. CASE CommitEnd(s)
  <2>1. Append(log[s], status[s]) \in Seq(Statuses \ {"idle"})
    BY <1>4 DEF CommitEnd
  <2> QED BY <1>4, <2>1 DEF CommitEnd
<1>5. CASE RaiseAlarm(s)
  BY <1>5 DEF RaiseAlarm
<1>6. CASE WorkEnds(s)
  BY <1>6 DEF WorkEnds
<1>7. CASE RunFails(s)
  <2>1. /\ task' \in [Scenarios -> RunLabels \cup {"none", "done", "cancelled"}]
        /\ exc' \in [Scenarios -> {"none", "cancel", "error"}]
    BY <1>7 DEF RunFails
  <2>2. faults' \in 0..MaxFaults
    BY <1>7 DEF RunFails
  <2> QED BY <1>7, <2>1, <2>2 DEF RunFails
<1>8. CASE EndFails(s)
  BY <1>8 DEF EndFails
<1> QED BY <1>1, <1>2, <1>3, <1>4, <1>5, <1>6, <1>7, <1>8 DEF RunStep

LEMMA TypedSteps ==
  ASSUME LifecycleInv, [Next]_vars
  PROVE  Typed'
<1> USE LifecycleAssumption DEF LifecycleInv, container, actors, runs, store, counters,
   bounds
<1>1. ASSUME NEW c \in Callers, NEW s \in Scenarios, Request(c, s) PROVE Typed'
  BY <1>1 DEF Request, TypeOK, Typed, GoTo, Actors
<1>2. ASSUME NEW c \in Actors, ActorStep(c) \/ RecordFails(c) PROVE Typed'
  BY <1>2, CallTypes
<1>3. ASSUME NEW s \in Scenarios,
             \/ RunStep(s) \/ RaiseAlarm(s) \/ WorkEnds(s) \/ RunFails(s)
             \/ EndFails(s)
      PROVE  Typed'
  BY <1>3, RunTypes DEF CallInv
<1>4. ASSUME NEW a \in leftover, ClearLeftover(a) PROVE Typed'
  BY <1>4 DEF ClearLeftover, TypeOK, Typed
<1>5. CASE Boot
  BY <1>5, FreshTypes DEF Boot, TypeOK, Typed, Statuses, RunLabels
<1>6. CASE BootFails
  BY <1>6 DEF BootFails, UseFault, TypeOK, Typed
<1>7. CASE Serve
  BY <1>7 DEF Serve, TypeOK, Typed
<1>8. CASE Close
  BY <1>8 DEF Close, GoTo, Actors, Scenarios, TypeOK, Typed
<1>9. CASE Crash
  BY <1>9, FreshTypes DEF Crash, TypeOK, Typed, Statuses, RunLabels
<1>10. CASE UNCHANGED vars
  BY <1>10 DEF vars, TypeOK, Typed
<1> QED BY <1>1, <1>2, <1>3, <1>4, <1>5, <1>6, <1>7, <1>8, <1>9, <1>10 DEF Next

-----------------------------------------------------------------------------
(* The lock, the calls and the process *)

Control == ProcessInv /\ LockInv /\ CallInv

\* A task that runs is in a process that serves.
LEMMA RunsWhileServing ==
  ASSUME LifecycleInv, NEW s \in Scenarios, ~Over(s)
  PROVE  process \in Serving
  BY DEF LifecycleInv, ProcessInv

LEMMA RunControl ==
  ASSUME LifecycleInv, Typed', NEW s \in Scenarios,
         RunStep(s) \/ RaiseAlarm(s) \/ WorkEnds(s) \/ RunFails(s) \/ EndFails(s)
  PROVE  Control'
<1> USE DEF RunStep, Resume, CommitAlarm, Unwound, CommitEnd, RaiseAlarm, WorkEnds,
   RunFails,
            EndFails, Turn, container, actors
<1>1. ~Over(s) /\ UNCHANGED <<container, actors>>
  BY DEF Over
<1>2. \A t \in Scenarios \ {s} : task'[t] = task[t] /\ status'[t] = status[t]
  BY DEF LifecycleInv, TypeOK, runs
<1>3. task'[s] = "recordEnd" => status'[s] \in {"stopped", "error"}
  BY DEF LifecycleInv, TypeOK, Statuses, runs, AfterClear
<1>4. process \in Serving
  BY <1>1, RunsWhileServing
<1>5. \A t \in Scenarios \ {s} : Over(t)' <=> Over(t)
  BY <1>2 DEF Over
<1> HIDE DEF RunStep, RaiseAlarm, WorkEnds, RunFails, EndFails
<1>6. ProcessInv'
  BY <1>1, <1>4, <1>5 DEF LifecycleInv, ProcessInv, Serving
<1>7. LockInv'
  BY <1>1 DEF LifecycleInv, LockInv
<1>8. CallInv'
  <2>1. ASSUME NEW c \in Actors PROVE target[c] \in Scenarios /\ target'[c] = target[c]
    BY <1>1 DEF LifecycleInv, TypeOK
  <2>2. ASSUME NEW c \in Actors, at[c] \in {"recordStart", "recordedStart"}
        PROVE  Over(target[c])'
    BY <1>1, <1>5, <2>1, <2>2 DEF LifecycleInv, CallInv, Over
  <2>3. ASSUME NEW c \in Actors, at[c] \in {"recordStop", "recordedStop"}
        PROVE  task'[target[c]] = "cancelled" /\ status'[target[c]] = "stopped"
    BY <1>1, <1>2, <2>1, <2>3 DEF LifecycleInv, CallInv, Over
  <2>4. ASSUME NEW t \in Scenarios, task'[t] = "recordEnd"
        PROVE  status'[t] \in {"stopped", "error"}
    BY <1>2, <1>3, <2>4 DEF LifecycleInv, CallInv
  <2> QED BY <1>1, <2>1, <2>2, <2>3, <2>4 DEF CallInv
<1> QED BY <1>6, <1>7, <1>8 DEF Control

\* The actor that returns lets go of its lock, or never had it.
LEMMA ReturnControl ==
  ASSUME LifecycleInv, Typed', NEW c \in Actors, at[c] # "idle",
         NEW s \in Scenarios, s = target[c], c = Closer => Over(s)',
         task'[s] = "recordEnd" => status'[s] \in {"stopped", "error"},
         Return(c), UNCHANGED leftover,
         \A d \in Actors \ {c} : lock[s] # d, lock' = [lock EXCEPT ![s] = None],
         \A t \in Scenarios \ {s} : task'[t] = task[t] /\ status'[t] = status[t]
  PROVE  Control'
<1>0. /\ ProcessInv /\ LockInv /\ CallInv
      /\ target \in [Actors -> Scenarios]
      /\ lock \in [Scenarios -> Actors \cup {None}]
      /\ at' = [at EXCEPT ![c] = at'[c]] /\ at'[c] \in {"idle", "stop"}
      /\ \A d \in Actors \ {c} : at'[d] = at[d] /\ target'[d] = target[d]
  BY DEF LifecycleInv, TypeOK, Return, GoTo
<1>1. /\ process \in Serving
      /\ c = Closer => process = "closing" /\ \A d \in Actors : d # c => at[d] = "idle"
      /\ c # Closer => process = "up" /\ at[Closer] = "idle"
  BY <1>0 DEF ProcessInv, Serving, Actors
<1>3. \A d \in Actors \ {c} : at[d] \in Holding => target[d] # s
  BY <1>0 DEF LockInv
<1>4. \A t \in Scenarios \ {s} : Over(t) => Over(t)'
  BY DEF Over
<1>5. LockInv'
  <2>1. ASSUME NEW d \in Actors, at'[d] \in Holding PROVE lock'[target'[d]] = d
    <3>1. d # c
      BY <1>0, <2>1 DEF Holding
    <3>2. lock[target[d]] = d /\ target[d] # s /\ target[d] \in Scenarios
      BY <1>0, <1>3, <2>1, <3>1 DEF LockInv
    <3> QED BY <1>0, <3>1, <3>2
  <2>2. ASSUME NEW t \in Scenarios, lock'[t] # None
        PROVE  at'[lock'[t]] \in Holding /\ target'[lock'[t]] = t
    <3>1. t # s /\ lock'[t] = lock[t] /\ lock[t] \in Actors
      BY <1>0, <2>2
    <3>2. lock[t] # c
      BY <1>0, <3>1, <2>2 DEF LockInv
    <3> QED BY <1>0, <2>2, <3>1, <3>2 DEF LockInv
  <2> QED BY <2>1, <2>2 DEF LockInv
<1>6. CallInv'
  <2>1. ASSUME NEW d \in Actors, at'[d] \in Holding
        PROVE  /\ d # c /\ at'[d] = at[d] /\ target'[d] = target[d]
               /\ target[d] \in Scenarios \ {s}
    BY <1>0, <1>3, <2>1 DEF Holding
  <2>2. ASSUME NEW d \in Actors, at'[d] \in {"recordStart", "recordedStart"}
        PROVE  Over(target[d])'
    <3>1. d # c /\ at'[d] = at[d] /\ target'[d] = target[d]
          /\ target[d] \in Scenarios \ {s}
      BY <2>1, <2>2 DEF Holding
    <3>2. Over(target[d])
      BY <1>0, <2>2, <3>1 DEF CallInv
    <3> QED BY <1>4, <3>1, <3>2 DEF Over
  <2>3. ASSUME NEW d \in Actors, at'[d] \in {"recordStop", "recordedStop"}
        PROVE  task'[target'[d]] = "cancelled" /\ status'[target'[d]] = "stopped"
    <3>1. /\ at'[d] = at[d] /\ target'[d] = target[d]
          /\ target[d] \in Scenarios \ {s}
      BY <2>1, <2>3 DEF Holding
    <3> QED BY <1>0, <2>3, <3>1 DEF CallInv
  <2>4. ASSUME NEW t \in Scenarios, task'[t] = "recordEnd"
        PROVE  status'[t] \in {"stopped", "error"}
    BY <1>0, <2>4 DEF CallInv
  <2> QED BY <2>2, <2>3, <2>4 DEF CallInv
<1>7. ProcessInv'
  <2>1. CASE MoreToStop(c)
    <3>1. /\ c = Closer /\ process = "closing" /\ process' = process
          /\ target'[c] = s + 1 /\ at'[c] = "stop"
      BY <1>0, <1>1, <2>1 DEF Return, GoTo, MoreToStop, LifecycleInv, TypeOK
    <3>2. \A t \in Scenarios : t < target'[c] => t < s \/ t = s
      BY <1>0, <3>1 DEF Scenarios
    <3>3. \A t \in Scenarios : t < target'[c] => Over(t)'
      BY <1>0, <1>4, <3>1, <3>2 DEF ProcessInv
    <3>4. \A d \in Callers : at'[d] = "idle"
      BY <1>0, <1>1, <3>1, LifecycleAssumption DEF Actors
    <3>5. leftover' = {}
      BY <1>0, <3>1 DEF ProcessInv
    <3> QED BY <3>1, <3>3, <3>4, <3>5 DEF ProcessInv, StopLabels, Serving
  <2>2. CASE ~MoreToStop(c) /\ c = Closer
    <3>1. process' = "closed" /\ at'[c] = "idle" /\ target[c] = NS
      BY <1>0, <1>1, <2>2, LifecycleAssumption
         DEF Return, GoTo, MoreToStop, Scenarios, LifecycleInv, TypeOK
    <3>2. \A t \in Scenarios : t < s \/ t = s
      BY <3>1, LifecycleAssumption DEF Scenarios
    <3>3. \A t \in Scenarios : Over(t)'
      BY <1>0, <1>1, <1>4, <2>2, <3>2 DEF ProcessInv
    <3>4. \A d \in Actors : at'[d] = "idle"
      BY <1>0, <1>1, <2>2, <3>1
    <3>5. \A t \in Scenarios : lock'[t] = None
      <4>1. \A t \in Scenarios : lock'[t] \in Actors \cup {None}
        BY DEF Typed
      <4> QED BY <1>5, <3>4, <4>1 DEF LockInv, Holding
    <3>6. leftover' = {}
      BY <1>0, <1>1, <2>2 DEF ProcessInv
    <3> QED BY <2>2, <3>1, <3>3, <3>4, <3>5, <3>6 DEF ProcessInv, Serving
  <2>3. CASE c # Closer
    <3>1. process' = "up" /\ at'[Closer] = "idle"
      BY <1>0, <1>1, <2>3, LifecycleAssumption DEF Return, MoreToStop, Actors
    <3> QED BY <1>0, <1>1, <2>3, <3>1 DEF ProcessInv, Serving
  <2> QED BY <2>1, <2>2, <2>3
<1> QED BY <1>5, <1>6, <1>7 DEF Control

\* An actor goes on inside the lock, or takes it.
LEMMA HoldControl ==
  ASSUME LifecycleInv, Typed', NEW c \in Actors, at[c] # "idle",
         NEW s \in Scenarios, s = target[c], NEW label \in Holding, GoTo(c, label),
         UNCHANGED <<container, target>>,
         lock[s] \in {None, c}, lock' = [lock EXCEPT ![s] = c],
         \A t \in Scenarios \ {s} : task'[t] = task[t] /\ status'[t] = status[t],
         c = Closer => label \in StopLabels, Over(s) => Over(s)',
         label \in {"recordStart", "recordedStart"} => Over(s)',
         label \in {"recordStop", "recordedStop"} =>
           task'[s] = "cancelled" /\ status'[s] = "stopped",
         task'[s] # "recordEnd"
  PROVE  Control'
<1>0. /\ ProcessInv /\ LockInv /\ CallInv
      /\ target \in [Actors -> Scenarios]
      /\ lock \in [Scenarios -> Actors \cup {None}]
      /\ at'[c] = label /\ process' = process /\ leftover' = leftover /\ target' = target
      /\ \A d \in Actors \ {c} : at'[d] = at[d]
  BY DEF LifecycleInv, TypeOK, GoTo, container
<1>1. \A d \in Actors \ {c} : at[d] \in Holding => target[d] # s
  BY <1>0, LifecycleAssumption DEF LockInv
<1>2. \A t \in Scenarios : Over(t) => Over(t)'
  BY DEF Over
<1>3. LockInv'
  <2>1. \A d \in Actors : at'[d] \in Holding => lock'[target'[d]] = d
    BY <1>0, <1>1 DEF LockInv
  <2>2. ASSUME NEW t \in Scenarios, lock'[t] # None
        PROVE  at'[lock'[t]] \in Holding /\ target'[lock'[t]] = t
    <3>1. CASE t = s
      BY <1>0, <3>1
    <3>2. CASE t # s
      <4>1. lock'[t] = lock[t] /\ lock[t] \in Actors
        BY <1>0, <2>2, <3>2
      <4> QED BY <1>0, <2>2, <3>2, <4>1 DEF LockInv
    <3> QED BY <3>1, <3>2
  <2> QED BY <2>1, <2>2 DEF LockInv
<1>4. CallInv'
  <2>1. ASSUME NEW d \in Actors, at'[d] \in {"recordStart", "recordedStart"}
        PROVE  Over(target[d])'
    <3>1. CASE d = c
      BY <1>0, <2>1, <3>1 DEF Over
    <3>2. CASE d # c
      BY <1>0, <1>2, <2>1, <3>2 DEF CallInv, Over
    <3> QED BY <3>1, <3>2
  <2>2. ASSUME NEW d \in Actors, at'[d] \in {"recordStop", "recordedStop"}
        PROVE  task'[target'[d]] = "cancelled" /\ status'[target'[d]] = "stopped"
    <3>1. CASE d = c
      BY <1>0, <2>2, <3>1
    <3>2. CASE d # c
      <4>1. target[d] \in Scenarios \ {s}
        BY <1>0, <1>1, <2>2, <3>2 DEF Holding
      <4> QED BY <1>0, <2>2, <3>2, <4>1 DEF CallInv
    <3> QED BY <3>1, <3>2
  <2>3. ASSUME NEW t \in Scenarios, task'[t] = "recordEnd"
        PROVE  status'[t] \in {"stopped", "error"}
    BY <1>0, <2>3 DEF CallInv
  <2> QED BY <2>1, <2>2, <2>3 DEF CallInv
<1>5. ProcessInv'
  <2>1. process \in Serving
    BY <1>0 DEF ProcessInv
  <2>2. process # "closing" => c # Closer
    BY <1>0 DEF ProcessInv
  <2>3. process = "closing" => c = Closer
    BY <1>0 DEF ProcessInv, Actors
  <2>4. process = "closing" =>
          /\ at'[Closer] \in StopLabels
          /\ \A d \in Callers : at'[d] = "idle"
          /\ \A t \in Scenarios : t < target'[Closer] => Over(t)'
    BY <1>0, <1>2, <2>3, LifecycleAssumption DEF ProcessInv, Actors
  <2>5. process # "closing" => at'[Closer] = "idle"
    BY <1>0, <2>2 DEF ProcessInv, Actors
  <2> QED BY <1>0, <2>1, <2>4, <2>5 DEF ProcessInv
<1> QED BY <1>3, <1>4, <1>5 DEF Control

LEMMA CallControl ==
  ASSUME LifecycleInv, Typed', NEW c \in Actors, ActorStep(c) \/ RecordFails(c)
  PROVE  Control'
<1>s. PICK s \in Scenarios : s = target[c]
  BY DEF LifecycleInv, TypeOK
<1> USE <1>s
<1>0. /\ ProcessInv /\ LockInv /\ CallInv
      /\ target \in [Actors -> Scenarios]
      /\ at \in [Actors -> {"idle", "start", "recordStart", "recordedStart",
                            "stop", "await", "recordStop", "recordedStop"}]
      /\ lock \in [Scenarios -> Actors \cup {None}]
      /\ task \in [Scenarios -> RunLabels \cup {"none", "done", "cancelled"}]
      /\ status \in [Scenarios -> Statuses]
  BY DEF LifecycleInv, TypeOK
<1>1. /\ at[c] \in {"start", "recordStart", "recordedStart"} => c # Closer
      /\ at[c] \in Holding => lock[s] = c
      /\ lock[s] = c => at[c] \in Holding
  BY <1>0, LifecycleAssumption DEF ProcessInv, LockInv, StopLabels
<1>2. lock[s] = None => \A d \in Actors \ {c} : lock[s] # d
  BY LifecycleAssumption
<1> USE DEF container, runs, store
<1>3. CASE EnterStart(c)
  <2>1. CASE lock[s] = None /\ GoTo(c, "idle") /\ UNCHANGED lock
    <3>1. /\ Return(c) /\ lock' = [lock EXCEPT ![s] = None]
          /\ task' = task /\ status' = status
      BY <1>0, <1>1, <1>3, <2>1 DEF EnterStart, Return, MoreToStop
    <3>2. at[c] # "idle" /\ c # Closer
      BY <1>1, <1>3 DEF EnterStart
    <3>3. task'[s] = "recordEnd" => status'[s] \in {"stopped", "error"}
      BY <1>0, <3>1 DEF CallInv
    <3> QED BY <1>0, <1>2, <1>3, <2>1, <3>1, <3>2, <3>3, ReturnControl DEF EnterStart
  <2>2. CASE Lock(s, c) /\ Over(s) /\ GoTo(c, "recordStart")
    <3>1. /\ at[c] = "start" /\ lock[s] = None /\ lock' = [lock EXCEPT ![s] = c]
          /\ task' = task /\ status' = status /\ UNCHANGED <<container, target>>
      BY <1>3, <2>2 DEF EnterStart, Lock
    <3>2. Over(s)' /\ task'[s] # "recordEnd"
      BY <2>2, <3>1 DEF Over, EnterStart
    <3> QED BY <1>0, <1>1, <2>2, <3>1, <3>2, HoldControl DEF Holding
  <2> QED BY <1>3, <2>1, <2>2 DEF EnterStart, MayStart
<1>4. CASE CommitStart(c)
  <2>1. /\ at[c] = "recordStart" /\ lock[s] = c /\ Over(s)
        /\ task' = task /\ status' = status
        /\ UNCHANGED <<container, target, lock>> /\ GoTo(c, "recordedStart")
    BY <1>0, <1>1, <1>4 DEF CommitStart, Holding, CallInv
  <2>2. Over(s)' /\ task'[s] # "recordEnd" /\ lock' = [lock EXCEPT ![s] = c]
    BY <1>0, <2>1 DEF Over
  <2> QED BY <1>0, <1>1, <2>1, <2>2, HoldControl DEF Holding
<1>5. CASE BeginRun(c)
  <2>1. /\ at[c] = "recordedStart" /\ lock[s] = c /\ c # Closer
        /\ Return(c) /\ UNCHANGED container
        /\ lock' = [lock EXCEPT ![s] = None] /\ task'[s] = "created"
        /\ \A t \in Scenarios \ {s} : task'[t] = task[t] /\ status'[t] = status[t]
    BY <1>0, <1>1, <1>5 DEF BeginRun, Holding, Return, MoreToStop, Unlock, Turn
  <2> QED BY <1>0, <2>1, ReturnControl
<1>6. CASE EnterStop(c)
  <2>1. CASE Over(s) /\ lock[s] = None
    <3>1. /\ at[c] = "stop" /\ Return(c) /\ UNCHANGED leftover
          /\ lock' = [lock EXCEPT ![s] = None] /\ task'[s] = "none"
          /\ \A t \in Scenarios \ {s} : task'[t] = task[t] /\ status'[t] = status[t]
      BY <1>0, <1>6, <2>1 DEF EnterStop, Turn
    <3> QED BY <1>0, <1>2, <2>1, <3>1, ReturnControl DEF Over
  <2>2. CASE ~Over(s)
    <3>1. /\ at[c] = "stop" /\ lock[s] = None /\ lock' = [lock EXCEPT ![s] = c]
          /\ GoTo(c, "await") /\ UNCHANGED <<container, target>>
          /\ task' = [task EXCEPT ![s] = Interrupted(task[s])] /\ status' = status
      BY <1>6, <2>2 DEF EnterStop, Lock, Turn
    <3>2. Interrupted(task[s]) # "recordEnd"
      BY DEF Interrupted
    <3> QED BY <1>0, <2>2, <3>1, <3>2, HoldControl DEF Holding, StopLabels
  <2> QED BY <1>6, <2>1, <2>2 DEF EnterStop
<1>7. CASE TaskIsOver(c)
  <2>1. CASE StopRecords(s)
    <3>1. /\ at[c] = "await" /\ lock[s] = c /\ GoTo(c, "recordStop")
          /\ UNCHANGED <<container, target, lock, task>>
          /\ task[s] = "cancelled" /\ status' = [status EXCEPT ![s] = "stopped"]
      BY <1>1, <1>7, <2>1 DEF TaskIsOver, StopRecords, Holding
    <3>2. Over(s)' /\ task'[s] = "cancelled" /\ lock' = [lock EXCEPT ![s] = c]
      BY <1>0, <3>1 DEF Over
    <3> QED BY <1>0, <3>1, <3>2, HoldControl DEF Holding, StopLabels
  <2>2. CASE ~StopRecords(s)
    <3>1. /\ at[c] = "await" /\ lock[s] = c /\ Return(c) /\ UNCHANGED leftover
          /\ lock' = [lock EXCEPT ![s] = None] /\ task'[s] = "none"
          /\ \A t \in Scenarios \ {s} : task'[t] = task[t] /\ status'[t] = status[t]
      BY <1>0, <1>1, <1>7, <2>2 DEF TaskIsOver, Turn, Unlock, Holding
    <3> QED BY <1>0, <3>1, ReturnControl DEF Over
  <2> QED BY <2>1, <2>2
<1>8. CASE CommitStop(c)
  <2>1. /\ at[c] = "recordStop" /\ lock[s] = c
        /\ task[s] = "cancelled" /\ status[s] = "stopped"
        /\ task' = task /\ status' = status
        /\ UNCHANGED <<container, target, lock>> /\ GoTo(c, "recordedStop")
    BY <1>0, <1>1, <1>8 DEF CommitStop, Holding, CallInv
  <2>2. Over(s)' /\ lock' = [lock EXCEPT ![s] = c]
    BY <1>0, <2>1 DEF Over
  <2> QED BY <1>0, <2>1, <2>2, HoldControl DEF Holding, StopLabels
<1>9. CASE Stopped(c)
  <2>1. /\ at[c] = "recordedStop" /\ lock[s] = c /\ Return(c) /\ UNCHANGED leftover
        /\ lock' = [lock EXCEPT ![s] = None] /\ task'[s] = "none"
        /\ \A t \in Scenarios \ {s} : task'[t] = task[t] /\ status'[t] = status[t]
    BY <1>0, <1>1, <1>9 DEF Stopped, Turn, Unlock, Holding
  <2> QED BY <1>0, <2>1, ReturnControl DEF Over
<1>10. CASE RecordFails(c)
  <2>1. /\ at[c] \in {"recordStart", "recordStop"} /\ lock[s] = c
        /\ Return(c) /\ UNCHANGED leftover
        /\ lock' = [lock EXCEPT ![s] = None] /\ task' = task /\ status' = status
        /\ Over(s)
    BY <1>0, <1>1, <1>10 DEF RecordFails, Unlock, Holding, CallInv, Over
  <2>2. Over(s)' /\ task'[s] # "recordEnd"
    BY <2>1 DEF Over
  <2> QED BY <1>0, <2>1, <2>2, ReturnControl
<1> QED BY <1>3, <1>4, <1>5, <1>6, <1>7, <1>8, <1>9, <1>10 DEF ActorStep

LEMMA ProcessControl ==
  ASSUME LifecycleInv, Typed',
         \/ \E a \in leftover : ClearLeftover(a)
         \/ Boot \/ BootFails \/ Serve \/ Close \/ Crash
  PROVE  Control'
<1> USE DEF LifecycleInv, Control, ProcessInv, LockInv, CallInv, Serving, actors, runs
<1>1. ASSUME NEW a \in leftover, ClearLeftover(a) PROVE Control'
  BY <1>1 DEF ClearLeftover, Over
<1>2. ASSUME Boot \/ Crash PROVE Control'
  <2>1. /\ process' \in {"starting", "down"}
        /\ process' = "down" => leftover' = {}
        /\ FreshMemory
    BY <1>2 DEF Boot, Crash
  <2>2. /\ \A c \in Actors : at'[c] = "idle"
        /\ \A s \in Scenarios : lock'[s] = None /\ task'[s] = "none"
    BY <2>1 DEF FreshMemory
  <2> QED BY <2>1, <2>2 DEF Over, Holding, Actors
<1>3. CASE BootFails
  BY <1>3 DEF BootFails, Over
<1>4. CASE Serve
  BY <1>4 DEF Serve, Ready, Over
<1>5. CASE Close
  <2>1. /\ process' = "closing" /\ process = "up" /\ leftover' = leftover
        /\ UNCHANGED <<lock, runs, status>>
        /\ at'[Closer] = "stop" /\ target'[Closer] = 1
        /\ \A c \in Callers : at'[c] = "idle"
        /\ \A c \in Callers : at[c] = "idle"
    BY <1>5, LifecycleAssumption DEF Close, GoTo, Actors, TypeOK
  <2>3. \A s \in Scenarios : lock[s] = None
    <3>1. \A s \in Scenarios : lock[s] \in Actors \cup {None}
      BY DEF TypeOK
    <3> QED BY <2>1, <3>1 DEF Holding, Actors
  <2>2. \A s \in Scenarios : ~ (s < target'[Closer])
    BY <2>1 DEF Scenarios
  <2> QED BY <2>1, <2>2, <2>3, LifecycleAssumption DEF Actors, StopLabels, Holding
<1> QED BY <1>1, <1>2, <1>3, <1>4, <1>5

LEMMA ControlSteps ==
  ASSUME LifecycleInv, [Next]_vars
  PROVE  Control'
<1>0. Typed'
  BY TypedSteps
<1>1. ASSUME NEW c \in Callers, NEW s \in Scenarios, Request(c, s) PROVE Control'
  <2>1. /\ process = "up" /\ process' = "up" /\ leftover' = leftover
        /\ at[c] = "idle" /\ at'[c] \in {"start", "stop"} /\ c # Closer
        /\ \A d \in Actors \ {c} : at'[d] = at[d] /\ target'[d] = target[d]
        /\ lock' = lock /\ task' = task /\ status' = status
    BY <1>1, LifecycleAssumption
       DEF Request, GoTo, LifecycleInv, TypeOK, Actors, container, runs
  <2>2. LockInv'
    <3>1. \A d \in Actors : at'[d] \in Holding =>
            d # c /\ at[d] \in Holding /\ target'[d] = target[d]
      BY <2>1 DEF Holding
    <3>2. ASSUME NEW t \in Scenarios, lock[t] # None PROVE lock[t] \in Actors \ {c}
      <4>1. lock[t] \in Actors
        BY <3>2 DEF LifecycleInv, TypeOK
      <4>2. at[lock[t]] \in Holding
        BY <3>2 DEF LifecycleInv, LockInv
      <4> QED BY <2>1, <4>1, <4>2 DEF Holding
    <3> QED BY <2>1, <3>1, <3>2 DEF LifecycleInv, LockInv
  <2>3. CallInv'
    BY <2>1 DEF LifecycleInv, CallInv, Over
  <2>4. ProcessInv'
    BY <2>1 DEF LifecycleInv, ProcessInv, Serving, Actors
  <2> QED BY <2>2, <2>3, <2>4 DEF Control
<1>2. CASE UNCHANGED vars
  BY <1>2 DEF vars, container, actors, runs, LifecycleInv, Control, ProcessInv, LockInv,
     CallInv, Over
<1> QED BY <1>0, <1>1, <1>2, CallControl, RunControl, ProcessControl DEF Next

-----------------------------------------------------------------------------
(* Alarms *)

\* A step that raises nothing and clears old alarms in order.
LEMMA SameAlarms ==
  ASSUME LifecycleInv, UNCHANGED <<alarm, counters>>,
         \A s \in Scenarios : task'[s] \in InTry \cup {"clear"} =>
           task[s] \in InTry \cup {"clear"},
         process' \in Serving \cup {"starting"} => process \in Serving \cup {"starting"},
         \A a \in active' : a \in active \/ a > epoch,
         leftover \subseteq leftover' \cup {a \in leftover : a \notin active'}
  PROVE  AlarmInv'
  BY DEF LifecycleInv, AlarmInv, counters

LEMMA AlarmSteps ==
  ASSUME LifecycleInv, [Next]_vars
  PROVE  AlarmInv' /\ active' \subseteq 1..raised' /\ leftover' \subseteq active'
<1> USE DEF LifecycleInv, TypeOK, container, actors, runs, store, counters
<1> DEFINE Goal == AlarmInv' /\ active' \subseteq 1..raised' /\ leftover' \subseteq active'
<1>1. ASSUME NEW c \in Actors, ActorStep(c) \/ RecordFails(c) PROVE Goal
  <2>1. UNCHANGED <<leftover, alarm, active, counters>>
    BY <1>1 DEF ActorStep, EnterStart, CommitStart, BeginRun, EnterStop, TaskIsOver,
       CommitStop,
       Stopped, RecordFails
  <2>2. \A s \in Scenarios : task'[s] \in InTry \cup {"clear"} =>
          task[s] \in InTry \cup {"clear"}
    BY <1>1 DEF ActorStep, EnterStart, CommitStart, BeginRun, EnterStop, TaskIsOver,
       CommitStop,
       Stopped, RecordFails, Turn, Interrupted, InTry
  <2>3. process' \in Serving \cup {"starting"} => process \in Serving \cup {"starting"}
    BY <1>1 DEF ActorStep, EnterStart, CommitStart, BeginRun, EnterStop, TaskIsOver,
       CommitStop,
       Stopped, RecordFails, Return, Serving
  <2>4. AlarmInv'
    BY <2>1, <2>2, <2>3, SameAlarms DEF AlarmInv
  <2> QED BY <2>1, <2>4
<1>2. ASSUME NEW c \in Callers, NEW s \in Scenarios, Request(c, s) PROVE Goal
  BY <1>2 DEF Request, AlarmInv
<1>3. ASSUME NEW s \in Scenarios, Resume(s) \/ Unwound(s) \/ CommitEnd(s) \/ WorkEnds(s)
                                  \/ RunFails(s) \/ EndFails(s)
      PROVE  Goal
  <2>1. UNCHANGED <<process, leftover, alarm, active, counters>>
    BY <1>3 DEF Resume, Unwound, CommitEnd, WorkEnds, RunFails, EndFails
  <2>2. \A t \in Scenarios : task'[t] \in InTry \cup {"clear"} =>
          task[t] \in InTry \cup {"clear"}
    BY <1>3 DEF Resume, Unwound, CommitEnd, WorkEnds, RunFails, EndFails, Turn, InTry,
       AfterClear
  <2>3. AlarmInv'
    BY <2>1, <2>2, SameAlarms
  <2> QED BY <2>1, <2>3
<1>4. ASSUME NEW s \in Scenarios, CommitAlarm(s) PROVE Goal
  <2>1. task[s] \in InTry \cup {"clear"} /\ process \in Serving
    BY <1>4, RunsWhileServing DEF CommitAlarm, InTry, Over
  <2>2. alarm[s] \in 1..raised /\ alarm[s] > epoch
    BY <2>1 DEF AlarmInv
  <2>3. /\ UNCHANGED <<process, leftover, alarm, counters>>
        /\ active' \subseteq active \cup {alarm[s]}
        /\ leftover = {}
    BY <1>4, <2>1 DEF CommitAlarm, ProcessInv, Serving
  <2>4. \A t \in Scenarios : task'[t] \in InTry \cup {"clear"} =>
          task[t] \in InTry \cup {"clear"}
    BY <1>4 DEF CommitAlarm, Turn, InTry
  <2>5. AlarmInv'
    BY <2>2, <2>3, <2>4, SameAlarms
  <2> QED BY <2>2, <2>3, <2>5
<1>5. ASSUME NEW s \in Scenarios, RaiseAlarm(s) PROVE Goal
  <2>1. /\ raised' = raised + 1 /\ alarm' = [alarm EXCEPT ![s] = raised + 1]
        /\ UNCHANGED <<process, leftover, active, epoch>>
        /\ \A t \in Scenarios \ {s} : task'[t] = task[t]
    BY <1>5 DEF RaiseAlarm, Turn
  <2>2. ASSUME NEW t \in Scenarios PROVE alarm[t] # raised + 1
    <3>1. alarm[t] \in 0..NA /\ raised \in Nat
      OBVIOUS
    <3>2. alarm[t] # 0 => alarm[t] <= raised
      BY DEF AlarmInv
    <3> QED BY <3>1, <3>2
  <2>3. alarm'[s] = raised + 1 /\ \A t \in Scenarios \ {s} : alarm'[t] = alarm[t]
    BY <2>1
  <2>4. AlarmInv'
    BY <2>1, <2>2, <2>3 DEF AlarmInv
  <2> QED BY <2>1, <2>4
<1>6. ASSUME NEW a \in leftover, ClearLeftover(a) PROVE Goal
  BY <1>6, SameAlarms DEF ClearLeftover
<1>7. CASE Boot
  BY <1>7 DEF Boot, FreshMemory, AlarmInv, InTry
<1>8. CASE BootFails
  BY <1>8 DEF BootFails, AlarmInv, Serving
<1>9. CASE Serve
  BY <1>9 DEF Serve, Ready, AlarmInv, Serving
<1>10. CASE Close
  BY <1>10 DEF Close, AlarmInv, Serving
<1>11. CASE Crash
  BY <1>11 DEF Crash, FreshMemory, AlarmInv, InTry, Serving
<1>12. CASE UNCHANGED vars
  BY <1>12 DEF vars, AlarmInv
<1> QED BY <1>1, <1>2, <1>3, <1>4, <1>5, <1>6, <1>7, <1>8, <1>9, <1>10, <1>11, <1>12
        DEF Next, RunStep

-----------------------------------------------------------------------------
(* What a step does to one scenario *)

Same(s) == UNCHANGED <<task[s], status[s], log[s], CallOf(s)>>

Records(s, st) == log'[s] = Append(log[s], st)

\* start() and stop() with the lock of s.
CallStep(s) ==
  \/ /\ CallOf(s) = "none" /\ CallOf(s)' = "recordStart" /\ Over(s)
     /\ UNCHANGED <<task[s], status[s], log[s]>>
  \/ /\ CallOf(s) = "recordStart" /\ CallOf(s)' = "recordedStart" /\ Over(s)
     /\ Records(s, "running") /\ UNCHANGED <<task[s], status[s]>>
  \/ /\ CallOf(s) = "recordedStart" /\ CallOf(s)' = "none"
     /\ task'[s] = "created" /\ status'[s] = "running" /\ UNCHANGED log[s]
  \/ /\ CallOf(s) = "none" /\ CallOf(s)' = "none" /\ Over(s) /\ task'[s] = "none"
     /\ UNCHANGED <<status[s], log[s]>>
  \/ /\ CallOf(s) = "none" /\ CallOf(s)' = "await" /\ ~Over(s)
     /\ task'[s] = Interrupted(task[s]) /\ UNCHANGED <<status[s], log[s]>>
  \/ /\ CallOf(s) = "await" /\ CallOf(s)' = "recordStop" /\ task[s] = "cancelled"
     /\ status'[s] = "stopped" /\ UNCHANGED <<task[s], log[s]>>
  \/ /\ CallOf(s) = "await" /\ CallOf(s)' = "none" /\ Over(s) /\ task[s] # "cancelled"
     /\ task'[s] = "none" /\ UNCHANGED <<status[s], log[s]>>
  \/ /\ CallOf(s) = "recordStop" /\ CallOf(s)' = "recordedStop" /\ task[s] = "cancelled"
     /\ status[s] = "stopped" /\ Records(s, "stopped") /\ UNCHANGED <<task[s], status[s]>>
  \/ /\ CallOf(s) = "recordedStop" /\ CallOf(s)' = "none" /\ status[s] = "stopped"
     /\ task[s] = "cancelled" /\ task'[s] = "none" /\ UNCHANGED <<status[s], log[s]>>

\* The event of a call cannot be recorded.
CallFails(s) ==
  /\ CallOf(s) \in {"recordStart", "recordStop"} /\ CallOf(s)' = "none" /\ Over(s)
  /\ UNCHANGED <<task[s], status[s], log[s]>>

\* The task of s.
TaskStep(s) ==
  /\ UNCHANGED CallOf(s)
  /\ CallOf(s) # "recordedStop"
  /\ \/ /\ task[s] \in RunLabels \ {"recordEnd", "recordedEnd"}
        /\ task'[s] \in RunLabels \ {"recordedEnd"}
        /\ UNCHANGED log[s]
     \/ /\ task[s] = "recordEnd" /\ task'[s] = "recordedEnd"
        /\ status[s] \in {"stopped", "error"} /\ Records(s, status[s]) /\ UNCHANGED status[s]
     \/ /\ task[s] = "recordedEnd" /\ task'[s] = "done" /\ UNCHANGED <<status[s], log[s]>>

\* A process forgets, or never knew, what it holds.
Fresh(s) ==
  task'[s] = "none" /\ status'[s] = "idle" /\ CallOf(s)' = "none" /\ UNCHANGED log[s]

LEMMA CallMoves ==
  ASSUME LifecycleInv, NEW c \in Actors, ActorStep(c) \/ RecordFails(c),
         NEW t \in Scenarios
  PROVE  \/ Same(t)
         \/ CallStep(t) /\ ActorStep(c)
         \/ CallFails(t) /\ RecordFails(c)
<1>s. PICK s \in Scenarios : s = target[c]
  BY DEF LifecycleInv, TypeOK
<1> USE <1>s
<1>0. /\ c # None
      /\ lock \in [Scenarios -> Actors \cup {None}]
      /\ at \in [Actors -> {"idle", "start", "recordStart", "recordedStart",
                            "stop", "await", "recordStop", "recordedStop"}]
      /\ task \in [Scenarios -> RunLabels \cup {"none", "done", "cancelled"}]
      /\ status \in [Scenarios -> Statuses]
      /\ log \in [Scenarios -> Seq(Statuses \ {"idle"})]
  BY LifecycleAssumption DEF LifecycleInv, TypeOK
<1>1. /\ at[c] \in Holding => lock[s] = c /\ CallOf(s) = at[c]
      /\ lock[s] = None => CallOf(s) = "none"
  BY <1>0 DEF LifecycleInv, LockInv, CallOf
<1>2. ASSUME lock' = [lock EXCEPT ![s] = c] PROVE CallOf(s)' = at'[c]
  BY <1>0, <1>2 DEF CallOf
<1>3. ASSUME lock' = [lock EXCEPT ![s] = None] PROVE CallOf(s)' = "none"
  BY <1>0, <1>3 DEF CallOf
<1> USE DEF runs, store, Turn, GoTo, Log, Records
<1>4. CASE t # s
  <2>1. /\ lock'[t] = lock[t] /\ \A d \in Actors \ {c} : at'[d] = at[d]
        /\ UNCHANGED <<task[t], status[t], log[t]>>
    BY <1>0, <1>4 DEF ActorStep, EnterStart, CommitStart, BeginRun, EnterStop,
       TaskIsOver,
       CommitStop, Stopped, RecordFails, Lock, Unlock, Return
  <2>2. lock[t] # c
    BY <1>0, <1>4 DEF LifecycleInv, LockInv
  <2>3. CallOf(t)' = CallOf(t)
    BY <1>0, <2>1, <2>2 DEF CallOf
  <2> QED BY <2>1, <2>3 DEF Same
<1>5. CASE t = s
  <2>1. CASE EnterStart(c)
    <3>1. CASE lock[s] = None /\ UNCHANGED lock
      BY <1>0, <1>1, <1>3, <1>5, <2>1, <3>1 DEF EnterStart, Same, CallOf
    <3>2. CASE Lock(s, c) /\ Over(s) /\ GoTo(c, "recordStart")
      BY <1>0, <1>1, <1>2, <1>5, <2>1, <3>2 DEF EnterStart, Lock, CallStep, ActorStep
    <3> QED BY <2>1, <3>1, <3>2 DEF EnterStart, MayStart
  <2>2. CASE CommitStart(c)
    <3>1. CallOf(s) = "recordStart" /\ Over(s)
      BY <1>1, <2>2 DEF CommitStart, Holding, LifecycleInv, CallInv
    <3>2. CallOf(s)' = "recordedStart"
      BY <1>0, <1>1, <2>2 DEF CommitStart, Holding, CallOf
    <3> QED BY <1>0, <1>5, <2>2, <3>1, <3>2 DEF CommitStart, CallStep, ActorStep
  <2>3. CASE BeginRun(c)
    BY <1>0, <1>1, <1>3, <1>5, <2>3 DEF BeginRun, Holding, Unlock, CallStep, ActorStep
  <2>4. CASE EnterStop(c)
    <3>1. CASE Over(s) /\ lock[s] = None
      <4>1. CallOf(s)' = "none" /\ task'[s] = "none" /\ UNCHANGED <<status[s], log[s]>>
        BY <1>0, <1>3, <2>4, <3>1 DEF EnterStop, CallOf
      <4> QED BY <1>1, <1>5, <2>4, <3>1, <4>1 DEF CallStep, ActorStep
    <3>2. CASE ~Over(s)
      <4>1. /\ lock[s] = None /\ lock' = [lock EXCEPT ![s] = c] /\ at'[c] = "await"
            /\ task'[s] = Interrupted(task[s]) /\ UNCHANGED <<status[s], log[s]>>
        BY <1>0, <2>4, <3>2 DEF EnterStop, Lock
      <4> QED BY <1>1, <1>2, <1>5, <2>4, <3>2, <4>1 DEF CallStep, ActorStep
    <3> QED BY <2>4, <3>1, <3>2 DEF EnterStop
  <2>5. CASE TaskIsOver(c)
    <3>1. CASE StopRecords(s)
      <4>1. CallOf(s)' = "recordStop"
        BY <1>0, <1>1, <2>5, <3>1 DEF TaskIsOver, Holding, CallOf
      <4> QED BY <1>0, <1>1, <1>5, <2>5, <3>1, <4>1
              DEF TaskIsOver, StopRecords, Holding, CallStep, ActorStep
    <3>2. CASE ~StopRecords(s)
      BY <1>0, <1>1, <1>3, <1>5, <2>5, <3>2
         DEF TaskIsOver, StopRecords, Holding, Unlock, CallStep, ActorStep
    <3> QED BY <3>1, <3>2
  <2>6. CASE CommitStop(c)
    <3>1. CallOf(s) = "recordStop" /\ task[s] = "cancelled" /\ status[s] = "stopped"
      BY <1>1, <2>6 DEF CommitStop, Holding, LifecycleInv, CallInv
    <3>2. CallOf(s)' = "recordedStop"
      BY <1>0, <1>1, <2>6 DEF CommitStop, Holding, CallOf
    <3> QED BY <1>0, <1>5, <2>6, <3>1, <3>2 DEF CommitStop, CallStep, ActorStep
  <2>7. CASE Stopped(c)
    <3>1. CallOf(s) = "recordedStop" /\ task[s] = "cancelled" /\ status[s] = "stopped"
      BY <1>1, <2>7 DEF Stopped, Holding, LifecycleInv, CallInv
    <3> QED BY <1>0, <1>3, <1>5, <2>7, <3>1 DEF Stopped, Unlock, CallStep, ActorStep
  <2>8. CASE RecordFails(c)
    <3>1. CallOf(s) \in {"recordStart", "recordStop"} /\ Over(s)
      BY <1>1, <2>8 DEF RecordFails, Holding, LifecycleInv, CallInv, Over
    <3> QED BY <1>0, <1>3, <1>5, <2>8, <3>1 DEF RecordFails, Unlock, CallFails
  <2> QED BY <2>1, <2>2, <2>3, <2>4, <2>5, <2>6, <2>7, <2>8 DEF ActorStep
<1> QED BY <1>4, <1>5

RunMoves(s) == RunStep(s) \/ RaiseAlarm(s) \/ WorkEnds(s)

LEMMA TaskMoves ==
  ASSUME LifecycleInv, NEW s \in Scenarios, RunMoves(s) \/ RunFails(s) \/ EndFails(s),
         NEW t \in Scenarios
  PROVE  \/ Same(t)
         \/ TaskStep(t) /\ RunMoves(s)
         \/ UNCHANGED log[t] /\ (RunFails(s) \/ EndFails(s))
<1> USE DEF runs, store, actors, Turn, Log, Records, RunMoves, RunStep
<1>0. /\ task \in [Scenarios -> RunLabels \cup {"none", "done", "cancelled"}]
      /\ status \in [Scenarios -> Statuses]
      /\ log \in [Scenarios -> Seq(Statuses \ {"idle"})]
  BY DEF LifecycleInv, TypeOK
<1>1. UNCHANGED <<at, lock>> /\ CallOf(t)' = CallOf(t)
  <2>1. UNCHANGED <<at, lock>>
    BY DEF Resume, CommitAlarm, Unwound, CommitEnd, RaiseAlarm, WorkEnds, RunFails,
       EndFails
  <2> QED BY <2>1 DEF CallOf
<1>2. CASE RunFails(s) \/ EndFails(s)
  BY <1>2 DEF RunFails, EndFails
<1>3. CASE RunMoves(s) /\ t # s
  <2>1. UNCHANGED <<task[t], status[t], log[t]>>
    BY <1>0, <1>3 DEF Resume, CommitAlarm, Unwound, CommitEnd, RaiseAlarm, WorkEnds
  <2> QED BY <1>1, <2>1 DEF Same
<1>4. CASE RunMoves(s) /\ t = s
  <2>1. task[s] \in RunLabels
    BY <1>4 DEF Resume, CommitAlarm, Unwound, CommitEnd, RaiseAlarm, WorkEnds, RunLabels
  <2>2. CallOf(s) # "recordedStop"
    <3>1. ASSUME CallOf(s) = "recordedStop" PROVE task[s] = "cancelled"
      <4>1. lock[s] \in Actors /\ at[lock[s]] = "recordedStop"
        BY <3>1 DEF CallOf, LifecycleInv, TypeOK
      <4>2. target[lock[s]] = s
        BY <4>1, LifecycleAssumption DEF LifecycleInv, LockInv
      <4> QED BY <4>1, <4>2 DEF LifecycleInv, CallInv
    <3> QED BY <2>1, <3>1 DEF RunLabels
  <2>3. CASE CommitEnd(s)
    BY <1>0, <1>1, <1>4, <2>2, <2>3 DEF CommitEnd, TaskStep, LifecycleInv, CallInv
  <2>4. CASE Resume(s) /\ task[s] = "recordedEnd"
    BY <1>0, <1>1, <1>4, <2>2, <2>4 DEF Resume, TaskStep
  <2>5. CASE Resume(s) /\ task[s] # "recordedEnd"
    BY <1>0, <1>1, <1>4, <2>2, <2>5 DEF Resume, TaskStep, RunLabels, AfterClear
  <2>6. CASE CommitAlarm(s) \/ Unwound(s) \/ RaiseAlarm(s) \/ WorkEnds(s)
    BY <1>0, <1>1, <1>4, <2>2, <2>6
       DEF CommitAlarm, Unwound, RaiseAlarm, WorkEnds, TaskStep, RunLabels
  <2> QED BY <1>4, <2>3, <2>4, <2>5, <2>6
<1> QED BY <1>2, <1>3, <1>4

ProcessStep ==
  \/ \E c \in Callers, s \in Scenarios : Request(c, s)
  \/ \E a \in leftover : ClearLeftover(a)
  \/ Serve \/ Close

LEMMA ProcessMoves ==
  ASSUME LifecycleInv, NEW t \in Scenarios
  PROVE  /\ ProcessStep \/ UNCHANGED vars => Same(t) /\ UNCHANGED <<faults, crashes>>
         /\ BootFails => Same(t)
         /\ Boot => /\ Fresh(t) /\ Over(t) /\ CallOf(t) = "none"
                    /\ UNCHANGED <<faults, crashes>>
         /\ Crash => Fresh(t)
<1> USE LifecycleAssumption DEF runs, store, actors, container, bounds, Same
<1>1. lock[t] \in Actors \cup {None} /\ (lock[t] # None => at[lock[t]] \in Holding)
  BY DEF LifecycleInv, TypeOK, LockInv
<1>2. ASSUME NEW c \in Actors, at[c] = "idle", lock' = lock,
             \A d \in Actors \ {c} : at'[d] = at[d]
      PROVE  CallOf(t)' = CallOf(t)
  BY <1>1, <1>2 DEF CallOf, Holding
<1>3. ASSUME NEW c \in Callers, NEW s \in Scenarios, Request(c, s)
      PROVE  Same(t) /\ UNCHANGED <<faults, crashes>>
  BY <1>2, <1>3 DEF Request, GoTo, Actors, LifecycleInv, TypeOK
<1>4. ASSUME Close PROVE Same(t) /\ UNCHANGED <<faults, crashes>>
  BY <1>2, <1>4 DEF Close, GoTo, Actors, LifecycleInv, TypeOK, ProcessInv
<1>5. ASSUME Serve \/ (\E a \in leftover : ClearLeftover(a)) \/ UNCHANGED vars
      PROVE  Same(t) /\ UNCHANGED <<faults, crashes>>
  BY <1>5 DEF Serve, ClearLeftover, vars, CallOf
<1>6. ASSUME BootFails PROVE Same(t)
  BY <1>6 DEF BootFails, CallOf
<1>7. ASSUME Boot \/ Crash PROVE Fresh(t)
  BY <1>7 DEF Boot, Crash, FreshMemory, Fresh, CallOf
<1>8. ASSUME Boot
      PROVE  Over(t) /\ CallOf(t) = "none" /\ UNCHANGED <<faults, crashes>>
  BY <1>8 DEF Boot, LifecycleInv, ProcessInv, Serving, CallOf
<1> QED BY <1>3, <1>4, <1>5, <1>6, <1>7, <1>8 DEF ProcessStep

\* A step does one of these to all scenarios.
Kept == UNCHANGED <<faults, crashes>>
Failed == faults' = faults - 1 /\ faults > 0 /\ UNCHANGED crashes
Crashed == crashes' = crashes - 1 /\ crashes > 0 /\ UNCHANGED faults

LEMMA Moves ==
  ASSUME LifecycleInv, [Next]_vars
  PROVE  \/ Kept /\ \A s \in Scenarios :
                      \/ Same(s) \/ CallStep(s) \/ TaskStep(s)
                      \/ Fresh(s) /\ Over(s) /\ CallOf(s) = "none"
         \/ Failed /\ \A s \in Scenarios : UNCHANGED log[s]
         \/ Crashed /\ \A s \in Scenarios : Fresh(s)
<1> USE DEF Kept, Failed, Crashed, bounds, UseFault
<1>1. ASSUME NEW c \in Actors, ActorStep(c)
      PROVE  Kept /\ \A s \in Scenarios : Same(s) \/ CallStep(s)
  <2>1. Kept /\ ~RecordFails(c)
    BY <1>1 DEF ActorStep, EnterStart, CommitStart, BeginRun, EnterStop, TaskIsOver,
       CommitStop,
       Stopped, RecordFails, LifecycleInv, TypeOK
  <2> QED BY <1>1, <2>1, CallMoves
<1>2. ASSUME NEW c \in Actors, RecordFails(c)
      PROVE  Failed /\ \A s \in Scenarios : UNCHANGED log[s]
  BY <1>2 DEF RecordFails, store
<1>3. ASSUME NEW s \in Scenarios, RunMoves(s)
      PROVE  Kept /\ \A t \in Scenarios : Same(t) \/ TaskStep(t)
  <2>1. Kept /\ ~RunFails(s) /\ ~EndFails(s)
    BY <1>3 DEF RunMoves, RunStep, Resume, CommitAlarm, Unwound, CommitEnd, RaiseAlarm,
       WorkEnds,
       RunFails, EndFails, LifecycleInv, TypeOK
  <2> QED BY <1>3, <2>1, TaskMoves
<1>4. ASSUME NEW s \in Scenarios, RunFails(s) \/ EndFails(s)
      PROVE  Failed /\ \A t \in Scenarios : UNCHANGED log[t]
  BY <1>4 DEF RunFails, EndFails, store
<1>5. CASE ProcessStep \/ UNCHANGED vars
  BY <1>5, ProcessMoves, LifecycleAssumption DEF Scenarios
<1>6. CASE Boot
  BY <1>6, ProcessMoves, LifecycleAssumption DEF Scenarios
<1>7. CASE BootFails
  BY <1>7 DEF BootFails, store
<1>8. CASE Crash
  BY <1>8, ProcessMoves DEF Crash
<1> QED BY <1>1, <1>2, <1>3, <1>4, <1>5, <1>6, <1>7, <1>8 DEF Next, RunMoves,
   ProcessStep

-----------------------------------------------------------------------------
(* The invariant, and what it shows *)

LEMMA InitLifecycle ==
  ASSUME Init
  PROVE  LifecycleInv
<1> USE LifecycleAssumption DEF Init
<1>0. 1 \in Scenarios
  BY DEF Scenarios
<1>1. TypeOK
  BY <1>0 DEF TypeOK, Statuses, RunLabels
<1>2. ProcessInv
  BY DEF ProcessInv, Serving, Over, Actors
<1>3. LockInv /\ CallInv
  BY DEF LockInv, CallInv, Holding
<1>4. AlarmInv
  BY DEF AlarmInv, InTry
<1> QED BY <1>1, <1>2, <1>3, <1>4 DEF LifecycleInv

LEMMA LifecycleSteps ==
  ASSUME LifecycleInv, [Next]_vars
  PROVE  LifecycleInv'
<1>1. Typed' /\ Control'
  BY TypedSteps, ControlSteps
<1>2. AlarmInv' /\ active' \subseteq 1..raised' /\ leftover' \subseteq active'
  BY AlarmSteps
<1> QED BY <1>1, <1>2 DEF LifecycleInv, TypeOK, Typed, Control

\* In every reachable state the lock of a scenario has one holder, which knows
\* its scenario as it found it; a process that does not serve, or has ended a
\* scenario in closing, runs none; and alarms are numbered by age.
THEOREM LifecycleInvariant == Spec => []LifecycleInv
<1>1. Init => LifecycleInv
  BY InitLifecycle
<1>2. LifecycleInv /\ [Next]_vars => LifecycleInv'
  BY LifecycleSteps
<1> QED BY <1>1, <1>2, PTL DEF Spec

\* The variables have their types; no stop_all leaves the registry, whatever fails.
THEOREM LifecycleTypes == Spec => []TypeOK
<1>1. LifecycleInv => TypeOK
  BY DEF LifecycleInv
<1> QED BY <1>1, LifecycleInvariant, PTL

\* A process that serves shows no alarm of an earlier one: Container.start has
\* cleared them all, or has not been let through.
THEOREM OldAlarmsAreGone == Spec => []NoOldAlarms
<1>1. LifecycleInv => NoOldAlarms
  BY DEF LifecycleInv, ProcessInv, AlarmInv, NoOldAlarms, Serving
<1> QED BY <1>1, LifecycleInvariant, PTL

\* Container.close goes on only when no scenario runs or is being started, for
\* any number of scenarios and whichever of their stops have failed.
THEOREM ClosedIsDrained == Spec => []Drained
<1>1. LifecycleInv => Drained
  BY DEF LifecycleInv, ProcessInv, Drained, Serving
<1> QED BY <1>1, LifecycleInvariant, PTL

\* Only start() creates a task, with the lock it has held since it found the
\* last task over, and nobody else creates one until it lets go.
THEOREM RunsAreNotReplaced == Spec => OneRun
<1> DEFINE Replaces(s) == task'[s] = "created" /\ task[s] # "created" => Over(s)
<1>1. ASSUME LifecycleInv, [Next]_vars, NEW s \in Scenarios PROVE Replaces(s)
  <2>1. ASSUME NEW c \in Actors, ActorStep(c) \/ RecordFails(c) PROVE Replaces(s)
    <3>1. CASE BeginRun(c)
      BY <1>1, <3>1 DEF BeginRun, Turn, LifecycleInv, TypeOK, CallInv
    <3>2. CASE ~BeginRun(c)
      BY <1>1, <2>1, <3>2
         DEF ActorStep, EnterStart, CommitStart, EnterStop, TaskIsOver, CommitStop,
             Stopped,
             RecordFails, Turn, Interrupted, runs, LifecycleInv, TypeOK
    <3> QED BY <3>1, <3>2
  <2>2. ASSUME NEW t \in Scenarios,
               RunStep(t) \/ RaiseAlarm(t) \/ WorkEnds(t) \/ RunFails(t) \/ EndFails(t)
        PROVE  Replaces(s)
    BY <1>1, <2>2 DEF RunStep, Resume, CommitAlarm, Unwound, CommitEnd, RaiseAlarm,
       WorkEnds,
       RunFails, EndFails, Turn, AfterClear, LifecycleInv, TypeOK
  <2>3. CASE ProcessStep \/ BootFails \/ UNCHANGED vars
    BY <2>3 DEF ProcessStep, Request, ClearLeftover, Serve, Close, BootFails, vars, runs
  <2>4. CASE Boot \/ Crash
    BY <2>4 DEF Boot, Crash, FreshMemory
  <2> QED BY <1>1, <2>1, <2>2, <2>3, <2>4 DEF Next, ProcessStep
<1>2. LifecycleInv /\ [Next]_vars => [\A s \in Scenarios : Replaces(s)]_vars
  BY <1>1
<1> QED BY <1>2, LifecycleInvariant, PTL DEF Spec, OneRun

-----------------------------------------------------------------------------
(* What is recorded *)

\* The last event recorded, before and after one is recorded.
LEMMA LastRecorded ==
  ASSUME TypeOK, NEW s \in Scenarios
  PROVE  /\ \A st \in Statuses \ {"idle"} : Records(s, st) =>
              LastIs(s, st)' /\ \A x : LastIs(s, x)' => x = st
         /\ UNCHANGED log[s] => \A x : LastIs(s, x)' <=> LastIs(s, x)
<1>1. log[s] \in Seq(Statuses \ {"idle"})
  BY DEF TypeOK
<1>2. ASSUME NEW st \in Statuses \ {"idle"}, Records(s, st)
      PROVE  /\ Len(log'[s]) = Len(log[s]) + 1 /\ Len(log[s]) \in Nat
             /\ log'[s][Len(log'[s])] = st
  BY <1>1, <1>2 DEF Records
<1> QED BY <1>2 DEF LastIs

LEMMA RecordSteps ==
  ASSUME LifecycleInv, RecordInv, [Next]_vars
  PROVE  RecordInv'
<1> DEFINE Rec(s) ==
      /\ /\ task[s] \in {"none", "done", "recordedEnd"}
         /\ status[s] # "idle"
         /\ CallOf(s) # "recordedStart"
         => LastIs(s, status[s])
      /\ task[s] = "cancelled" => CallOf(s) \in {"await", "recordStop", "recordedStop"}
      /\ CallOf(s) = "recordedStop" => LastIs(s, "stopped")
<1>0. /\ faults \in 0..MaxFaults /\ MaxFaults \in Nat
      /\ \A s \in Scenarios : /\ status[s] \in Statuses
                              /\ task[s] \in RunLabels \cup {"none", "done", "cancelled"}
  BY LifecycleAssumption DEF LifecycleInv, TypeOK
<1>1. ASSUME NEW s \in Scenarios, Rec(s), Same(s) PROVE Rec(s)'
  BY <1>1, LastRecorded DEF Same, LifecycleInv
<1>2. ASSUME NEW s \in Scenarios, Rec(s), CallStep(s) PROVE Rec(s)'
  <2> USE <1>0, <1>2, LastRecorded DEF LifecycleInv, Statuses, RunLabels
  <2>1. CASE CallOf(s) = "none" /\ UNCHANGED <<task[s], log[s]>>
    BY <2>1 DEF CallStep, Over
  <2>2. CASE CallOf(s) = "none" /\ ~ UNCHANGED <<task[s], log[s]>>
    BY <2>2 DEF CallStep, Over, Interrupted
  <2>3. CASE CallOf(s) \in {"recordStart", "recordedStart"}
    BY <2>3 DEF CallStep, Over
  <2>4. CASE CallOf(s) = "await"
    BY <2>4 DEF CallStep, Over
  <2>5. CASE CallOf(s) \in {"recordStop", "recordedStop"}
    BY <2>5 DEF CallStep, Over
  <2> QED BY <2>1, <2>2, <2>3, <2>4, <2>5 DEF CallStep
<1>3. ASSUME NEW s \in Scenarios, Rec(s), TaskStep(s) PROVE Rec(s)'
  BY <1>0, <1>3, LastRecorded DEF TaskStep, LifecycleInv, Statuses, RunLabels
<1>4. ASSUME NEW s \in Scenarios, Fresh(s) PROVE Rec(s)'
  BY <1>4 DEF Fresh
<1>5. CASE faults' # MaxFaults
  BY <1>5 DEF RecordInv
<1>6. CASE faults' = MaxFaults
  <2>1. ~Failed /\ faults = MaxFaults
    BY <1>0, <1>6, Moves DEF Failed, Kept, Crashed
  <2>2. \A s \in Scenarios : Rec(s)
    BY <2>1 DEF RecordInv
  <2>3. \A s \in Scenarios : Rec(s)'
    BY <1>1, <1>2, <1>3, <1>4, <2>1, <2>2, Moves
  <2> QED BY <2>3 DEF RecordInv
<1> QED BY <1>5, <1>6

\* At rest, a scenario shows what was last recorded of it: neither start(),
\* which records before it sets the status, nor the wrapper and stop(), which
\* set it before, leave the two apart, unless a recording failed.
THEOREM StatusFollowsRecord == Spec => []StatusIsRecorded
<1>1. Init => RecordInv
  BY DEF Init, RecordInv, CallOf
<1>2. LifecycleInv /\ RecordInv /\ [Next]_vars => RecordInv'
  BY RecordSteps
<1>3. LifecycleInv /\ RecordInv => StatusIsRecorded
  BY DEF RecordInv, StatusIsRecorded, LastIs, CallOf, Over
<1> QED BY <1>1, <1>2, <1>3, LifecycleInvariant, PTL DEF Spec

-----------------------------------------------------------------------------
(* Ends of runs *)

\* Recording adds at most one repeated start, and only to a start.
LEMMA RepeatsRecorded ==
  ASSUME TypeOK, NEW s \in Scenarios
  PROVE  /\ IsFiniteSet(Repeats(s)) /\ Cardinality(Repeats(s)) \in Nat
         /\ UNCHANGED log[s] => Repeats(s)' = Repeats(s)
         /\ \A st \in Statuses \ {"idle"} : Records(s, st) =>
              /\ Cardinality(Repeats(s)') \in Nat
              /\ Cardinality(Repeats(s)') <= Cardinality(Repeats(s)) + 1
              /\ st # "running" \/ ~LastIs(s, "running") => Repeats(s)' = Repeats(s)
<1>1. log[s] \in Seq(Statuses \ {"idle"})
  BY DEF TypeOK
<1>2. IsFiniteSet(Repeats(s)) /\ Cardinality(Repeats(s)) \in Nat
  <2>1. IsFiniteSet(1..(Len(log[s]) - 1))
    BY <1>1, FS_Interval
  <2> QED BY <2>1, FS_Subset, FS_CardinalityType DEF Repeats
<1>3. UNCHANGED log[s] => Repeats(s)' = Repeats(s)
  BY DEF Repeats
<1>4. ASSUME NEW st \in Statuses \ {"idle"}, Records(s, st)
      PROVE  /\ Cardinality(Repeats(s)') \in Nat
             /\ Cardinality(Repeats(s)') <= Cardinality(Repeats(s)) + 1
             /\ st # "running" \/ ~LastIs(s, "running") => Repeats(s)' = Repeats(s)
  <2> DEFINE n == Len(log[s])
  <2>1. /\ n \in Nat /\ Len(log'[s]) = n + 1
        /\ \A i \in 1..n : log'[s][i] = log[s][i]
        /\ log'[s][n + 1] = st
    BY <1>1, <1>4 DEF Records
  <2>2. \A i : i \in Repeats(s)' <=>
                 i \in Repeats(s) \/ (n > 0 /\ i = n /\ log[s][n] = "running" /\ st = "running")
    <3>1. Repeats(s)' = {i \in 1..n : log'[s][i] = "running" /\ log'[s][i + 1] = "running"}
      BY <2>1 DEF Repeats
    <3>2. Repeats(s) = {i \in 1..(n - 1) : log[s][i] = "running" /\ log[s][i + 1] = "running"}
      BY DEF Repeats
    <3>3. ASSUME NEW i \in 1..(n - 1)
          PROVE  log'[s][i] = log[s][i] /\ log'[s][i + 1] = log[s][i + 1]
      BY <2>1, <3>3
    <3>4. ASSUME NEW i \in 1..(n - 1) PROVE i \in Repeats(s)' <=> i \in Repeats(s)
      BY <2>1, <3>1, <3>2, <3>3, <3>4
    <3>5. n > 0 => (n \in Repeats(s)' <=> log[s][n] = "running" /\ st = "running")
      BY <2>1, <3>1
    <3>6. \A i : i \in Repeats(s)' => i \in 1..(n - 1) \/ (i = n /\ n > 0)
      BY <2>1, <3>1
    <3>7. \A i : i \in Repeats(s) => i \in 1..(n - 1)
      BY <3>2
    <3> QED BY <3>4, <3>5, <3>6, <3>7
  <2>3. st # "running" \/ ~LastIs(s, "running") => Repeats(s)' = Repeats(s)
    BY <2>2 DEF LastIs
  <2>4. Repeats(s)' = Repeats(s) \/ Repeats(s)' = Repeats(s) \cup {n}
    BY <2>2
  <2>5. n \notin Repeats(s)
    BY <2>1 DEF Repeats
  <2>6. Cardinality(Repeats(s) \cup {n}) = Cardinality(Repeats(s)) + 1
    BY <1>2, <2>5, FS_AddElement
  <2>7. CASE Repeats(s)' = Repeats(s)
    BY <1>2, <2>7
  <2>8. CASE Repeats(s)' = Repeats(s) \cup {n} /\ Repeats(s)' # Repeats(s)
    <3>1. Cardinality(Repeats(s)') = Cardinality(Repeats(s)) + 1
      BY <2>6, <2>8
    <3> QED BY <1>2, <2>3, <2>8, <3>1
  <2> QED BY <2>4, <2>7, <2>8
<1> QED BY <1>2, <1>3, <1>4

LEMMA EndSteps ==
  ASSUME LifecycleInv, EndInv, [Next]_vars
  PROVE  EndInv'
<1> DEFINE End(s) == /\ Cardinality(Repeats(s)) <= Mishaps
                     /\ LastIs(s, "running") /\ ~EndAhead(s) => Cardinality(Repeats(s)) < Mishaps
<1>0. /\ faults \in 0..MaxFaults /\ crashes \in 0..MaxCrashes
      /\ MaxFaults \in Nat /\ MaxCrashes \in Nat /\ Mishaps \in Nat
      /\ \A s \in Scenarios : /\ status[s] \in Statuses
                              /\ task[s] \in RunLabels \cup {"none", "done", "cancelled"}
                              /\ End(s)
  BY LifecycleAssumption DEF LifecycleInv, TypeOK, EndInv, Mishaps
<1> USE DEF LifecycleInv
<1>1. ASSUME NEW s \in Scenarios, Mishaps' = Mishaps, Same(s) PROVE End(s)'
  BY <1>0, <1>1, LastRecorded, RepeatsRecorded DEF Same, EndAhead
<1>2. ASSUME NEW s \in Scenarios, Mishaps' = Mishaps, CallStep(s) PROVE End(s)'
  <2> USE <1>0, <1>2, LastRecorded, RepeatsRecorded DEF Statuses, EndAhead, RunLabels
  <2>1. CASE UNCHANGED log[s] /\ (LastIs(s, "running") /\ ~EndAhead(s)')
    <3>1. ~EndAhead(s)
      BY <2>1 DEF CallStep, Interrupted, Over
    <3> QED BY <2>1, <3>1
  <2>2. CASE UNCHANGED log[s] /\ ~(LastIs(s, "running") /\ ~EndAhead(s)')
    BY <2>2
  <2>3. CASE CallOf(s) = "recordStart" /\ Records(s, "running")
    <3>1. CallOf(s)' = "recordedStart" /\ ~EndAhead(s)
      BY <2>3 DEF CallStep, Over
    <3>2. CASE LastIs(s, "running")
      BY <2>3, <3>1, <3>2
    <3>3. CASE ~LastIs(s, "running")
      BY <2>3, <3>1, <3>3
    <3> QED BY <3>2, <3>3
  <2>4. CASE Records(s, "stopped")
    BY <2>4
  <2> QED BY <2>1, <2>2, <2>3, <2>4 DEF CallStep
<1>3. ASSUME NEW s \in Scenarios, Mishaps' = Mishaps, TaskStep(s) PROVE End(s)'
  <2> USE <1>0, <1>3, LastRecorded, RepeatsRecorded DEF Statuses, EndAhead, RunLabels
  <2>1. CASE UNCHANGED log[s] /\ (LastIs(s, "running") /\ ~EndAhead(s)')
    <3>1. ~EndAhead(s)
      BY <2>1 DEF TaskStep
    <3> QED BY <2>1, <3>1
  <2>2. CASE UNCHANGED log[s] /\ ~(LastIs(s, "running") /\ ~EndAhead(s)')
    BY <2>2
  <2>3. CASE status[s] \in {"stopped", "error"} /\ Records(s, status[s])
    BY <2>3
  <2> QED BY <2>1, <2>2, <2>3 DEF TaskStep
<1>4. ASSUME NEW s \in Scenarios, Mishaps' = Mishaps, Fresh(s), Over(s), CallOf(s) = "none"
      PROVE  End(s)'
  <2>1. ~EndAhead(s)
    BY <1>4 DEF EndAhead, Over, RunLabels
  <2> QED BY <1>0, <1>4, <2>1, LastRecorded, RepeatsRecorded DEF Fresh
<1>5. ASSUME NEW s \in Scenarios, Mishaps' = Mishaps + 1, UNCHANGED log[s] PROVE End(s)'
  BY <1>0, <1>5, RepeatsRecorded
<1>6. Kept => Mishaps' = Mishaps
  BY DEF Kept, Mishaps
<1>7. Failed \/ Crashed => Mishaps' = Mishaps + 1
  BY <1>0 DEF Failed, Crashed, Mishaps
<1>8. \A s \in Scenarios : End(s)'
  BY <1>1, <1>2, <1>3, <1>4, <1>5, <1>6, <1>7, Moves DEF Fresh
<1> QED BY <1>8 DEF EndInv

\* A recorded start is followed by a recorded end, and the last one is when its
\* run is over and nobody is inside start or stop, but for one with each failure
\* and each crash: at whatever await a stop cancels a run, the wrapper or the stop
\* is still there to record its end.
THEOREM EndsAreRecorded == Spec => []EndsRecorded
<1>1. Init => EndInv
  <2>1. ASSUME Init, NEW s \in Scenarios
        PROVE  Repeats(s) = {} /\ ~LastIs(s, "running") /\ Mishaps = 0
    BY <2>1, LifecycleAssumption DEF Init, Repeats, LastIs, Mishaps
  <2> QED BY <2>1, FS_EmptySet DEF EndInv
<1>2. LifecycleInv /\ EndInv /\ [Next]_vars => EndInv'
  BY EndSteps
<1>3. LifecycleInv /\ EndInv => EndsRecorded
  <2> SUFFICES ASSUME LifecycleInv, EndInv, NEW s \in Scenarios
               PROVE  Cardinality(Unrecorded(s)) <= Mishaps
    BY DEF EndsRecorded
  <2> DEFINE Last == Len(log[s])
  <2>1. Last \in Nat
    BY DEF LifecycleInv, TypeOK
  <2>2. IsFiniteSet(Repeats(s)) /\ Cardinality(Repeats(s)) \in Nat /\ Mishaps \in Nat
    <3>1. IsFiniteSet(1..(Last - 1))
      BY <2>1, FS_Interval
    <3>2. IsFiniteSet(Repeats(s))
      BY <3>1, FS_Subset DEF Repeats
    <3> QED BY <3>2, FS_CardinalityType, LifecycleAssumption DEF LifecycleInv, TypeOK, Mishaps
  <2>3. CASE LastIs(s, "running") /\ Over(s) /\ lock[s] = None
    <3>1. ~EndAhead(s)
      BY <2>3 DEF EndAhead, Over, RunLabels, CallOf
    <3>2. Unrecorded(s) \subseteq Repeats(s) \cup {Last}
      BY <2>1 DEF Unrecorded, Repeats
    <3>3. /\ IsFiniteSet(Repeats(s) \cup {Last})
          /\ Cardinality(Repeats(s) \cup {Last}) \in Nat
          /\ Cardinality(Repeats(s) \cup {Last}) <= Cardinality(Repeats(s)) + 1
      <4> HIDE DEF Last
      <4> QED BY <2>2, FS_AddElement, FS_CardinalityType
    <3>4. /\ Cardinality(Unrecorded(s)) \in Nat
          /\ Cardinality(Unrecorded(s)) <= Cardinality(Repeats(s) \cup {Last})
      BY <3>2, <3>3, FS_Subset, FS_CardinalityType
    <3>5. Cardinality(Repeats(s)) < Mishaps
      BY <2>3, <3>1 DEF EndInv
    <3> QED BY <2>2, <3>3, <3>4, <3>5
  <2>4. CASE ~(LastIs(s, "running") /\ Over(s) /\ lock[s] = None)
    <3>1. Unrecorded(s) = Repeats(s)
      BY <2>1, <2>4 DEF Unrecorded, Repeats, LastIs
    <3> QED BY <3>1 DEF EndInv
  <2> QED BY <2>3, <2>4
<1> QED BY <1>1, <1>2, <1>3, LifecycleInvariant, PTL DEF Spec

-----------------------------------------------------------------------------
(* Alarms somebody attends to *)

Alive == {"starting", "up", "closing"}

\* At most one alarm more without attention, and only at a failure.
LEMMA ClearArithmetic ==
  ASSUME LifecycleInv, TypeOK', AlarmsAreAttended, process \in Alive,
         \/ Unattended' \subseteq Unattended /\ faults' <= faults
         \/ \E a : Unattended' \subseteq Unattended \cup {a} /\ faults' = faults - 1
  PROVE  AlarmsAreAttended'
<1>1. IsFiniteSet(Unattended) /\ Cardinality(Unattended) \in Nat
  <2>1. IsFiniteSet(1..raised)
    BY LifecycleAssumption, FS_Interval DEF LifecycleInv, TypeOK
  <2>2. Unattended \subseteq 1..raised
    BY DEF Unattended, LifecycleInv, TypeOK
  <2> QED BY <2>1, <2>2, FS_Subset, FS_CardinalityType
<1>2. /\ Cardinality(Unattended) <= MaxFaults - faults
      /\ faults \in 0..MaxFaults /\ faults' \in 0..MaxFaults /\ MaxFaults \in Nat
  BY LifecycleAssumption DEF AlarmsAreAttended, Unattended, Alive, LifecycleInv, TypeOK
<1>3. Cardinality(Unattended') <= MaxFaults - faults'
  <2>1. CASE Unattended' \subseteq Unattended /\ faults' <= faults
    <3>1. Cardinality(Unattended') \in Nat /\ Cardinality(Unattended') <= Cardinality(Unattended)
      BY <1>1, <2>1, FS_Subset, FS_CardinalityType
    <3> QED BY <1>1, <1>2, <2>1, <3>1
  <2>2. ASSUME NEW a, Unattended' \subseteq Unattended \cup {a}, faults' = faults - 1
        PROVE  Cardinality(Unattended') <= MaxFaults - faults'
    <3>1. /\ IsFiniteSet(Unattended \cup {a})
          /\ Cardinality(Unattended \cup {a}) \in Nat
          /\ Cardinality(Unattended \cup {a}) <= Cardinality(Unattended) + 1
      BY <1>1, FS_AddElement, FS_CardinalityType
    <3>2. /\ Cardinality(Unattended') \in Nat
          /\ Cardinality(Unattended') <= Cardinality(Unattended \cup {a})
      BY <2>2, <3>1, FS_Subset, FS_CardinalityType
    <3> QED BY <1>1, <1>2, <2>2, <3>1, <3>2
  <2> QED BY <2>1, <2>2
<1> QED BY <1>3 DEF AlarmsAreAttended, Unattended

LEMMA ClearSteps ==
  ASSUME ClearShield, LifecycleInv, AlarmsAreAttended, [Next]_vars
  PROVE  AlarmsAreAttended'
<1>0. TypeOK'
  BY LifecycleSteps DEF LifecycleInv
<1>t. /\ task \in [Scenarios -> RunLabels \cup {"none", "done", "cancelled"}]
      /\ alarm \in [Scenarios -> 0..NA]
      /\ at \in [Actors -> {"idle", "start", "recordStart", "recordedStart",
                            "stop", "await", "recordStop", "recordedStop"}]
      /\ target \in [Actors -> Scenarios]
      /\ faults \in 0..MaxFaults /\ MaxFaults \in Nat
      /\ ProcessInv /\ CallInv
  BY LifecycleAssumption DEF LifecycleInv, TypeOK
<1> DEFINE Goal == \/ AlarmsAreAttended'
                   \/ /\ process \in Alive
                      /\ \/ Unattended' \subseteq Unattended /\ faults' <= faults
                         \/ \E a : /\ Unattended' \subseteq Unattended \cup {a}
                                   /\ faults' = faults - 1
<1> USE <1>t DEF container, actors, runs, store, bounds
\* Whoever attended to an active alarm, does.
<1>1. ASSUME process \in Alive, UNCHANGED alarm, active' \subseteq active, faults' <= faults,
             \A s \in Scenarios : task[s] \in {"raised", "hold", "clear"} =>
               task'[s] \in {"raised", "hold", "clear"} \/ alarm[s] \notin active',
             process = "starting" => process' = "starting" /\ leftover \cap active' \subseteq leftover'
      PROVE  Goal
  BY <1>1 DEF Unattended, Attended
<1>2. ASSUME NEW c \in Actors, ActorStep(c) \/ RecordFails(c) PROVE Goal
  <2>1. UNCHANGED <<leftover, alarm, active>> /\ faults' <= faults
    BY <1>2 DEF ActorStep, EnterStart, CommitStart, BeginRun, EnterStop, TaskIsOver,
       CommitStop,
       Stopped, RecordFails, UseFault
  <2>2. process \in {"up", "closing"} /\ process' \in {process, "closed"}
    BY <1>2 DEF ActorStep, EnterStart, CommitStart, BeginRun, EnterStop, TaskIsOver,
       CommitStop,
       Stopped, RecordFails, Return, ProcessInv, Serving
  <2>3. \A s \in Scenarios : task[s] \in {"raised", "hold", "clear"} =>
               task'[s] \in {"raised", "hold", "clear"}
    <3>1. CASE EnterStop(c)
      BY <3>1 DEF EnterStop, Turn, Interrupted, InTry, Over
    <3>2. CASE ~EnterStop(c)
      BY <1>2, <3>2 DEF ActorStep, EnterStart, CommitStart, BeginRun, TaskIsOver,
         CommitStop,
         Stopped, RecordFails, Turn, Over, CallInv
    <3> QED BY <3>1, <3>2
  <2>4. CASE process' = "closed"
    BY <2>4 DEF AlarmsAreAttended
  <2>5. CASE process' = process
    BY <1>1, <2>1, <2>2, <2>3, <2>5 DEF Alive
  <2> QED BY <2>2, <2>4, <2>5
<1>3. ASSUME NEW s \in Scenarios,
             \/ Resume(s) \/ Unwound(s) \/ CommitEnd(s) \/ WorkEnds(s) \/ EndFails(s)
      PROVE  Goal
  <2>1. /\ UNCHANGED <<process, leftover, alarm, active>> /\ faults' <= faults
        /\ task[s] \notin {"none", "done", "cancelled"}
    BY <1>3 DEF Resume, Unwound, CommitEnd, WorkEnds, EndFails, UseFault
  <2>2. \A t \in Scenarios : task[t] \in {"raised", "hold", "clear"} =>
               task'[t] \in {"raised", "hold", "clear"}
    BY <1>3 DEF Resume, Unwound, CommitEnd, WorkEnds, EndFails, Turn
  <2>3. process \in Alive
    BY <2>1, RunsWhileServing DEF Over, Serving, Alive
  <2> QED BY <1>1, <2>1, <2>2, <2>3
<1>4. ASSUME NEW s \in Scenarios, RaiseAlarm(s) PROVE Goal
  <2>1. /\ UNCHANGED <<process, leftover, active, faults>> /\ task[s] = "work"
        /\ \A t \in Scenarios \ {s} : task'[t] = task[t] /\ alarm'[t] = alarm[t]
    BY <1>4 DEF RaiseAlarm, Turn
  <2>2. process \in Alive
    BY <2>1, RunsWhileServing DEF Over, Serving, Alive
  <2>3. Unattended' \subseteq Unattended
    BY <2>1 DEF Unattended, Attended
  <2> QED BY <2>1, <2>2, <2>3
<1>5. ASSUME NEW s \in Scenarios, CommitAlarm(s) PROVE Goal
  <2>1. /\ UNCHANGED <<process, leftover, alarm, faults>>
        /\ \A t \in Scenarios \ {s} : task'[t] = task[t]
        /\ task[s] \notin {"none", "done", "cancelled"}
        /\ \/ task'[s] = "raised" /\ active' = active \cup {alarm[s]} /\ task[s] = "raise"
           \/ active' = active \ {alarm[s]} /\ task[s] = "clear"
    BY <1>5 DEF CommitAlarm, Turn
  <2>2. process \in Alive
    BY <2>1, RunsWhileServing DEF Over, Serving, Alive
  <2>3. ASSUME NEW a \in Unattended' PROVE a \in Unattended
    <3>1. a # alarm[s]
      BY <2>1, <2>3 DEF Unattended, Attended
    <3> QED BY <2>1, <2>3, <3>1 DEF Unattended, Attended
  <2> QED BY <2>1, <2>2, <2>3
<1>6. ASSUME NEW s \in Scenarios, RunFails(s) PROVE Goal
  <2>1. /\ UNCHANGED <<process, leftover, alarm, active>> /\ faults' = faults - 1
        /\ \A t \in Scenarios \ {s} : task'[t] = task[t]
        /\ task[s] \notin {"none", "done", "cancelled"}
    BY <1>6 DEF RunFails, Turn, UseFault
  <2>2. process \in Alive
    BY <2>1, RunsWhileServing DEF Over, Serving, Alive
  <2>3. Unattended' \subseteq Unattended \cup {alarm[s]}
    BY <2>1 DEF Unattended, Attended
  <2> QED BY <2>1, <2>2, <2>3
<1>7. ASSUME NEW a \in leftover, ClearLeftover(a) PROVE Goal
  BY <1>1, <1>7 DEF ClearLeftover, Alive
<1>8. ASSUME NEW c \in Callers, NEW s \in Scenarios, Request(c, s) PROVE Goal
  BY <1>1, <1>8 DEF Request, Alive
<1>9. CASE Boot
  <2>1. Unattended' = {} /\ faults' = faults
    BY <1>9 DEF Boot, Unattended, Attended
  <2>2. Cardinality(Unattended') = 0
    BY <2>1, FS_EmptySet
  <2> QED BY <2>1, <2>2 DEF AlarmsAreAttended, Unattended
<1>10. CASE BootFails \/ Crash
  BY <1>10 DEF BootFails, Crash, AlarmsAreAttended
<1>11. ASSUME Serve PROVE Goal
  <2>1. /\ process = "starting" /\ leftover = {} /\ UNCHANGED <<alarm, task, active, faults>>
    BY <1>11 DEF Serve, Ready
  <2>2. Unattended' \subseteq Unattended
    BY <2>1 DEF Unattended, Attended
  <2>3. process \in Alive /\ faults' <= faults
    BY <2>1 DEF Alive
  <2> QED BY <2>2, <2>3
<1>12. ASSUME Close PROVE Goal
  <2>1. /\ process = "up" /\ UNCHANGED <<leftover, alarm, task, active>> /\ faults' <= faults
    BY <1>12 DEF Close
  <2> QED BY <1>1, <2>1 DEF Alive
<1>13. CASE UNCHANGED vars
  BY <1>13 DEF vars, AlarmsAreAttended, Attended
<1>14. Goal
  BY <1>2, <1>3, <1>4, <1>5, <1>6, <1>7, <1>8, <1>9, <1>10, <1>11, <1>12,
     <1>13 DEF Next, RunStep
<1> QED BY <1>0, <1>14, ClearArithmetic

\* While the process lives, every active alarm but one for each failure is on
\* its way to be cleared, by the run that raised it or by the start that found
\* it, wherever a stop interrupts the run, unless it interrupts the clearing.
THEOREM AlarmsAttendedIfShielded ==
  ASSUME ClearShield
  PROVE  Spec => []AlarmsAreAttended
<1>1. Init => AlarmsAreAttended
  BY DEF Init, AlarmsAreAttended
<1>2. LifecycleInv /\ AlarmsAreAttended /\ [Next]_vars => AlarmsAreAttended'
  BY ClearSteps
<1> QED BY <1>1, <1>2, LifecycleInvariant, PTL DEF Spec
=============================================================================
