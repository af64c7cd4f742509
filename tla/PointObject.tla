---------------------------- MODULE PointObject ----------------------------
(***************************************************************************)
(* One BACnet point object as the simulator builds it                      *)
(* (adapters/bacnet/object_builder.py) and as the engine reads and writes  *)
(* it (adapters/bacnet/engine.py).                                         *)
(*                                                                         *)
(* A commandable object holds a priority array and a relinquish default;   *)
(* an input object holds the value of the simulated sensor, the value it   *)
(* shows, and the Out_Of_Service flag that parts the two.  Both count the  *)
(* commands given to the place an override uses: slot 8 of a commandable   *)
(* object, the sensor of an input.  The Out_Of_Service flag of a           *)
(* commandable object changes nothing the program reads and is left out.   *)
(***************************************************************************)
EXTENDS Integers

CONSTANTS Values,       \* values that pass Point.validate_value
          NoValue,      \* Python None / BACnet Null: relinquish
          Priorities    \* the priority-array slots of the instance

\* Overrides command at the slot device_service.py names 8.
ControlPriority == 8

\* write_point without a priority.
DefaultPriority == 16

ASSUME PointAssumption ==
  /\ NoValue \notin Values
  /\ Values # {}
  /\ Priorities \subseteq 1..16
  /\ {ControlPriority, DefaultPriority} \subseteq Priorities
  /\ 6 \notin Priorities

MaybeValue == Values \cup {NoValue}

Object == [slot    : [Priorities -> MaybeValue],
           default : Values,
           sensor  : Values,
           shown   : Values,
           oos     : BOOLEAN,
           rev     : Nat]

NewObject(v) == [slot    |-> [p \in Priorities |-> NoValue],
                 default |-> v,
                 sensor  |-> v,
                 shown   |-> v,
                 oos     |-> FALSE,
                 rev     |-> 0]

Filled(o) == {p \in Priorities : o.slot[p] # NoValue}

\* The priority arbitration BACpypes does for a commandable object.
Arbitrate(o) ==
  IF Filled(o) = {} THEN o.default
  ELSE o.slot[CHOOSE p \in Filled(o) : \A q \in Filled(o) : p <= q]

PresentValue(commandable, o) == IF commandable THEN Arbitrate(o) ELSE o.shown

\* Every command to the control place counts, whatever its value.
CountCommand(o) == [o EXCEPT !.rev = @ + 1]

\* A command, or a Null, to one slot of the priority array.
Command(o, p, v) ==
  [IF p = ControlPriority THEN CountCommand(o) ELSE o EXCEPT !.slot[p] = v]

\* The simulated input moves; an out-of-service object does not show it.
UpdateSensor(o, v) ==
  [CountCommand(o) EXCEPT !.sensor = v, !.shown = IF o.oos THEN @ ELSE v]

\* Rejoining the sensor shows its current value again.
SetOutOfService(o, b) ==
  [o EXCEPT !.oos = b, !.shown = IF b THEN @ ELSE o.sensor]

\* What the engine does for the application, priority included.
EngineWrite(commandable, o, p, v) ==
  IF commandable THEN Command(o, p, v) ELSE UpdateSensor(o, v)

\* What an override saves before it writes and gives back afterwards.
ControlValue(commandable, o) ==
  IF commandable THEN o.slot[ControlPriority] ELSE o.sensor

\* The states one accepted WriteProperty of a BACnet client can leave.
NativeWrites(commandable, o) ==
  IF commandable
  THEN {Command(o, p, v) : p \in Priorities, v \in MaybeValue}
         \cup {[o EXCEPT !.default = v] : v \in Values}
  ELSE {SetOutOfService(o, b) : b \in BOOLEAN}
         \cup {[o EXCEPT !.shown = v] : v \in {w \in Values : o.oos}}
=============================================================================
