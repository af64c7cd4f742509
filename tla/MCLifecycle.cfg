CONSTANTS
  NS = 3
  AlarmCycles = {1, 2}
  Callers = {c1, c2}
  Closer = Closer
  None = None
  ClearShield = TRUE
  NA = 2
  MaxCalls = 2
  MaxFaults = 1
  MaxCrashes = 1
SPECIFICATION FairSpec
INVARIANTS TypeOK EndsRecorded StatusIsRecorded AlarmsAreAttended NoOldAlarms Drained
PROPERTIES OneRun StopsReturn
