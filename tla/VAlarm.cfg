CONSTANTS
  NS = 1
  AlarmCycles = {1}
  Callers = {c1}
  Closer = Closer
  None = None
  ClearShield = FALSE
  NA = 1
  MaxCalls = 2
  MaxFaults = 0
  MaxCrashes = 0
SPECIFICATION Spec
INVARIANT StopClearsAlarm
