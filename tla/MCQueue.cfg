CONSTANTS
  NE = 1
  NV = 3
  Kinds = {k1, k2}
  Filters = {{k2}}
  Publishers = {p1}
  Stoppable = {}
  Limit = 4
  MaxAttempts = 2
  MaxFaults = 1
  MaxCrashes = 1
SPECIFICATION Spec
INVARIANTS TypeOK NoMissedWake AttemptsAreCounted
PROPERTIES QueueSpec PendingIsKept
