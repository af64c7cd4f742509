CONSTANTS
  NE = 1
  NV = 1
  Kinds = {k1}
  Filters = {{k1}}
  Publishers = {p1}
  Stoppable = {}
  Limit = 4
  MaxAttempts = 5
  MaxFaults = 0
  MaxCrashes = 0
SPECIFICATION Spec
INVARIANTS DeliveredWasAccepted
