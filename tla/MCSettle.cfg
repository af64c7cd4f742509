CONSTANTS
  NE = 3
  NV = 1
  Kinds = {k1}
  Filters = {{}}
  Publishers = {p1}
  Stoppable = {p1}
  Limit = 2
  MaxAttempts = 2
  MaxFaults = 0
  MaxCrashes = 0
SPECIFICATION FairSpec
INVARIANT FlagFollowsRows
PROPERTIES EveryDeliverySettles
