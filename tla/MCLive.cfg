CONSTANTS
  Values = {v1, v2}
  NoValue = NoValue
  Priorities = {8, 16}
  ND = 1
  NP = 1
  Commandable = {1}
  Apis = {}
  Hvacs = {}
  Overrides = {o1}
  Offlines = {f1}
  Syncs = {s1}
  None = None
  MaxInputs = 2
  MaxFaults = 1
  Shielded = {}
SPECIFICATION FairSpec
INVARIANT LeaseInv
PROPERTIES SnapshotIsRecorded NeverOfflineWhileOwned LeaseFairSpec StopCompletes
