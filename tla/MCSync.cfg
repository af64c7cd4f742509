CONSTANTS
  Values = {v1, v2}
  NoValue = NoValue
  Priorities = {8, 16}
  ND = 2
  NP = 2
  Commandable = {1}
  Apis = {}
  Hvacs = {h1}
  Overrides = {}
  Offlines = {f1}
  Syncs = {s1}
  None = None
  MaxInputs = 2
  MaxFaults = 1
  Shielded = {"transition"}
SPECIFICATION FairSpec
INVARIANT StatusIsTrue
PROPERTIES SnapshotCatchesUp
