CONSTANTS
  Values = {v1, v2}
  NoValue = NoValue
  Priorities = {8, 16}
  ND = 1
  NP = 1
  Commandable = {1}
  Apis = {}
  Hvacs = {}
  Overrides = {}
  Offlines = {f1}
  Syncs = {s1}
  None = None
  MaxInputs = 2
  MaxFaults = 0
  Shielded = {}
SPECIFICATION Spec
INVARIANT StatusIsTrue
