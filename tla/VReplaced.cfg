CONSTANTS
  Values = {v1, v2}
  NoValue = NoValue
  Priorities = {8, 16}
  ND = 1
  NP = 1
  Commandable = {1}
  Apis = {a1}
  Hvacs = {}
  Overrides = {o1}
  Offlines = {}
  Syncs = {s1}
  None = None
  MaxInputs = 3
  MaxFaults = 0
  Shielded = {"cleanup", "recording"}
SPECIFICATION Spec
INVARIANT GivesBackWhatItReplaced
