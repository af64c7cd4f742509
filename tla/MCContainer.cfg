CONSTANTS
  Processes = {app, rival}
  App = app
  None = None
  ND = 2
  Targets = {1}
  Rows = {1, 2}
  V1Texts = {"True", "21.5", "auto"}
  MaxFaults = 2
  MaxCrashes = 1
SPECIFICATION FairSpec
INVARIANTS TypeOK UsersGoFirst NothingLeftOpen RowsAreTrue
PROPERTIES DatabaseSpec StartsAndClosesEnd
