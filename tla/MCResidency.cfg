SPECIFICATION FairSpec
CONSTANTS
  w1 = w1
  w2 = w2
  w3 = w3
  Main = Main
  Janitor = Janitor
  Command = Command
  NULL = NULL
  Workers = {w1, w2, w3}
INVARIANTS TypeOK CallHasModel
PROPERTIES CallsDrain IdleModelIsFreed KeptResident
CHECK_DEADLOCK FALSE
