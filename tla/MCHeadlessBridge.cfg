SPECIFICATION FairSpec
CONSTANTS
  c1 = c1
  c2 = c2
  c3 = c3
  bash = bash
  write = write
  NULL = NULL
  Callers = {c1, c2, c3}
  Tools = {bash, write}
  MaxBlocks = 2
  MaxLines = 2
INVARIANTS TypeOK OnlyTheHolderRuns
PROPERTIES ApprovalIsOneShot InterruptEndsTurn WaiterIsServed
