SPECIFICATION Spec
CONSTANTS
  alice = alice
  laptop = laptop
  Pseudonym <- Accounts
  Device <- Devices
  MaxGeneration = 1
  MaxSeq = 1
  DefaultIndexLimit = 2
  Upload = {u1}
  Pruner = {}
  Eraser = {x1}
  Reader = {}
  Seed <- Nothing
  MaxChunks = 1
INVARIANT NoOrphanChunks
CHECK_DEADLOCK FALSE
