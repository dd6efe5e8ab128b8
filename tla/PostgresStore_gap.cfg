SPECIFICATION Spec
CONSTANTS
  alice = alice
  laptop = laptop
  Pseudonym <- Accounts
  Device <- Devices
  MaxGeneration = 1
  MaxSeq = 3
  DefaultIndexLimit = 2
  Upload = {u1}
  Pruner = {}
  Eraser = {x1}
  Reader = {}
  Seed <- TwoEntries
  MaxChunks = 1
INVARIANT Contiguous
CHECK_DEADLOCK FALSE
