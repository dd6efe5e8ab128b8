SPECIFICATION Spec
CONSTANTS
  alice = alice
  laptop = laptop
  Pseudonym <- Accounts
  Device <- Devices
  MaxGeneration = 1
  MaxSeq = 1
  DefaultIndexLimit = 2
  Upload = {u1}
  Pruner = {x1}
  Eraser = {}
  Reader = {}
  Seed <- Nothing
  MaxChunks = 1
PROPERTY RetentionFloor
CHECK_DEADLOCK FALSE
