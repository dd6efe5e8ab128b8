SPECIFICATION Spec
CONSTANTS
  alice = alice
  laptop = laptop
  Pseudonym <- Accounts
  Device <- Devices
  MaxGeneration = 4
  MaxSeq = 2
  DefaultIndexLimit = 2
  Upload = {u1}
  Pruner = {x1, x2}
  Eraser = {}
  Reader = {r1}
  Seed <- Compacted
  MaxChunks = 2
INVARIANTS
  WindowContiguous
  ServesPromisedBytes
PROPERTIES
  RetentionFloor
SYMMETRY Symmetric
CHECK_DEADLOCK FALSE
