SPECIFICATION Spec
CONSTANTS
  alice = alice
  laptop = laptop
  Pseudonym <- Accounts
  Device <- Devices
  MaxGeneration = 1
  MaxSeq = 3
  DefaultIndexLimit = 2
  Upload = {u1, u2, u3}
  Pruner = {}
  Eraser = {}
  Reader = {}
  Seed <- Nothing
  MaxChunks = 2
INVARIANTS
  NoOrphanChunks
  TotalsAddUp
  RestoreWalk
PROPERTIES
  ImplementsBlobStore
SYMMETRY Symmetric
CHECK_DEADLOCK FALSE
