SPECIFICATION Spec
CONSTANTS
  Pseudonym = {alice}
  Device = {laptop}
  MaxGeneration = 3
  MaxSeq = 2
  DefaultIndexLimit = 2
  Caller = {c1, c2}
  Blob = {b1, b2}
INVARIANTS
  TypeOK
  Contiguous
  RestoreWalk
PROPERTIES
  RetentionFloor
  ImplementsBlobStore
SYMMETRY Symmetric
