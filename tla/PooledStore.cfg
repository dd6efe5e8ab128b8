SPECIFICATION FairPooledSpec
CONSTANTS
  alice = alice
  laptop = laptop
  Pseudonym <- Accounts
  Device <- Devices
  MaxGeneration = 1
  MaxSeq = 1
  DefaultIndexLimit = 2
  u1 = u1
  u2 = u2
  x1 = x1
  x2 = x2
  x3 = x3
  r1 = r1
  Upload <- Uploads
  Pruner <- Pruners
  Eraser <- Erasers
  Reader <- Readers
  Traffic <- ThreeOrFour
  Seed <- Nothing
  MaxChunks = 2
  Conns = 3
INVARIANTS
  TypeOK
  WholeBlobs
  AnswersAreTrue
  ConflictsAreEarly
  DeletedForGood
  PoolNeverStuck
PROPERTIES
  EveryRequestAnswered
CHECK_DEADLOCK FALSE
