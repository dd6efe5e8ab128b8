SPECIFICATION FairSpec
CONSTANTS
  alice = alice
  laptop = laptop
  Pseudonym <- Accounts
  Device <- Devices
  MaxGeneration = 3
  MaxSeq = 2
  DefaultIndexLimit = 2
  c1 = c1
  c2 = c2
  Call <- Both
  Kinds = {"go", "ts"}
  Request <- Requests
  MaxCopies = 2
  MaxResends = 2
  Seeded <- OldAndNew
INVARIANTS
  TypeOK
  AppendsOnce
  RetryFollowsUse
  OneResendRecovered
PROPERTIES
  NoLateEffect
  EveryCallReturns
CHECK_DEADLOCK FALSE
