SPECIFICATION FairSpec
CONSTANTS
  Replica = {r1, r2}
  Found = {"old"}
  MaxFaults = 0
  MaxStops = 0
PROPERTY BootsKeepEntries
