SPECIFICATION FairSpec
CONSTANTS
  Replica = {r1, r2, r3}
  Found = {"empty", "old", "current"}
  MaxFaults = 1
  MaxStops = 1
INVARIANTS
  TypeOK
  ServesCompleteSchema
  DrainsBeforeClosing
PROPERTIES
  SettledEntriesLast
  EveryStopEnds
  AllServeInTheEnd
