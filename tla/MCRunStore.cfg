CONSTANTS
  k1 = k1
  k2 = k2
  k3 = k3
  Keys <- MCKeys
  MaxEntries = 2
  TTL = 2
  MaxTime = 3
  MaxSaves = 3
SPECIFICATION FairStoreSpec
INVARIANTS
  StoreBounded
  ClaimedAtMostOnce
  ServedIsCurrent
  LostOnlyWhenCrowdedOut
PROPERTY
  ExpiredRunsArePurged
