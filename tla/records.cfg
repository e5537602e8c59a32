SPECIFICATION FairSpec
CONSTANTS
  Record = {r1, r2, r3}
  CacheSize = 2
  Slot = {s1, s2}
  Faults = {"broken", "crash"}
INVARIANTS LossIsAccounted InOrder
PROPERTY CacheDrains
