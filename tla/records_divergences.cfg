\* The divergences of the README, one at a time: replace what a line below names.
SPECIFICATION Spec
CONSTANTS
  Record = {r1, r2, r3}
  CacheSize = 3
  Slot = {s1, s2}
  Faults = {}
INVARIANT NothingLost
\* or  SPECIFICATION FairSpec   CacheSize = 2   PROPERTY CacheAlwaysDrains
