SPECIFICATION FairSpec
CONSTANTS
  Zone = {z1, z2}
  Slot = {s1, s2}
  Debounce = 2
  Cooldown = 4
  Together = FALSE
INVARIANT ProgressIsReal
PROPERTIES OrderedIsCut StopsMatchPresses
