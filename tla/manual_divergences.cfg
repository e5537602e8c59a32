\* The divergences of the README, one at a time: replace what a line below names.
SPECIFICATION Spec
CONSTANTS
  Zone = {z1}
  Slot = {s1, s2}
  Debounce = 2
  Cooldown = 3
  Together = FALSE
PROPERTY CutsInPatrol
\* or  PROPERTY DemoNeedsFire
\* or  INVARIANT DemoLasts
\* or  PROPERTY HeldStopsOnce
\* or  SPECIFICATION SampledSpec   Debounce = 1   PROPERTY HeldIsAnswered
