\* The divergences of the README, one at a time: replace what a line below names.
SPECIFICATION Spec
CONSTANTS
  Zone = {z1}
  MaxAge = 3
  Settings <- MCSettings
  ResetDelay = 2
  Faults = {"freeze"}
PROPERTY StepByStep
\* or  Faults = {"patrol"}   PROPERTY CutNeedsAbsence
\* or  Faults = {"poll_race"}   PROPERTY ReleaseWaits
\* or  Faults = {"edit"}   INVARIANT SilentAtRest
\* or  SPECIFICATION FairSpec   Faults = {"heat"}   PROPERTY HotStoveAlarms
\* or  SPECIFICATION FairSpec   Faults = {"serial"}   PROPERTY CutIsCarriedOut
