\* The divergences of the README, one property (and its line) at a time.
SPECIFICATION DetectedSpec
CONSTANTS
  MaxAge = 3
  Configs <- MCConfigs
  Camera = {c1, c2}
  Roi = TRUE
  DetectionSettings <- MCDetectionSettings
  Measured = {"none"}
PROPERTY DropoutIsNoDeparture
\* or  INVARIANT NoCountdownAtRest
\* or  PROPERTY FailureIsNoDeparture
\* or  PROPERTY ArrivalIsConsecutive  Camera = {c1}  DetectionSettings <- MCDefault
\* or  PROPERTY AbsenceIsSmoothed  Camera = {c1}  DetectionSettings <- MCReordered
