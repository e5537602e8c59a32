SPECIFICATION DetectedSpec
CONSTANTS
  MaxAge = 3
  Configs <- MCConfigs
  Camera = {c1, c2}
  Roi = TRUE
  DetectionSettings <- MCDetectionSettings
  Measured = {"none", "high"}
SYMMETRY MCSymmetry
INVARIANTS ReturnEndsCountdown
PROPERTIES NoEarlyEscalation OneCallbackPerAbsence ImplementsGuard AbsenceIsSmoothed
