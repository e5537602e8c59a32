SPECIFICATION Spec
CONSTANTS
  Zone = {z1}
  MaxAge = 3
  Settings <- MCSettings
  ResetDelay = 2
  Faults = {"freeze", "stall", "error", "serial", "edit"}
PROPERTIES CutNeedsAbsence ReleaseWaits
