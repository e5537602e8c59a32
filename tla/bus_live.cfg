SPECIFICATION FairSpec
CONSTANTS
  z1 = z1
  z2 = z2
  Zone = {z1}
  Detector = {1}
  Wiring <- OneZone
  Thermometer = {}
  Lora = 9
  Slot = {c1}
  QueueBound = 0
  MissLimit = 2
  ResetDelay = 1
  Faults = {"dead", "abort"}
PROPERTIES CutoffRunsItsCourse DeadGoesCold
