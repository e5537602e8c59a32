SPECIFICATION Spec
CONSTANTS
  z1 = z1
  z2 = z2
  Zone = {z1}
  Detector = {1, 2}
  Wiring <- OneZone
  Thermometer = {1}
  Lora = 9
  Slot = {}
  QueueBound = 0
  MissLimit = 2
  ResetDelay = 1
  Faults = {"lost", "edit", "restart", "port"}
PROPERTY FireWasReported
