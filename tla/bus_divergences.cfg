\* The divergences of the README, one at a time: replace what a line below names.
SPECIFICATION FairSpec
CONSTANTS
  z1 = z1
  z2 = z2
  Zone = {z1, z2}
  Detector = {1, 2}
  Wiring <- TwoZones
  Thermometer = {}
  Lora = 9
  Slot = {}
  QueueBound = 0
  MissLimit = 2
  ResetDelay = 1
  Faults = {"late", "dead"}
PROPERTY DeadGoesCold
\* or  SPECIFICATION Spec   Zone = {z1}   Detector = {1}   Wiring <- OneZone   Thermometer = {1}   Slot = {c1}   Faults = {"late"}   PROPERTY StrictOrder
\* or  Detector = {1}   Wiring <- SharedBus   Slot = {c1}   Faults = {}   PROPERTY PermitComes
\* or  Zone = {z1}   Detector = {1}   Wiring <- OneZone   Slot = {c1}   Faults = {"restart"}   PROPERTY RelayComesBack
