SPECIFICATION Spec
CONSTANTS
  Local = {c1}
  Remote = remote
  MaxSessions = 1
  Session = {s1, s2}
  TerminalFaults = {}
  Version = {v1, v2}
  Default = v1
  Overlapping = FALSE
  Zone = {z1, z2}
  Index = {1, 2}
  SensorAddress = {1, 2, 3}
  WiringFaults = {"noserial"}
  Size <- MCSizes
  MaxNoise = 3
  MaxBuffer = 4
  KeptBytes = 3
INVARIANTS ShellsAreBounded WiringIsKept RepliesGetThrough
PROPERTIES NothingAfterExit ClosedMeansEnded ImplementsStore
CHECK_DEADLOCK FALSE
