\* The divergences of the README, one at a time: replace what a line below names.
SPECIFICATION Spec
CONSTANTS
  Local = {c1}
  Remote = remote
  MaxSessions = 1
  Session = {s1, s2}
  TerminalFaults = {}
  Version = {v1, v2}
  Default = v1
  Overlapping = FALSE
  Zone = {z1, z2}
  Index = {1, 2}
  SensorAddress = {1, 2, 3}
  WiringFaults = {}
  Size <- MCSizes
  MaxNoise = 3
  MaxBuffer = 4
  KeptBytes = 3
CHECK_DEADLOCK FALSE
PROPERTY StoppedIsGone
\* or  PROPERTY LastOutputArrives
\* or  TerminalFaults = {"cancel"}   PROPERTY SlotComesBack
\* or  TerminalFaults = {"immortal"}   INVARIANT ShellsAreBounded
\* or  Overlapping = TRUE   INVARIANT FileIsWhole
\* or  Overlapping = TRUE   INVARIANT PromisedIsSaved
\* or  INVARIANT ReadsItsOwnSensor
\* or  WiringFaults = {"noserial"}   INVARIANT RefusedStaysOut
\* or  PROPERTY NotADetectors
\* or  PROPERTY NotAnothers
\* or  WiringFaults = {"full"}   INVARIANT SensorsAreDistinct
\* or  Index = {0, 1}   INVARIANT WiringIsKept
