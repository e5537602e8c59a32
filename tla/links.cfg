SPECIFICATION LinksSpec
CONSTANTS
  Client = {c1, c2}
  MaxFails = 5
  Faults = {"outage", "refuse", "hangup", "drop", "expire", "restart"}
  Browser = {b1, b2}
  MaxConnections = 1
  Heartbeat = 2
  AcceptYields = FALSE
INVARIANTS AttemptIsAwaited IsListenedTo
PROPERTIES Recovers GivesUp PlacesAreTrue Informed
