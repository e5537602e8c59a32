\* The divergences of the README, one at a time: replace what a line below names.
SPECIFICATION LinksSpec
CONSTANTS
  Client = {c1, c2}
  MaxFails = 5
  Faults = {"outage", "drop", "expire"}
  Browser = {b1, b2}
  MaxConnections = 1
  Heartbeat = 2
  AcceptYields = FALSE
PROPERTY OutageIsSurvived
\* or  Faults = {"hangup"}   PROPERTY GivesUpWhenHungUp
\* or  Faults = {"refuse", "restart"}   PROPERTY RefusedTokenIsRenewed
\* or  Faults = {"restart"}   INVARIANT OneConnection
\* or  AcceptYields = TRUE   INVARIANT OpenIsListed
