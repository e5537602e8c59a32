\* The divergences of the README, one at a time: replace what a line below names.
SPECIFICATION ProcessSpec
CONSTANTS
  Config <- MCConfig
  Saved <- MCSaved
  Faults = {}
  Id = {1}
  MaxCommands = 3
  MaxQueries = 1
  Handset = {p1}
  Size <- MCSizes
  Deceptive <- MCDeceptive
  MaxFrame = 4
  MtuTold = TRUE
CHECK_DEADLOCK FALSE
INVARIANT WifiSurvivesFailure
\* or  Faults = {"nmcli"}   PROPERTY ConnectedIsRequested
\* or  Faults = {"query"}   INVARIANT FailureIsUndone
\* or  Faults = {"unheard"}   INVARIANT FailureIsUndone
\* or  Faults = {"late"}   INVARIANT FailureIsUndone
\* or  Faults = {"kill"}   MaxCommands = 4   INVARIANT NothingLeftBehind
\* or  Faults = {"scan"}   PROPERTY CancelLeadsToIdle
\* or  Faults = {"same_id"}   PROPERTY AnswersNeverTurn
\* or  PROPERTY HalfFrameIsForgotten
\* or  INVARIANT NothingWaits
\* or  MtuTold = FALSE   PROPERTY CommandsGetThrough
