SPECIFICATION ProcessSpec
CONSTANTS
  Config <- MCConfig
  Saved <- MCSaved
  Faults = {"raise", "lose", "scan", "kill"}
  Id = {1}
  MaxCommands = 3
  MaxQueries = 1
  Handset = {p1, p2}
  Size <- MCSizes
  Deceptive <- MCDeceptive
  MaxFrame = 4
  MtuTold = TRUE
INVARIANT FailureIsUndone
PROPERTIES ConnectedIsRequested AnswersNeverTurn Answered CommandsGetThrough
