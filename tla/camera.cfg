SPECIFICATION WatchedSpec
CONSTANTS
  MaxCameras = 2
  Thread = {1, 2}
  MaxRetries = 2
  Exclusive = TRUE
  Hasty = FALSE
INVARIANT StartedOnce
PROPERTIES Recovers
