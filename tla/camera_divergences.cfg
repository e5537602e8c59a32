\* The divergences of the README, one at a time: replace what a line below names.
SPECIFICATION WatchedSpec
CONSTANTS
  MaxCameras = 1
  Thread = {1, 2}
  MaxRetries = 2
  Exclusive = TRUE
  Hasty = FALSE
PROPERTY StaysOnline
\* or  SPECIFICATION CameraFairSpec   PROPERTY Recovers
\* or  SPECIFICATION CameraSpec   INVARIANT SeesThePresent
\* or  MaxCameras = 2   Hasty = TRUE   PROPERTY LetsGo
\* or  SPECIFICATION CameraSpec   MaxCameras = 2   Hasty = TRUE   INVARIANT StartedOnce
