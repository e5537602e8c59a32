SPECIFICATION FairSpec
CONSTANTS
  Zone = {z1}
  MaxAge = 3
  Settings <- MCSettings
  ResetDelay = 2
  Faults = {"patrol", "poll_race"}
INVARIANT AnnouncementMatches
PROPERTIES NeglectIsCut DisabledGoesQuiet
