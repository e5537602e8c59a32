\* Divergences of the README: PatrolIsQuiet and QuietAtRest, under BroadcastSpec, with Kind = {"alarm"}.
SPECIFICATION BroadcastFairSpec
CONSTANTS
  Zone = {1, 2}
  Kind = {"warning", "alarm"}
  QueueBound = 0
INVARIANT OneAfterwards
PROPERTY HeardAgain
