SPECIFICATION FairSpec
CONSTANTS
  NJobs = 2
  Handlers = {h1}
  MaxBoots = 1
  Crashes = FALSE
  Stops = TRUE
  WorkerFaults = FALSE
  SlowKill = FALSE
PROPERTIES CleanStop CancelStopsChild ShutdownEnds QueuedIsServed
CHECK_DEADLOCK FALSE
