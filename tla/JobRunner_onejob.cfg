SPECIFICATION Spec
CONSTANTS
  NJobs = 2
  Handlers = {h1}
  MaxBoots = 2
  Crashes = TRUE
  Stops = FALSE
  WorkerFaults = FALSE
  SlowKill = FALSE
INVARIANT OneJobAtATime
CHECK_DEADLOCK FALSE
