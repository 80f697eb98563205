SPECIFICATION Spec
CONSTANTS
  NJobs = 1
  Handlers = {h1}
  MaxBoots = 1
  Crashes = FALSE
  Stops = TRUE
  WorkerFaults = FALSE
  SlowKill = FALSE
PROPERTY StopLeavesNoneRunning
CHECK_DEADLOCK FALSE
