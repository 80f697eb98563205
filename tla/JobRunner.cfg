SPECIFICATION Spec
CONSTANTS
  NJobs = 2
  Handlers = {h1, h2}
  MaxBoots = 2
  Crashes = TRUE
  Stops = TRUE
  WorkerFaults = TRUE
  SlowKill = TRUE
SYMMETRY Symmetry
CONSTRAINT OverlapBound
INVARIANTS NoStrayChild RunningIsWorked CancelHonoured WriterHasDirectory
PROPERTIES SpawnedOnce VerdictStands ImplementsQueue ResurrectedIsDoomed
CHECK_DEADLOCK FALSE
