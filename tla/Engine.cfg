SPECIFICATION EngineSpec
CONSTANTS
  NBlocks = 5
  NSteps = 5
  Options <- MCOptions
  Catalogue <- MCCatalogue
  Programs <- MCPrograms
INVARIANTS
  KernelsSafe
  CallsSafe DataWhole CommandsClosed
  BuffersHold
  PlanHolds TilesBlend ClipHolds
PROPERTY ImplementsLayers
CHECK_DEADLOCK FALSE
