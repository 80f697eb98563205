SPECIFICATION FairSpec
CONSTANTS
  qkv = qkv
  fc1 = fc1
  NBlocks = 6
  Active <- ThreeOfSix
  Steps = 6
  Selected <- AllButOneStep
  Interval = 2
  Matrices <- Pair
  NoMatrix = NoMatrix
  MaxRuns = 3
  Faults = TRUE
INVARIANTS SlotsIntact FreshResidual
PROPERTIES ImplementsCore RunEnds
CHECK_DEADLOCK FALSE
