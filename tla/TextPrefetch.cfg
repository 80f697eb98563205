SPECIFICATION FairSpec
CONSTANTS
  Layers = 5
  MaxDepth = 3
  Lanes = {a, b}
  Faults = TRUE
INVARIANTS RightLayer WeightsAccounted
PROPERTY Returns
CHECK_DEADLOCK FALSE
