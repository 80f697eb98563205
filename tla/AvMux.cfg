SPECIFICATION FairSpec
CONSTANTS
  Total <- Streamed
  Cap = 2
  Faults = TRUE
INVARIANTS SuccessIsWhole CallerIntact
PROPERTY Returns
CHECK_DEADLOCK FALSE
