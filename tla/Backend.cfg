SPECIFICATION BackendSpec
CONSTANTS
  Clients = {c1}
  Full = 2
  Scenarios <- LinesOrCancel
INVARIANTS BarNeverRegresses NeverBackToQueued MigrationIsSafe OldRowsAdopted
PROPERTY RegisteredIsTold
CHECK_DEADLOCK FALSE
