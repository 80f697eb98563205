SPECIFICATION FairSpec
CONSTANTS
  Clients = {c1}
  Full = 1
  Scenarios <- OneLine
PROPERTY StreamEnds
CHECK_DEADLOCK FALSE
