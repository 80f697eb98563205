SPECIFICATION Spec
CONSTANTS
  prompt = prompt
  prompt2 = prompt2
  file = file
  small = small
  large = large
  fast = fast
  exact = exact
  Media = {file}
  NoMedia = NoMedia
  NoShape = NoShape
  NoKey = NoKey
  Requests <- SomeRequests
  MaxRequests = 3
  MaxEdits = 2
  Faults = TRUE
INVARIANTS ResultIsExact ModelsAccounted FailedDitGone OneShotLifetime
CHECK_DEADLOCK FALSE
