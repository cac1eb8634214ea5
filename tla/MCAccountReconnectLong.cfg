SPECIFICATION Spec
CONSTANTS
  MaxWaits = {30}
  MaxRetries = 44
  MaxLosses = 0
  MaxUser = 0
INVARIANT WaitRight
CHECK_DEADLOCK FALSE
