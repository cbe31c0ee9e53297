SPECIFICATION Spec
CONSTANTS
  MaxRequests = 1
  MaxCrashes = 0
  MaxLimit = 1
  MaxRetries = 0
  InitLimit = 1
  InitRetries = 0
  InitPolicy = "skip"
  Updates <- NoUpdates
  CanDelete = FALSE
  StoreFaults = {}
  ApiDuringStart = FALSE
INVARIANTS CancelledNotTimedOut
CHECK_DEADLOCK FALSE
