SPECIFICATION FairSpec
CONSTANTS
  MaxRequests = 3
  MaxCrashes = 0
  MaxLimit = 2
  MaxRetries = 0
  InitLimit = 2
  InitRetries = 0
  InitPolicy = "cancel"
  Updates <- LimitUpdates
  CanDelete = FALSE
  StoreFaults = {"saveStart"}
  ApiDuringStart = FALSE
INVARIANTS NoStrandedQueue
PROPERTIES NeverStartsOverLimit RunsEnd
CHECK_DEADLOCK FALSE
