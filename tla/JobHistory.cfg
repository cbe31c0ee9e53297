SPECIFICATION Spec
CONSTANTS
  MaxRequests = 2
  MaxCrashes = 1
  MaxLimit = 1
  MaxRetries = 1
  InitLimit = 1
  InitRetries = 1
  InitPolicy = "queue"
  Updates <- NoUpdates
  CanDelete = TRUE
  StoreFaults = {"props", "finish", "states", "list"}
  ApiDuringStart = FALSE
INVARIANTS RunningIsHeld
PROPERTIES HistoryIsFinal CancelledNeverRetries
CHECK_DEADLOCK FALSE
