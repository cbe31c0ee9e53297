SPECIFICATION FairSpec
CONSTANTS
  MaxRequests = 2
  MaxCrashes = 1
  MaxLimit = 2
  MaxRetries = 0
  InitLimit = 2
  InitRetries = 0
  InitPolicy = "skip"
  Updates <- NoUpdates
  CanDelete = FALSE
  StoreFaults = {"props", "saveBare"}
  ApiDuringStart = TRUE
INVARIANTS LiveNotInterrupted
PROPERTIES InterruptedFinishes
CHECK_DEADLOCK FALSE
