SPECIFICATION TreeSpec
CONSTANTS
  Pids = {"sh", "p1", "p2"}
  Root = "sh"
  Init1 = "init"
  Stubborn = {"p2"}
PROPERTIES FoundDie
CHECK_DEADLOCK FALSE
