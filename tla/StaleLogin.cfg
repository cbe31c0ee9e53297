SPECIFICATION PwSpec
CONSTANTS
  Logins = {l1, l2}
  Changes = {c1, c2}
  First = First
  Other = Other
  HashSlots = 2
INVARIANTS
  ChangeEndsSessions
CHECK_DEADLOCK FALSE
