SPECIFICATION MCSpec
CONSTANTS
  s1 = s1
  t1 = t1
  e1 = e1
  h1 = h1
  NoOne = NoOne
  Sessions = {s1}
  Tokens = {t1}
  Sockets = {e1}
  AwaitKick = {e1}
  Shells = {h1}
INVARIANTS
  NoShellOfEndedSession
  QuietShellEntitled
PROPERTIES
  UnentitledCloses
CHECK_DEADLOCK FALSE
