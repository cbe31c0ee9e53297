SPECIFICATION MCSpec
CONSTANTS
  a = a
  b = b
  d1 = d1
  d2 = d2
  c1 = c1
  c2 = c2
  sq = sq
  pg = pg
  my = my
  ms1 = ms1
  ms2 = ms2
  mo = mo
  re = re
  es = es
  Names = {a, b}
  Contents = {d1, d2}
  MaxDepth = 2
  Unnamed = Unnamed
  Dir = Dir
  Like <- MCLike
  MaxEntries <- MCMaxEntries
  Providers = {"in-memory", "json-file", "sqlite"}
  Callers = {c1, c2}
  Asks <- MCAsks
  PageSize = 2
  NameOrder <- MCNameOrder
  FirstKeys <- MCFirstKeys
  MaxKeyLen = 4
  MaxFails = 1
  Sources = {sq, pg, my, ms1, ms2, mo, re, es}
  Provider <- MCProvider
  MaxRows <- MCMaxRows
  Asking = {r1, r2}
  MongoRows = 2
  MostFound = 2
  Nothing = Nothing
  Lines = {"x", "y"}
  LogCapacity = 3
  SampleCapacity = 2
  MaxAuditEntries = 2
  MaxFailedLogins = 1
  MaxSeq = 4
  AuditTimes = {1, 2}
INVARIANTS
  TreesWellFormed
  FileFollowsTree
  MoveLosesNothing
  CarriedIsKept
  DirectoriesAreKeys
  ConnectionsReturned
  CutIsMarked
PROPERTIES
  SqliteImplementsTree
  HistoriesAreRecent
CHECK_DEADLOCK FALSE
