SPECIFICATION MCSpec
CONSTANTS
  Enabled = TRUE
  InitKind = "interval"
  MaxSaves = 2
  MaxOrphans = 1
  MaxCrashes = 1
  Horizon = 20
  Period = 4
  Intervals = {0, 3, 5}
  LastRuns = {0, 2}
  Early = 1
  MaxDelay = 12
  MaxBack = 5
  StatsPageSize = 1
  ColumnCounts = {2}
  MaxRuns = 3
  MaxClock = 3
INVARIANTS
  ScheduleAsAnswered
  StatsExact
PROPERTIES
  TicksGoOn
  FiresWhenDue
CHECK_DEADLOCK FALSE
