CONSTANTS
  Policies = {p}
  Cycles = {c, d}
  Nobody = Nobody
  Schedules <- MCAll
  Requests = {r}
  Day = 3
  Interval = 1
  SkippedDays = {6}
  QuietStart = 2
  QuietEnd = 0
  Jitter <- MCNoJitter
  MaxMissedScan = 4
  MaxTime = 4
  MaxRevision = 1
  MaxCrashes = 1
  MaxClockSets = 1
SPECIFICATION FairSpec
INVARIANTS TypeOK NeverEarly ReplayBounded
PROPERTIES NothingForgotten 
