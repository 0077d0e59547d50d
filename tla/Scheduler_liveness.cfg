CONSTANTS
  Jobs = {c1, c2}
  NoJob = NoJob
  Cooperative = {c1, c2}
  Resumable = {c1, c2}
  MaxAttempts = 1
  MaxCommands = 1
  MaxCrashes = 1
  MaxTorn = 0
  MaxClockSets = 0
SPECIFICATION FairSpec
PROPERTIES JobsSettle CancelCompletes RestartCompletes
