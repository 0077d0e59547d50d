CONSTANTS
  Jobs = {c1, c2}
  NoJob = NoJob
  Cooperative = {c1, c2}
  Resumable = {c1, c2}
  MaxAttempts = 2
  MaxCommands = 2
  MaxCrashes = 1
  MaxTorn = 0
  MaxClockSets = 0
SPECIFICATION Spec
SYMMETRY Symmetry
INVARIANTS TypeOK RecordsValid ChildAfterParent
PROPERTIES RequestsHonoured NoPublicationBehindRequest BackoffKept
