CONSTANTS
  Jobs = {p1, q1}
  NoJob = NoJob
  Cooperative = {p1}
  Resumable = {}
  MaxAttempts = 2
  MaxCommands = 1
  MaxCrashes = 1
  MaxTorn = 1
  MaxClockSets = 1
SPECIFICATION Spec
INVARIANTS QueueClaimable ReceiptDecides
PROPERTIES ReceiptFinal CommittedOnce
