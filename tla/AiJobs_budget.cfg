SPECIFICATION Spec
CONSTANTS
  j1 = j1
  j2 = j2
  p1 = p1
  p2 = p2
  ref = ref
  Refs = {ref}
  RefOf <- OneRef
  Procs = {p1, p2}
  Samplers = {}
  Jobs <- TwoJobs
  Native = {j1}
  Usage = {1}
  Caps <- Scarce
  Queue = 2
  JobUnits = 2
  Reserve = 2
  MaxAttempts = 1
  Lease = 1
  Deadline = 3
  Backoff = 1
  DayLength = 1
  MaxTime = 2
  MaxGeneration = 0
  MaxAuthority = 1
  MaxCrashes = 0
  MaxClockSets = 0
SYMMETRY Alike
INVARIANTS TypeOK UnknownWithinBudget SlotsCoverRemote
