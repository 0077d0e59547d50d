SPECIFICATION FairSpec
CONSTANTS
  j1 = j1
  j2 = j2
  p1 = p1
  p2 = p2
  ref = ref
  Refs = {ref}
  RefOf <- OneRef
  Procs = {p1}
  Samplers = {p1}
  Jobs <- OneJob
  Native = {}
  Usage = {3}
  Caps <- OneSlot
  Queue = 2
  JobUnits = 4
  Reserve = 2
  MaxAttempts = 2
  Lease = 1
  Deadline = 3
  Backoff = 1
  DayLength = 2
  MaxTime = 2
  MaxGeneration = 1
  MaxAuthority = 0
  MaxCrashes = 2
  MaxClockSets = 1
INVARIANT OneTransmission
PROPERTIES SentIsCharged TerminalIsFinal 
