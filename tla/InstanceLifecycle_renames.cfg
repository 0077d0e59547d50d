CONSTANTS
  p = p
  q = q
  Procs = {p}
  Nobody = Nobody
  Ops <- MCRestoring
  Schemas = {3}
  Bundle = 9
  MaxContent = 0
  MaxCrashes = 1
  MaxFailures = 0
SPECIFICATION FairSpec
PROPERTY InterruptedSettles
