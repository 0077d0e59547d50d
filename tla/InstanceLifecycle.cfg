CONSTANTS
  p = p
  q = q
  Procs = {p, q}
  Nobody = Nobody
  Ops <- MCOps
  Schemas = {2, 3}
  Bundle = 9
  MaxContent = 1
  MaxCrashes = 2
  MaxFailures = 1
SPECIFICATION FairSpec
INVARIANTS TypeOK SettledImage 
 
