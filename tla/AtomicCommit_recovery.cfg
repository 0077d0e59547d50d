CONSTANTS
  NPaths = 2
  Values = {a, b}
  Foreign = {x}
  Absent = Absent
  Txns = {t1, t2}
  Immutable = {1}
  Removable = {2}
  RecoverFirst = FALSE
  ManifestFirst = TRUE
  MaxCrashes = 2
  MaxFaults = 0
  MaxForeign = 0
SPECIFICATION FairSpec
INVARIANT RecoveryAccepts
PROPERTY RecoveryCompletes
