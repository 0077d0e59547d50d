CONSTANTS
  NPaths = 2
  Values = {a, b}
  Foreign = {x}
  Absent = Absent
  Txns = {t1, t2}
  Immutable = {1}
  Removable = {2}
  RecoverFirst = FALSE
  ManifestFirst = TRUE
  MaxCrashes = 0
  MaxFaults = 1
  MaxForeign = 0
SPECIFICATION Spec
INVARIANT AcknowledgedIsDurable
