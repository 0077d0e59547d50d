CONSTANTS
  NPaths = 2
  Values = {a, b}
  Foreign = {x}
  Absent = Absent
  Txns = {t1, t2}
  Immutable = {1}
  Removable = {2}
  RecoverFirst = TRUE
  ManifestFirst = FALSE
  MaxCrashes = 2
  MaxFaults = 1
  MaxForeign = 1
SPECIFICATION Spec
INVARIANTS TypeOK AllOrNothing AcknowledgedIsDurable
PROPERTIES OthersPreserved Implements
