CONSTANTS
  Rows = {r}
  Devices = {d, e, h}
  Challenges = {c}
  Senders = {f}
  Slots = {s, t}
  Owner = Owner
  None = None
  MAX_AUDIT = 3
  First = d
  MaxAsks = 1
  MAX_RECORDS = 2
  FailingKinds = {"challenge", "redeem", "revoke", "configure"}
  MaxMishaps = 2
SPECIFICATION FairSpec
INVARIANTS AuthorityHolds PayloadKept
PROPERTIES  NothingAfterRevocation
CHECK_DEADLOCK FALSE
