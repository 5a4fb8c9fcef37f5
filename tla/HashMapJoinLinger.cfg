SPECIFICATION FairSpec
CONSTANTS
  Keys = {k1}
  Calls = {c1, c2}
  None = None
  Never = Never
  Ttl = 1
  RenewTtl = TRUE
  ShrinkFactor = 1
  Deadlines = {1}
  Horizon = 1
PROPERTY NothingLingers
CHECK_DEADLOCK FALSE
