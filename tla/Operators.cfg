SPECIFICATION MCFairSpec
CONSTANTS
  Keys = {k1}
  Calls = {c1, c2}
  None = None
  Never = Never
  Ttl = 1
  RenewTtl = TRUE
  ShrinkFactor = 1
  Deadlines = {1}
  Horizon = 1
  Results = {r1, r2, r3}
  Inline = {r1}
INVARIANTS StoreSound CollectorInCall
PROPERTIES GroupsSettle CallEnds
CHECK_DEADLOCK FALSE
