SPECIFICATION Spec
CONSTANTS
  Keys = {k1}
  Calls = {c1, c2}
  None = None
  Never = Never
  Ttl = 1
  RenewTtl = TRUE
  ShrinkFactor = 1
  Deadlines = {1}
  Horizon = 1
INVARIANT RetryAdmitsAnew
CHECK_DEADLOCK FALSE
