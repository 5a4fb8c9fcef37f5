SPECIFICATION MCFairSpec
CONSTANTS
  Tasks = {t1, t2}
  Requests = {r1}
  NoRequest = none
  Priorities = {0, 1}
  Heap = FALSE
  MaxTarget = 2
  MaxReconfigure = 1
  Callbacks = {c1, c2}
  MaxTime = 3
INVARIANTS NoLostWakeup
PROPERTIES StartsInTurn ImplementsTaskPool PoolServes DelayedRuns
CHECK_DEADLOCK FALSE
