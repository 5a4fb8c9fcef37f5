SPECIFICATION MCFairSpec
CONSTANTS
  Keys = {k1, k2}
  Values = {r1, r2}
  NoValue = none
  ShrinkFactor = 1
  MinCapacity = 1
  Deliveries = {d1}
  Messages = {m1}
  Calls = {c1, c2, c3, c4}
  Limits = {0, 1, 2}
  MaxChanges = 1
  Runs = {j1, j2}
  Callers = {s1, s2}
  MaxTime = 3
  Work = {a, b, c}
  PoolWork = {b, c}
  Executors = 1
  Submissions = {q1, q2}
  Ids = {w1, w2}
  Streams = {i1, i2}
  MaxAttempts = 2
INVARIANTS ReservationKept EndedOnce LimitHeld OneExecution FiresOwnOccurrence FailureNotHidden
PROPERTIES AnsweredEnds WindsUp
CHECK_DEADLOCK FALSE
