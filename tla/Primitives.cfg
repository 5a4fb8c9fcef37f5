SPECIFICATION MCFairSpec
CONSTANTS
  Procs = {p1, p2, p3, p4}
  Entries = {1, 2, 3, 4, 5, 6}
  Priorities = {0, 1}
  Registrations = {w1, w2, w3}
  Events = {e1}
  NoEvent = none
  MaxTime = 2
  Depth = 2
  Subscribers = {s1, s2}
  Threads = {h1, h2}
  Tasks = {t1, t2, t3}
  Sentinel = end
  Byte = 4
  Wide = 2
  Prefixes <- SomePrefixes
  Count = 2
  Stoppers = {c1}
INVARIANTS Exclusion HeapSound CancelNoticed IntegersSound Released
PROPERTIES WritersServed EndIsNoticed ClosedEnds
CHECK_DEADLOCK FALSE
