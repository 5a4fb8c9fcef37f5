SPECIFICATION Spec
CONSTANTS
  p1 = p1
  p2 = p2
  Partitions <- TwoPartitions
  Length <- OneLonger
  Last = 2
  Limit = 1
  Prefetch = 1
  MaxRebalances = 1
  NoQueue = NoQueue
INVARIANTS QueueHasLane
CHECK_DEADLOCK FALSE
