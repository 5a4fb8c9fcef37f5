SPECIFICATION MCFairSpec
CONSTANTS
  Items = {1, 2, 3}
  Targets = {a, b}
  MaxVersion = 3
  Branches = 2
  Pools = {p}
  Graphs <- MCGraphs
  ValueTypes = {"a", "b"}
  MaxTasks = 4
  MaxDelayed = 2
INVARIANTS DownstreamOpen LinksServed OneFate
PROPERTIES StopReturns WriteReaches MessageSettles
CHECK_DEADLOCK FALSE
