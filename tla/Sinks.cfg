SPECIFICATION MCFairSpec
CONSTANTS
  Items = {1, 2, 3}
  Sids = {s1, s2}
  NoCell = none
  Requests = {r1, r2}
  Byte = 4
  Wide = 2
  SizeBytes = 3
INVARIANTS EndIsLast OneSession ReadsBack
PROPERTIES SessionEnds RequestsEnd
CHECK_DEADLOCK FALSE
