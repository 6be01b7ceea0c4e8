\* Three requests to a forest of three positions, two at a time.
SPECIFICATION ReparentSpec
CONSTANTS
  Positions = {p1, p2, p3}
  Slots = {s1, s2}
  Null = Null
  Keep = Keep
  MaxRequests = 3
PROPERTIES
  CycleNeedsOverlap
  UnnamedColumnsKept
  RequestsFinish
CHECK_DEADLOCK FALSE
