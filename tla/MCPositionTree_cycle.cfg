SPECIFICATION Spec
CONSTANTS
  Positions = {p1, p2, p3}
  Slots = {s1, s2}
  Null = Null
  Keep = Keep
  MaxRequests = 2
SYMMETRY Symmetry
INVARIANTS
  Acyclic
CHECK_DEADLOCK FALSE
