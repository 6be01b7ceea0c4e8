SPECIFICATION SeedSpec
CONSTANTS
  e1 = e1
  c1 = c1
  c2 = c2
  Null = Null
  Keep = Keep
  Entries = {e1, e2}
  Owners = {o1, o2}
  Activities = {1, 2}
  Categories = {c1, c2}
  Projects = {g1}
  Slots = {s1}
  Dates = {0, 33}
  FirstDay = 32
  LastDay = 33
  Amounts = {4, 250}
  EditWindow = 32
  MaxRequests = 2
SYMMETRY Symmetry
CHECK_DEADLOCK FALSE
INVARIANTS
  TypeOK
  CategoryFits
PROPERTIES
  OnlyOwnersTouch
  EditWindowKept
