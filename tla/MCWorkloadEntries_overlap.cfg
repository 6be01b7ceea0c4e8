SPECIFICATION SeedSpec
CONSTANTS
  e1 = e1
  c1 = c1
  c2 = c2
  Null = Null
  Keep = Keep
  Entries = {e1, e2}
  Owners = {o1}
  Activities = {1, 2}
  Categories = {c1, c2}
  Projects = {g1, g2}
  Slots = {s1, s2}
  Dates = {32}
  FirstDay = 32
  LastDay = 32
  Amounts = {250}
  EditWindow = 32
  MaxRequests = 2
CHECK_DEADLOCK FALSE
SYMMETRY Symmetry
INVARIANTS
  ProjectMatchesActivity
PROPERTIES
  DeletedStayDeleted
