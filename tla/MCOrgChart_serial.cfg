\* Three requests, none of which overlap, at most two of them to the users API.
SPECIFICATION SeedSpec
CONSTANTS
  p1 = p1
  p2 = p2
  p3 = p3
  u1 = u1
  u2 = u2
  u3 = u3
  Null = Null
  Keep = Keep
  Positions = {p1, p2, p3}
  Users = {u1, u2, u3}
  ADMIN = ADMIN
  LEAD = LEAD
  Roles = {ADMIN, LEAD}
  Superusers = {ADMIN}
  Slots = {s1}
  UserSlots = {t1}
  MaxRequests = 3
  MaxTotal = 3
  MaxUserRequests = 2
  MaxInFlight = 1
  WalkGuard = 4
CHECK_DEADLOCK FALSE
INVARIANTS
  Acyclic
PROPERTIES
  AdministratorsRemain
  ChangesFollowTheRule
  DeletesSpareDependents
  ImplementsForest
