SPECIFICATION SeedSpec
CONSTANTS
  ann = ann
  bob = bob
  p1 = p1
  p2 = p2
  Accounts = {ann, bob}
  Passwords = {p1, p2}
  Codes <- MCCodes
  Rights <- MCRights
  Null = Null
  MaxActs = 3
INVARIANTS
  SessionIsOne
  ShellIsFresh
  FormsKnowTheirRequests
CHECK_DEADLOCK FALSE
