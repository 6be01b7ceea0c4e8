\* Three changes of data or of what a page shows, or second logins in a row.
SPECIFICATION SeedSpec
CONSTANTS
  Null = Null
  Accounts = {1, 2, 3}
  Roles = {"ADMIN", "MANAGER", "WORKER"}
  Passwords = {"p", "q"}
  Items = {1, 2, 3, 4}
  Days = {0, 31, 32}
  Today = 32
  Ahead = 1
  Filters <- ListFilters
  Sizes = {1, 2}
  DefaultSize = 2
  MaxEntries = 4
  MaxTimers = 2
  MaxActs = 3
CHECK_DEADLOCK FALSE
INVARIANTS
  SessionIsActive
  EntriesFit
  ListIsNotBlank
PROPERTIES
  EntriesKeepTheirPlace
  WorkersTouchOnlyTheirOwn
