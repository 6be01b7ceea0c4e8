\* One browser, one table of each kind of cache, two rows; the first load and
\* two requests of the user, their reloads, any order of answers and failures.
CONSTANTS
  Null = Null
  Joined = {projects}
  Shared = {teams}
  Ids = {i1, i2}
  MaxActs = 2
SYMMETRY RowNames
SPECIFICATION SeedSpec
\* The user may stop clicking.
CHECK_DEADLOCK FALSE
INVARIANTS
  RowsBelongToTheTab
  OwnChangesShown
  CachesFollow
