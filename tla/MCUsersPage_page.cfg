\* One administrator, two users, one of them on each page of the table; the
\* first list and two requests, their reloads, any order of answers and failures.
CONSTANTS
  Null = Null
  Ids = {i1, i2}
  PageSize = 1
  MaxActs = 2
SYMMETRY UserNames
SPECIFICATION SeedSpec
\* The administrator may stop clicking.
CHECK_DEADLOCK FALSE
INVARIANTS
  SelectedIsListed
  OwnChangesShown
  ForeignFormNeedsIcon
  PageShowsUsers
