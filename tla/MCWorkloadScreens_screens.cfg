SPECIFICATION SeedSpec
CONSTANTS
  e1 = e1
  you = you
  Ids = {e1, e2}
  Users = {me, you}
  Name <- MCName
  Me = me
  IsWorker = FALSE
  Null = Null
  Days = {1, 2, 3, 4}
  Today = 3
  EditDays = 1
  Weekend = {4}
  Month <- MCMonth
  Years = {1, 2}
  Months = {0, 11}
  DayHours = 8
  EntryHours = 8
  GroupPageSize = 1
  Ranges <- MCRanges
  Narrow <- MCNarrow
  MaxActs = 2
INVARIANTS
  TableAndChartsFollow
  OwnDaysAreRight
  SaveKeepsTheDay
CHECK_DEADLOCK FALSE
