SPECIFICATION SeedSpec
CONSTANTS
  ann = ann
  bob = bob
  cy = cy
  hr = hr
  hr2 = hr2
  top = top
  dev = dev
  t1 = t1
  Users = {ann, bob, cy}
  Teams = {t1}
  Team <- MCTeam
  Positions = {hr, hr2, top, dev}
  Parent <- MCParent
  Panel <- MCPanel
  Branch = {top}
  WalkGuard = 3
  Null = Null
  Years = {1, 2}
  ThisYear = 2
  Months = {1, 2}
  Worked <- MCWorked
  Typed <- MCTyped
  Rivals <- MCRivals
  PageSizes = {1, 2}
  PageSize = 2
  CanEdit = TRUE
  x1 = x1
  x2 = x2
  Exports = {x1, x2}
  MaxActs = 2
  MaxRivals = 1
INVARIANTS
  ReportFollowsTheDays
  DaysComeFromTheirYear
  OnlyTheseAreLost
  SpinnersEnd
PROPERTIES
  SavesAreWhole
CHECK_DEADLOCK FALSE
