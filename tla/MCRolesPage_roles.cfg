SPECIFICATION SeedSpec
CONSTANTS
  Names = {"", "admin", "dev"}
  Slug <- MCSlug
  Room <- MCRoom
  Texts = {"text"}
  Perms = {"users.view"}
  Employees = {ann}
  Null = Null
  MaxId = 4
  MaxActs = 2
  MaxRivals = 2
INVARIANTS
  TableIsSound
  RolesFollow
PROPERTIES
  SystemRolesStay
CHECK_DEADLOCK FALSE
