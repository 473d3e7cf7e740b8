SPECIFICATION Spec
CONSTANTS
  Roles <- AllRoles
  RoleOrder <- SourceOrder
  SpecIds <- TwoSpecs
  None = None
  Absent = Absent
  Lanes = 2
  Scopes = {"full"}
  PartlyTracked = TRUE
  Granular = FALSE
  MaxFaults = 3
  MaxCrashes = 0
CHECK_DEADLOCK FALSE
PROPERTIES SpecRestoreAttempted
