SPECIFICATION Spec
CONSTANTS
  Roles <- AllRoles
  RoleOrder <- SourceOrder
  SpecIds <- TwoSpecs
  None = None
  Absent = Absent
  Lanes = 2
  Scopes = {"full", "spec-only"}
  PartlyTracked = FALSE
  Granular = FALSE
  MaxFaults = 0
  MaxCrashes = 0
CHECK_DEADLOCK FALSE
INVARIANTS PublishedIsCurrent
