SPECIFICATION FairSpec
CONSTANTS
  Roles <- AllRoles
  RoleOrder <- SourceOrder
  SpecIds <- TwoSpecs
  None = None
  Absent = Absent
  Lanes = 2
  Scopes = {"full"}
  PartlyTracked = TRUE
  Granular = FALSE
  MaxFaults = 1
  MaxCrashes = 0
CHECK_DEADLOCK FALSE
INVARIANTS PublishedIsCurrent
PROPERTIES RerunsConverge
