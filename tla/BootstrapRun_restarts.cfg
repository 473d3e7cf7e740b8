SPECIFICATION Spec
CONSTANTS
  Roles <- AllRoles
  RoleOrder <- SourceOrder
  SpecIds <- TwoSpecs
  None = None
  Absent = Absent
  Lanes = 2
  Scopes = {"full", "spec-only"}
  PartlyTracked = TRUE
  Granular = TRUE
  MaxFaults = 3
  MaxCrashes = 1
CHECK_DEADLOCK FALSE
INVARIANTS
  TypeOK FailedRunRestores RollbackAfterLanes SnapshotBeforeWrite StateNeverDangles
  RerunsNeverDuplicate
PROPERTIES SavedOnlyVerified
