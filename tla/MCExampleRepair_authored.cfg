SPECIFICATION RepairSpec
CONSTANTS
  j1 = j1
  j2 = j2
  Conversions = {j1, j2}
  Workloads <- BothWorkloads
  Definitions <- NamedSchemas
  Samples <- Draws
  RepairDepth = 8
  RepairExpansion = 4
  MaxConversionFaults = 1
INVARIANTS AuthoredExamplesKept
CHECK_DEADLOCK FALSE
