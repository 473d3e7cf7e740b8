SPECIFICATION FairImportSpec
CONSTANTS
  a = a
  b = b
  c = c
  Absent = Absent
  Importers <- ThreeImporters
  Convergent <- TwoConvergent
  RootIds <- Roots
  RootOf <- Preallocation
  Revision <- Payloads
  Deferred = FALSE
  MaxImportFaults = 2
CHECK_DEADLOCK FALSE
INVARIANT FailureLeavesNothing
PROPERTIES ImportsAreSafe EveryImportEnds
