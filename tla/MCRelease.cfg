SPECIFICATION TrainSpec
CONSTANTS
  g1 = g1
  g2 = g2
  MaxLegs = 2
  MaxCommits = 1
  MaxProbeFaults = 1
  MaxMain = 3
  MaxReleaseFaults = 2
  Gates = {g1, g2}
  Correlation <- SameManifest
  TagOrder <- ReleaseOrder
  Pinned = {"provider"}
  MaxPolls = 0
  MaxGateFaults = 1
  Squads = {1, 2}
  SessionAttempts = 2
  MaxEntryFaults = 2
INVARIANTS ProbeIsHonest ReleaseGateIsSafe RunEntryIsSafe
PROPERTIES ReleaseCutIsSafe
CHECK_DEADLOCK FALSE
