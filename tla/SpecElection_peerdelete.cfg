SPECIFICATION Spec
CONSTANTS
  r1 = r1
  r2 = r2
  r3 = r3
  None = None
  Undecided = Undecided
  GaveUp = GaveUp
  Runners <- ThreeRunners
  Ids <- ThreeIds
  MaxPolls = 10
  QuietStreak = 2
  MinSinglePoll = 2
  MaxAwaits = 5
  ListLag = FALSE
  Window = 2
  LoneAdopters = TRUE
  Ambiguous = TRUE
  LateFailures = FALSE
  MaxFaults = 0
CHECK_DEADLOCK FALSE
PROPERTIES DeletesOnlyOwn
