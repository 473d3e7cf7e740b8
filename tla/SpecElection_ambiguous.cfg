SPECIFICATION Spec
CONSTANTS
  r1 = r1
  r2 = r2
  r3 = r3
  None = None
  Undecided = Undecided
  GaveUp = GaveUp
  Runners <- ThreeRunners
  Ids <- ThreeIds
  MaxPolls = 4
  QuietStreak = 2
  MinSinglePoll = 2
  MaxAwaits = 2
  ListLag = FALSE
  Window = 4
  LoneAdopters = FALSE
  Ambiguous = TRUE
  LateFailures = TRUE
  MaxFaults = 1
CHECK_DEADLOCK FALSE
SYMMETRY RunnerSymmetry
INVARIANTS LowestSurvives RollsBackOnlyOwn
