SPECIFICATION FairSpec
CONSTANTS
  r1 = r1
  r2 = r2
  r3 = r3
  None = None
  Undecided = Undecided
  GaveUp = GaveUp
  Runners <- TwoRunners
  Ids <- TwoIds
  MaxPolls = 10
  QuietStreak = 2
  MinSinglePoll = 2
  MaxAwaits = 5
  ListLag = TRUE
  Window = 2
  LoneAdopters = FALSE
  Ambiguous = FALSE
  LateFailures = FALSE
  MaxFaults = 0
CHECK_DEADLOCK FALSE
INVARIANTS TypeOK RunsAgree
PROPERTIES DeletesOnlyOwn EveryRunEnds IdentitySpec
