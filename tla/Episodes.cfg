SPECIFICATION FairSpec
CONSTANTS
  None = None
  Runners <- AllRunners
  MaxAttempts = 2
  MaxFaults = 2
  MaxSignals = 2
  MaxTurns = 2
INVARIANTS EpisodeTypeOK ResultIsSaid SuccessIsEarned RewardIsBacked CleanedUp
PROPERTIES EpisodeEnds
CHECK_DEADLOCK FALSE
