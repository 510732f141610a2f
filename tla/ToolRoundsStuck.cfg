SPECIFICATION FairSpec
CONSTANTS
  Calls <- LocalCalls
  KnownTools <- SomeTools
  MaxBatch = 1
  MaxRounds = 1
  MaxBlocks = 3
  TotalLimit <- LowTotals
  FetchLimit <- NoFetches
  PerToolLimit <- LowEach
  Native = TRUE
INVARIANT
  FinishesAfterTools
CHECK_DEADLOCK FALSE
