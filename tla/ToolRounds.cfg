SPECIFICATION FairSpec
CONSTANTS
  Calls <- RoundCalls
  KnownTools <- SomeTools
  MaxBatch = 1
  MaxRounds = 4
  MaxBlocks = 2
  TotalLimit <- TwoTotals
  FetchLimit <- NoFetches
  PerToolLimit <- LowEach
  Native = TRUE
INVARIANTS
  TypeOK
  EmptyExplained
PROPERTIES
  WithinBudget
  ReplyEnds
CHECK_DEADLOCK FALSE
