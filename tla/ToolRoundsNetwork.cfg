SPECIFICATION Spec
CONSTANTS
  Calls <- NetworkCalls
  KnownTools <- SomeTools
  MaxBatch = 3
  MaxRounds = 1
  MaxBlocks = 2
  TotalLimit <- LowTotals
  FetchLimit <- NoFetches
  PerToolLimit <- LowEach
  Native = FALSE
INVARIANTS
  EveryCallAnswered
PROPERTIES
  WithinBudget
CHECK_DEADLOCK FALSE
