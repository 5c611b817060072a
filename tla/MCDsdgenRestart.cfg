\* Two children, one of which may be killed or may be started over when it has
\* stopped, with or without -FORCE; customer_address is small, child 1's alone.
\* With seed 7 the first return comes after the first sale, so that a forced
\* process has old returns beside new sales for a while.
CONSTANTS
  SmallTable = 3
  Parallel = 2
  OrdersBound = 3
  AddressBound = 2
  IntMax = 100
  MinLines = 1
  MaxLines = 2
  ItemCount = 2
  SeedNumbers = {1, 7}
  MaxRestarts = 1
  YearDays = 2
  TotalRows <- MCTotalRows
  Calendar <- MCCalendarMidDay
  Seeds <- MCSeeds
SPECIFICATION FairSpec
INVARIANTS FinishedBuildIsTheTable ReturnsHaveSales
PROPERTIES UnforcedKeepsFiles ProcessesStop ImplementsChunkFiles
CHECK_DEADLOCK FALSE
