\* Three children, no restarts: chunks that start within a day and one that
\* starts where a day starts (order 3, the second child).
CONSTANTS
  SmallTable = 4
  Parallel = 3
  OrdersBound = 5
  AddressBound = 4
  IntMax = 100
  MinLines = 1
  MaxLines = 2
  ItemCount = 3
  SeedNumbers = {1, 2, 3, 4}
  MaxRestarts = 0
  TotalRows <- MCTotalRows
  YearDays = 3
  Calendar <- MCCalendar
  Seeds <- MCSeeds
SPECIFICATION Spec
INVARIANTS TypeOK RowsStartAligned NoSeedOverrun SerialUnlessDayBoundary ItemsUniqueInOrder
CHECK_DEADLOCK FALSE
