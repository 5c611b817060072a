\* The second child skips 3 rows, the first count the int of this instance cannot hold.
CONSTANTS
  SmallTable = 3
  Parallel = 2
  OrdersBound = 5
  AddressBound = 2
  IntMax = 3
  MinLines = 1
  MaxLines = 2
  ItemCount = 2
  SeedNumbers = {1}
  MaxRestarts = 0
  YearDays = 2
  TotalRows <- MCTotalRows
  Calendar <- MCCalendarMidDay
  Seeds <- MCSeeds
SPECIFICATION Spec
INVARIANT MatchesSerial
CHECK_DEADLOCK FALSE
