\* The second child starts at order 3, the first order of a day as skipDays counts.
CONSTANTS
  SmallTable = 4
  Parallel = 3
  OrdersBound = 5
  AddressBound = 4
  IntMax = 100
  MinLines = 1
  MaxLines = 2
  ItemCount = 3
  SeedNumbers = {1}
  MaxRestarts = 0
  TotalRows <- MCTotalRows
  YearDays = 3
  Calendar <- MCCalendar
  Seeds <- MCSeeds
SPECIFICATION Spec
INVARIANT MatchesSerial
CHECK_DEADLOCK FALSE
