CONSTANTS
  Sessions <- NoSessions
  Validated <- StoresAndSites
  MaxRow = 6
  MaxShown = 2
  Seeds = {0, 1, 2}
  Outcome <- Chosen
SPECIFICATION Spec
INVARIANTS
  RowIsTheTables
CHECK_DEADLOCK FALSE
