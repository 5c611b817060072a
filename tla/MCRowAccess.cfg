CONSTANTS
  Sessions <- AloneOrTogether
  Validated <- AllValidated
  MaxRow = 6
  MaxShown = 2
  Seeds = {0, 1, 2}
  Outcome <- Chosen
SPECIFICATION Spec
INVARIANTS
  TypeOK
  AccessibleRowIsTheTables
  HistoryStaysInKey
  NoUnknownOverrun
CHECK_DEADLOCK FALSE
