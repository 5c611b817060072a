\* Two scales of two queries in two queues; one command of each scale fails, one
\* run hangs.
CONSTANTS
  alpha = alpha
  beta = beta
  Scales <- MCScales
  Queries <- MCQueries
  Queues <- MCQueues
  RunCount = 2
  Modes = {"csv", "parquet"}
  MayBeKilled = FALSE
  MaxScripts = 1
  MaxFaults = 1
  MaxTimeouts = 1
SPECIFICATION Spec
SYMMETRY QueueSymmetry
INVARIANTS TypeOK OneQueryAtATime FaultsStayInScale OneScaleStored EveryRunSaved
PROPERTIES DataUntilRunEnds
CHECK_DEADLOCK FALSE
