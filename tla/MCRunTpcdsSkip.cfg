\* The script is started a second time, in the same mode or in the other; no
\* command fails.
CONSTANTS
  alpha = alpha
  beta = beta
  Scales <- MCOneScale
  Queries <- MCOneQuery
  Queues <- MCQueues
  RunCount = 1
  Modes = {"csv", "parquet"}
  MayBeKilled = FALSE
  MaxScripts = 2
  MaxFaults = 0
  MaxTimeouts = 0
SPECIFICATION Spec
INVARIANTS SkipMeansTablesExist
CHECK_DEADLOCK FALSE
