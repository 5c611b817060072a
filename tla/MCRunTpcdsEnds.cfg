\* One scale, every run may hang; the script may be killed and started again, in
\* the other mode.
CONSTANTS
  alpha = alpha
  beta = beta
  Scales <- MCOneScale
  Queries <- MCOneQuery
  Queues <- MCQueues
  RunCount = 1
  Modes = {"csv", "parquet"}
  MayBeKilled = TRUE
  MaxScripts = 2
  MaxFaults = 1
  MaxTimeouts = 2
SPECIFICATION FairSpec
PROPERTIES ScriptEnds
CHECK_DEADLOCK FALSE
