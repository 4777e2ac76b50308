CONSTANTS
  Runtimes = {FALSE}
  NoJob = NoJob
  GcBucket = 3
  FlushDelay = 2
  RetryMin = 1
  RetryMax = 2
  AlarmRetry = 1
  SuspendDelay = 4
  Grace = 3
  Retention = 4
  WarnAfter = 4
  MaxDrained = 2
  GcBatch = 1
  MaxTime = 1
  MaxRequest = 2
  MaxFailure = 0
CHECK_DEADLOCK FALSE
SPECIFICATION FairSpec
PROPERTIES SummaryCatchesUp
