\* A text is written while a poll of the same account is in progress.
CONSTANTS
  a1 = a1
  a2 = a2
  l1 = l1
  Accounts <- OneAccount
  Restored <- NoMessage
  UserOps <- ConnectAndSend
  LifeJobs <- OneJob
  SavesMayFail = FALSE
  DrainBatch = 1
  MaxDrainBatches = 2
  FlushMaxBatch = 2
  MaxOps = 3
  MaxEmitted = 0
  MaxStops = 0
SPECIFICATION FairSpec
PROPERTY QueuedIsAttempted
CHECK_DEADLOCK FALSE
