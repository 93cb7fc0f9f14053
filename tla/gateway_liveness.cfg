\* Restored messages and lost connections while the app stays on screen.
CONSTANTS
  a1 = a1
  a2 = a2
  l1 = l1
  Accounts <- TwoAccounts
  Restored <- OneEach
  UserOps <- ConnectOnly
  LifeJobs <- NoJob
  SavesMayFail = FALSE
  DrainBatch = 1
  MaxDrainBatches = 2
  FlushMaxBatch = 2
  MaxOps = 2
  MaxEmitted = 2
  MaxStops = 0
SPECIFICATION FairSpec
PROPERTY QueuedIsAttempted
CHECK_DEADLOCK FALSE
