\* The poll, a lifecycle save, failing saves and every operation of the user,
\* interleaved; the app may leave the screen.
CONSTANTS
  a1 = a1
  a2 = a2
  l1 = l1
  Accounts <- OneAccount
  Restored <- OneMessage
  UserOps <- AllOps
  LifeJobs <- OneJob
  SavesMayFail = TRUE
  DrainBatch = 1
  MaxDrainBatches = 2
  FlushMaxBatch = 2
  MaxOps = 2
  MaxEmitted = 1
  MaxStops = 1
SPECIFICATION FairSpec
INVARIANTS TypeOK CleanMeansSaved
PROPERTIES DiskNeverRegresses TransportIsShown
CHECK_DEADLOCK FALSE
