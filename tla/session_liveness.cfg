\* Liveness of calls, connection attempts and abandoned workers.
CONSTANTS
  a1 = a1
  Accounts <- OneAccount
  AutoReconnect <- OneAccount
  MaxWorkers = 2
  MaxMsgs = 1
  MaxEvents = 2
  MaxCommands = 1
  FlushMaxBatch = 1
SPECIFICATION FairSpec
PROPERTIES NeverStuckConnecting AbandonedWorkerExits CallReturns
CHECK_DEADLOCK FALSE
