\* A worker that keeps its session is retired.
CONSTANTS
  a1 = a1
  Accounts <- OneAccount
  AutoReconnect <- OneAccount
  MaxWorkers = 1
  MaxMsgs = 0
  MaxEvents = 2
  MaxCommands = 1
  FlushMaxBatch = 1
SPECIFICATION Spec
PROPERTY RetiresOnlyExiting
CHECK_DEADLOCK FALSE
