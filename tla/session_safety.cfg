\* One account, so that every interleaving of a worker with its successor and
\* of timed-out commands with retries is explored.
CONSTANTS
  a1 = a1
  Accounts <- OneAccount
  AutoReconnect <- OneAccount
  MaxWorkers = 2
  MaxMsgs = 2
  MaxEvents = 3
  MaxCommands = 2
  FlushMaxBatch = 1
SPECIFICATION Spec
INVARIANTS TypeOK SentPrefix SentWasHandedOver AwaitedCommandIsQueued DeletedLeavesNothing
CHECK_DEADLOCK FALSE
