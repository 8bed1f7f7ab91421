\* A product that captures events and shuts the client down.
SPECIFICATION ClientSpec
CONSTANTS
  Events = 3
  Entities = 1
  Drain = {timer, hidden}
  Timer = timer
  timer = timer
  MaxBatch = 2
  KeepaliveBatch = 1
  MaxQueue = 2
  MaxRetryBatches = 1
  MaxTries = 2
CHECK_DEADLOCK FALSE
INVARIANT
  ShutdownHasFlushed
