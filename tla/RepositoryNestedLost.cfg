\* One thread creates an object in a transaction; the process restarts.
SPECIFICATION Spec
CONSTANTS
  SHARDS = 2
  Threads = {t1}
  NoThread = NoThread
  MaxObject = 5
  MaxTxId = 6
  MaxObjects = 3
  MaxDepth = 2
  DepthWithCrashes = 2
  MaxRestarts = 1
INVARIANT NestedObjectsReadable
CHECK_DEADLOCK FALSE
