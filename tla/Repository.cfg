\* Two threads, two shards, one new object: nested transactions, or a crash at any
\* step and a new process.
SPECIFICATION Spec
CONSTANTS
  SHARDS = 2
  Threads = {t1, t2}
  NoThread = NoThread
  MaxObject = 5
  MaxTxId = 5
  MaxObjects = 3
  MaxDepth = 2
  DepthWithCrashes = 1
  MaxRestarts = 1
SYMMETRY Symmetry
INVARIANTS
  TypeOK RepeatableReads LocksReleased NeverUnlocksOthers FreshObjectIds
CHECK_DEADLOCK FALSE
