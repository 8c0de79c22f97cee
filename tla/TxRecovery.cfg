\* Up to three allocations of two objects; ids 1 and 3 share a counter shard.
SPECIFICATION Spec
CONSTANTS
  SHARDS = 2
  Objects = {1, 2}
  MaxTx = 3
  MaxVersion = 2
  MaxFound = 3
INVARIANTS FulfilledIsLeast RecoversNewest ScanOrderIrrelevant
CHECK_DEADLOCK FALSE
