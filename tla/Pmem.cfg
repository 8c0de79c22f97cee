\* Two objects; processes are killed, or power fails with persistent caches.
SPECIFICATION Spec
CONSTANTS
  SHARDS = 2
  ObjectCount = 2
  Blocks = {1, 2, 3}
  CrashModels = {"process", "eADR"}
  ForeignCondition = 1
  MaxTx = 4
  MaxPowerTx = 3
  MaxEntries = 1
  ForeignTurns = {4}
  RestartIds = {3, 4}
  MaxCrashes = 1
INVARIANTS TypeOK MainHoldsCurrent LogBlocksOwned ReturnedIsDurable
PROPERTY Implements
CHECK_DEADLOCK FALSE
