\* One object, two nested transactions in a row, a killed process.
SPECIFICATION Spec
CONSTANTS
  SHARDS = 2
  ObjectCount = 1
  Blocks = {1, 2, 3}
  CrashModels = {"process"}
  ForeignCondition = 1
  MaxTx = 3
  MaxPowerTx = 0
  MaxEntries = 1
  ForeignTurns = {2, 3}
  RestartIds = {8}
  MaxCrashes = 1
INVARIANT KnownObjectsRecovered
CHECK_DEADLOCK FALSE
