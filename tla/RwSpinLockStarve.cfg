\* Two threads under fair scheduling: the class comment on writers.
SPECIFICATION FairSpec
CONSTANTS
  Threads = {t1, t2}
  NoThread = NoThread
  REGISTRY_MAX_THREADS = 2
  ArriveIsFenced = TRUE
  MaxReadDepth = 1
  TryLockers = {}

PROPERTY WriterStarvationFree
