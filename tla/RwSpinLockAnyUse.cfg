\* Three threads, two slots, a buffered arrival, nested sections and try_lock().
SPECIFICATION Spec
CONSTANTS
  Threads = {t1, t2, t3}
  NoThread = NoThread
  REGISTRY_MAX_THREADS = 2
  ArriveIsFenced = FALSE
  MaxReadDepth = 2
  TryLockers = {t1, t2, t3}
SYMMETRY Symmetry
INVARIANT WriterExclusion
