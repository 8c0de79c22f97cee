\* Three threads, a slot for each, used as SoundUse asks, under fair scheduling.
SPECIFICATION FairSpec
CONSTANTS
  Threads = {t1, t2, t3}
  NoThread = NoThread
  REGISTRY_MAX_THREADS = 3
  ArriveIsFenced = TRUE
  MaxReadDepth = 1
  TryLockers = {}
INVARIANTS TypeOK ReaderExclusion WriterExclusion ReadersRegistered NoLeakedRegistration IInv
PROPERTIES Implements ClaimEnters SomeWriterEnters ReaderEnters
