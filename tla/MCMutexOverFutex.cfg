\* Liveness; an exchange that fails for no reason for ever is excluded.
CONSTANTS
  t1 = t1
  t2 = t2
  t3 = t3
  Threads = {t1, t2, t3}
  Null = Null
  SpinLimit = 1
  SpuriousFailures = FALSE
  FairUnlock = TRUE
  WordMax = 2
SPECIFICATION FairFutexSpec
INVARIANTS
  NobodySleepsAlone
PROPERTIES
  ParkersAreFutexParkers
  ImplementsRawMutex
  EveryLockReturns
  FreeLockIsTaken
  SleepersAreServed
