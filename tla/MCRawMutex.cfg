\* Every unlock may be fair. The abstract mutex is a property of safety, which
\* symmetry leaves sound.
CONSTANTS
  t1 = t1
  t2 = t2
  t3 = t3
  t4 = t4
  Threads = {t1, t2, t3, t4}
  Null = Null
  SpinLimit = 1
  SpuriousFailures = TRUE
  FairUnlock = TRUE
SPECIFICATION Spec
SYMMETRY Symmetry
PROPERTY RefinesMutexSpec
INVARIANTS
  MutualExclusion
  LockedIffOwned
  QueueLockExclusive
  NodesAlive
  ListRep
  PopsOldest
  TimeoutOnlyInFairRelease
  FairReleaseFindsSleeper
  NoStrandedWaiter
