\* One generation of two workers, and two threads that may wait for it.
CONSTANTS
  t1 = t1
  t2 = t2
  t3 = t3
  Threads = {t1, t2, t3}
  Waiters = {t1, t2}
  Null = Null
  Size = 2
  MaxAdds = 0
  SpuriousFailures = FALSE
SPECIFICATION FairWeakSpec
INVARIANT
  OnlyStaleReadStrands
PROPERTIES
  DoneSynchronizes
  WaitReturnsUnlessStale
CHECK_DEADLOCK FALSE
