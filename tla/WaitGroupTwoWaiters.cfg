\* One generation with one worker, and two threads that wait for it.
CONSTANTS
  t1 = t1
  t2 = t2
  t3 = t3
  Threads = {t1, t2, t3}
  Waiters = {t1, t2}
  Null = Null
  Size = 1
  MaxAdds = 0
  SpuriousFailures = FALSE
SPECIFICATION FairSpec
PROPERTY AbortReturns
CHECK_DEADLOCK FALSE
