\* Two generations, and one thread that waits for them.
CONSTANTS
  t1 = t1
  t2 = t2
  t3 = t3
  Threads = {t1, t2, t3}
  Waiters = {t1}
  Null = Null
  Size = 1
  MaxAdds = 1
  SpuriousFailures = FALSE
SPECIFICATION Spec
INVARIANT AnnouncedAreWoken
CHECK_DEADLOCK FALSE
