\* Everybody may do everything, done too often as well, and the group is used again.
CONSTANTS
  t1 = t1
  t2 = t2
  t3 = t3
  Threads = {t1, t2, t3}
  Waiters = {t1, t2, t3}
  Null = Null
  Size = 1
  MaxAdds = 1
  SpuriousFailures = TRUE
SPECIFICATION Spec
INVARIANTS
  ShortfallIsReported
  OneWaker
CHECK_DEADLOCK FALSE
