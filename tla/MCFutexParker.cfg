\* The futex word and its protocol do not depend on the width of the word.
CONSTANTS
  u1 = u1
  u2 = u2
  u3 = u3
  Unparkers = {u1, u2, u3}
  WordMax = 3
SPECIFICATION FairSpec
INVARIANTS
  WordConsistent
  NoLostWakeup
PROPERTIES
  RefinesParker
  NotifiedReturns
  ParkUntilReturns
