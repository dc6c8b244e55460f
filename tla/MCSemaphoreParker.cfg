\* Two parkers, and an unparker more than there are parkers.
CONSTANTS
  o1 = o1
  o2 = o2
  u1 = u1
  u2 = u2
  u3 = u3
  Owners = {o1, o2}
  Unparkers = {u1, u2, u3}
  None = None
SPECIFICATION FairSpec
INVARIANTS
  TypeOK
  CounterReset
PROPERTIES
  RefinesParker
  NotifiedReturns
