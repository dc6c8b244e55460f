\* One parker and two unparkers.
CONSTANTS
  o1 = o1
  u1 = u1
  u2 = u2
  Owners = {o1}
  Unparkers = {u1, u2}
  None = None
SPECIFICATION UntilSpec
INVARIANT CounterReset
