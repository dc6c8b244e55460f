\* One parker and two unparkers.
CONSTANTS
  u1 = u1
  u2 = u2
  Unparkers = {u1, u2}
  Owner = Owner
  None = None
SPECIFICATION Spec
PROPERTY SleepsUntilWoken
