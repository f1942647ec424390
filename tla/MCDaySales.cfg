CONSTANTS
  Days = {1, 2}
  Dishes = {i1, i2}
  Bills = {1}
  Slots = {s1, s2}
  MaxRows = 2
  MaxEvents = 2
SPECIFICATION Spec
INVARIANT SalesUncontradicted
CHECK_DEADLOCK FALSE
