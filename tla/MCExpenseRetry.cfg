CONSTANTS
  PageSize = 1
  MaxExpenses = 4
  MaxEvents = 2
  Slots = {1, 2}

SPECIFICATION Spec
INVARIANT RetryOnce
CHECK_DEADLOCK FALSE
