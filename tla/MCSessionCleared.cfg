CONSTANTS
  Slots = {1, 2}
  MaxSessions = 2
  MaxEvents = 3

SPECIFICATION FairSpec
PROPERTY ClearedWhenRevoked
CHECK_DEADLOCK FALSE
