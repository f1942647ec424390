SPECIFICATION Spec
CONSTANTS
  Keys = {k1, k2}
  Bodies = {b1, b2}
  Forms = {f1, f2}
  Requests = {r1, r2}
  None = none
INVARIANTS TypeOK OncePerKey ToldWasDone RetryNotRefused
PROPERTIES ImplementsContract
CHECK_DEADLOCK FALSE
