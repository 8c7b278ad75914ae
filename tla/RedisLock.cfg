SPECIFICATION Spec
CONSTANTS
  Caller = {c1, c2, c3}
  Ttl = 2
  MaxAcquires = 4
INVARIANTS LockInv Exclusive
PROPERTY HandedOver
CHECK_DEADLOCK FALSE
