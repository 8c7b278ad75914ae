SPECIFICATION DataSpec
CONSTANTS
  Rider = {r1, r2, r3}
  Phone = {p1, p2}
  Task = {t1, t2}
  None = None
  MaxFaults = 1
  DemoCall = {c1, c2}
  DemoStore = {s1}
  DemoRider = {p1}
  BulkPhone = {p2}
  Editor = {e1}
  MaxCalls = 2
  Order = {o1}
SYMMETRY Symmetry
INVARIANTS DataTypeOK ExactlyOnce FailsOnlyDisturbed SameStatus GhostsWereDeleted
PROPERTY ChangedOnRequest
CHECK_DEADLOCK FALSE
