SPECIFICATION Spec
CONSTANTS
  Delivery = {d1}
  Rider = {r1, r2, r3, r4}
  Offer = {o1, o2, o3, o4}
  Handler = {h1}
  Worker = {w1}
  None = None
  MaxDispatchAttempts = 2
  SlowHandlers = FALSE
  MaxFaults = 0
SYMMETRY Symmetry
INVARIANT DispatchStops
CHECK_DEADLOCK FALSE
