SPECIFICATION OpsSpec
CONSTANTS
  Delivery = {d1}
  Rider = {r1, r2}
  Offer = {o1, o2}
  Handler = {h1, h2}
  Worker = {w1}
  None = None
  MaxDispatchAttempts = 2
  SlowHandlers = FALSE
  MaxFaults = 1
  Endpoints = {"create", "accept", "reject", "cancelOffer", "cancel"}
  Serial = FALSE
SYMMETRY Symmetry
INVARIANTS OneInsideLock OneLiveOffer OncePerRider
CHECK_DEADLOCK FALSE
