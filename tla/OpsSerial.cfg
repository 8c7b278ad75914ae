SPECIFICATION OpsSpec
CONSTANTS
  Delivery = {d1, d2}
  Rider = {r1, r2}
  Offer = {o1, o2}
  Handler = {h1}
  Worker = {w1}
  None = None
  MaxDispatchAttempts = 2
  SlowHandlers = FALSE
  MaxFaults = 0
  Endpoints = {"create", "accept", "reject", "manual", "assign", "reassign", "cancelOffer", "riderCancel", "deliver", "pickUp", "cancel", "goAvailable"}
  Serial = TRUE
SYMMETRY Symmetry
INVARIANTS OneLiveOffer OwnedWhenIdle AssignedIsBusy
CHECK_DEADLOCK FALSE
