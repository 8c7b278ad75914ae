SPECIFICATION FairSpec
CONSTANTS
  Delivery = {d1}
  Rider = {r1, r2}
  Offer = {o1, o2}
  Handler = {h1}
  Worker = {w1}
  None = None
  MaxDispatchAttempts = 2
  SlowHandlers = FALSE
  MaxFaults = 1
INVARIANTS DispatchInv AcceptedIsAssigned PendingIsWatched
PROPERTY ClosedIsFinal ImplementsMatching LockIsReturned AnswersInTheEnd
CHECK_DEADLOCK FALSE
