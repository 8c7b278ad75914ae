SPECIFICATION FairSpec
CONSTANTS
  Tick = {k1, k2}
  Poll = {p1}
  Home = 0
  Store = 3
  Dropoff = 1
  TicksPerPoll = 4
INVARIANT DeliveredOnce
PROPERTIES NoSkip Arrives
CHECK_DEADLOCK FALSE
