SPECIFICATION SpecInOrder
CONSTANTS
  r1 = r1
  r2 = r2
  r3 = r3
  r4 = r4
  r5 = r5
  Rider = {r1, r2, r3, r4, r5}
  Unnamed = Unnamed
  Nowhere = Nowhere
  MaxKm = 2
  DefaultRadius = 1
  Limit = 2
  OverFetch = 2
  MaxMoves = 2
SYMMETRY Symmetry
INVARIANTS AnsweredAreNearest NobodyMissed
CHECK_DEADLOCK FALSE
