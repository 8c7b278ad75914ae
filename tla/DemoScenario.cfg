SPECIFICATION Spec
CONSTANTS
  Tab = {t1, t2}
  Run = {r1, r2}
  None = None
  MaxResets = 1
  MaxOffers = 2
SYMMETRY SymTabsRuns
INVARIANTS OneScenario AcceptedByOne
