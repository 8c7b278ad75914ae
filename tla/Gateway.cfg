SPECIFICATION FairSpec
CONSTANTS
  Call = {c1, c2}
  None = None
  RetryOn = {503}
  MaxTries = 2
INVARIANTS AtMostOnce Truthful OnlyForAdmins
PROPERTY EveryCallAnswered
