SPECIFICATION QueueSpec
CONSTANTS
  Job = {j1, j2}
  None = None
  Attempts = 3
  MaxFaults = 3
INVARIANT SentOncePerRun
PROPERTY Settles
CHECK_DEADLOCK FALSE
