CONSTANTS
  Contexts = {"build", "lint"}
  StatusContexts = {"lint"}
  Timeout = 4
  MaxErrors = 2
  Faults = {"error", "forbidden", "statuses"}
  MaxDelay = 1
SPECIFICATION FairSpec
INVARIANTS TypeOK VerdictIsEarned SteadyVerdict
PROPERTIES WaitEnds
CHECK_DEADLOCK FALSE
