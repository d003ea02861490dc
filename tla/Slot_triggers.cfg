CONSTANTS
  Day = 2
  Midnight = 1
  Triggers = {"github-cron", "host-scheduler", "both"}
  Faults = {"host", "list"}
  MaxFires = 2
  MaxRuns = 4
  Horizon = 3
SPECIFICATION Spec
INVARIANTS TypeOK OncePerOccurrence NoNightIsLost
CHECK_DEADLOCK FALSE
