CONSTANTS
  CiMaxTries = 2
  ConflictMaxTries = 2
  VerifyBeforeFix = FALSE
  Faults = {"engine", "github", "reply"}
  HumanKinds = {"human", "lookalike"}
  MaxHumanPushes = 2
  MaxBase = 2
SPECIFICATION FairSpec
INVARIANTS LeavesItClean
PROPERTIES RewritesOnlyMarkedTips KeepsPromise EndsInBudget
