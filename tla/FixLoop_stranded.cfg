CONSTANTS
  CiMaxTries = 2
  ConflictMaxTries = 1
  VerifyBeforeFix = FALSE
  Faults = {"github"}
  HumanKinds = {}
  MaxHumanPushes = 1
  MaxBase = 1
SPECIFICATION Spec
INVARIANT NoStrandedDraft
