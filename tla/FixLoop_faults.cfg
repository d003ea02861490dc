CONSTANTS
  CiMaxTries = 3
  ConflictMaxTries = 2
  VerifyBeforeFix = TRUE
  Faults = {"git", "engine", "github"}
  HumanKinds = {"human"}
  MaxHumanPushes = 2
  MaxBase = 2
SPECIFICATION Spec
INVARIANTS ReadyWasGated
PROPERTIES TellsTheNight HumanWorkSurvives
