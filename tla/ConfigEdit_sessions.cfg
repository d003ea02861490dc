CONSTANTS
  Repos = {"r1", "r2"}
  Base = "r1"
  MaxChanges = 1
  MaxEdits = 2
SPECIFICATION EditSpec
INVARIANTS EditTypeOK WrittenAsAsked
PROPERTIES EnterKeeps OthersAreLeftAlone RefusedOnlyByInheritance
CHECK_DEADLOCK FALSE
