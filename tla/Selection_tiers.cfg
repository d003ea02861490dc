CONSTANTS
  Issues = {1, 3, 4}
  Pulls = {2}
  Pickups <- TwoPickups
  Priorities <- OnePriority
  Cap = 2
  Lots <- SomeLots
  MaxNights = 2
  MaxWrites = 1
  Fails = TRUE
SPECIFICATION SelectSpec
INVARIANTS SelectTypeOK QueueIsKept CommentedOnce
PROPERTIES ResetsOnlyOrphans SelectionEnds
CHECK_DEADLOCK FALSE
