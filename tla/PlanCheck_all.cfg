CONSTANTS
  Issues <- MCIssues
  Ranks <- MCRanks
  Orders <- MCOrders
  MaxOdd = 1
SPECIFICATION Spec
INVARIANTS PlanIsExact ChainsAreRight
CHECK_DEADLOCK FALSE
