CONSTANTS
  Issues <- Four
  Graphs <- FourOlder
  MaxIssues = 1
  Heuristic = FALSE
  Outcomes = {"ready", "draft", "failed", "error-branch"}
  Trips = FALSE
  Fails = FALSE
  MaxInterrupts = 2
  Reviewers = {}
SPECIFICATION DrainSpec
PROPERTIES DrainsUnlessHeld
